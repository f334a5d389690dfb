------------------------------ MODULE AppProofs -----------------------------
(***************************************************************************)
(* What holds of App for every finite set of INVITEs and every limit on    *)
(* the active calls.                                                       *)
(***************************************************************************)
EXTENDS App, FiniteSetTheorems, TLAPS

AppTypeOK ==
  /\ pc \in {"listen", "serve", "close", "drain", "wait", "returned"}
  /\ sockets \subseteq Listeners /\ serving \subseteq Listeners
  /\ results \in Nat /\ received \in Nat
  /\ reserved \in Nat /\ wg \in Nat
  /\ invite \in [Invites -> {"none", "arrived", "admitted", "running",
                             "removed", "over"}]

\* Number of listeners whose Serve has not returned.
Left == (IF "udp" \in serving THEN 1 ELSE 0) + (IF "tcp" \in serving THEN 1 ELSE 0)

\* Every listener is serving, or its result is in the channel, or it was taken
\* out: the reason why draining two results waits for both.
ResultsCounted ==
  pc \in {"serve", "close", "drain", "wait"} => Left + results + received = 2

\* What App.Run has done at each point.
RunShape ==
  /\ pc = "listen" => serving = {} /\ sockets = {} /\ results = 0 /\ received = 0
  /\ pc = "listen" => \A i \in Invites : invite[i] = "none"
  /\ pc \in {"drain", "wait", "returned"} => sockets = {}
  /\ pc \in {"wait", "returned"} => serving = {}
  /\ pc = "wait" => stopping
  /\ pc = "returned" => Unfinished = {}
  /\ pc = "returned" => stopping \/ \A i \in Invites : invite[i] = "none"
  /\ "app" \notin members => pc = "returned"
  /\ ~storeOpen => pc = "returned"

AInv == AppTypeOK /\ AdmissionExact /\ ResultsCounted /\ RunShape

-----------------------------------------------------------------------------
\* The sets of handlers that the counters count are finite.
LEMMA HandlersFinite == IsFiniteSet(Holding) /\ IsFiniteSet(Unfinished)
  BY AppAssumption, FS_Subset, Zenon DEF Holding, Unfinished

\* Nothing is counted before the first INVITE.
LEMMA AppInit == Init => AInv
<1> SUFFICES ASSUME Init PROVE AInv
  OBVIOUS
<1>1. Holding = {} /\ Unfinished = {}
  BY DEF Init, Holding, Unfinished
<1>2. AdmissionExact
  BY <1>1, FS_EmptySet, AppAssumption DEF Init, AdmissionExact
<1>3. AppTypeOK /\ ResultsCounted /\ RunShape
  BY <1>1 DEF Init, AppTypeOK, ResultsCounted, RunShape, Buses
<1> QED
  BY <1>2, <1>3 DEF AInv

\* Steps that leave the handlers alone leave the counters exact.
LEMMA EngineFrame ==
  ASSUME AInv, UNCHANGED <<reserved, wg, invite>>
  PROVE  AdmissionExact' /\ Unfinished' = Unfinished
  BY DEF AInv, AdmissionExact, Holding, Unfinished

\* Steps of the handlers leave App.Run alone; what is left to show is that none
\* of them gets a call after the return.
LEMMA RunFrame ==
  ASSUME AInv, UNCHANGED <<groupVars, runVars, stopping>>, AppTypeOK',
         pc # "listen",
         pc = "returned" => Unfinished' = {},
         pc = "returned" => stopping \/ \A i \in Invites : invite'[i] = "none"
  PROVE  ResultsCounted' /\ RunShape'
<1>1. ResultsCounted'
  BY DEF AInv, ResultsCounted, Left, runVars
<1>2. RunShape'
  BY DEF AInv, RunShape, runVars, groupVars
<1> QED
  BY <1>1, <1>2

\* A signal, a bus that returns, and main after the group.
LEMMA GroupStep ==
  ASSUME AInv,
         Signal \/ GroupWaits \/ (\E b \in Buses : BusReturns(b))
  PROVE  AInv'
<1>1. UNCHANGED <<runVars, engineVars>>
  BY DEF Signal, GroupWaits, BusReturns
<1>2. AdmissionExact' /\ Unfinished' = Unfinished
  BY <1>1, EngineFrame DEF engineVars
<1>3. AppTypeOK' /\ ResultsCounted'
  BY <1>1 DEF AInv, AppTypeOK, ResultsCounted, Left, runVars, engineVars
<1>4. "app" \notin members' => "app" \notin members
  BY DEF Signal, GroupWaits, BusReturns, Buses
<1>5. ~storeOpen' => pc = "returned"
  BY DEF AInv, RunShape, Signal, GroupWaits, BusReturns
<1>6. RunShape'
  BY <1>1, <1>2, <1>4, <1>5, Zenon DEF AInv, RunShape, runVars, engineVars
<1> QED
  BY <1>2, <1>3, <1>6 DEF AInv

\* A listener that returns leaves its result in the channel.
LEMMA ServeStep ==
  ASSUME AInv, NEW l \in Listeners, ServeReturns(l)
  PROVE  AInv'
<1>1. AdmissionExact' /\ Unfinished' = Unfinished
  BY EngineFrame DEF ServeReturns, engineVars
<1>2. AppTypeOK'
  BY DEF AInv, AppTypeOK, ServeReturns, engineVars
<1>3. Left' + 1 = Left
  BY DEF AInv, AppTypeOK, ServeReturns, Left, Listeners
<1>4. ResultsCounted'
  BY <1>3 DEF AInv, AppTypeOK, ResultsCounted, ServeReturns, Left
<1>5. RunShape'
  BY <1>1 DEF AInv, RunShape, ServeReturns, groupVars, engineVars
<1> QED
  BY <1>1, <1>2, <1>4, <1>5 DEF AInv

\* App.Run: two results taken mean that no listener serves, and a wait group at
\* zero that no handler holds a call.
LEMMA AppRunStep ==
  ASSUME AInv, AppRun
  PROVE  AInv'
<1> USE DEF Listeners
<1>1. UNCHANGED <<reserved, wg, invite>>
  BY Zenon DEF AppRun, Listen, ListenFails, LoopCancelled, LoopServeError,
         LoopCleanupError, CloseSockets, Drain, StopAdmission, WaitReturns,
         engineVars
<1>2. AdmissionExact' /\ Unfinished' = Unfinished
  BY <1>1, EngineFrame
<1>3. CASE Listen
  <2>0. results + received = 0
    BY <1>3 DEF AInv, RunShape, Listen
  <2>1. AppTypeOK' /\ ResultsCounted'
    BY <1>1, <1>3, <2>0 DEF AInv, AppTypeOK, ResultsCounted, Left, Listen
  <2>2. RunShape'
    BY <1>1, <1>2, <1>3 DEF AInv, RunShape, Listen, groupVars
  <2> QED
    BY <1>2, <2>1, <2>2 DEF AInv
<1>4. CASE ListenFails
  <2>1. AppTypeOK' /\ ResultsCounted'
    BY <1>1, <1>4 DEF AInv, AppTypeOK, ResultsCounted, ListenFails, Return
  <2>2. Unfinished = {}
    BY <1>4 DEF AInv, RunShape, ListenFails, Unfinished
  <2>3. RunShape'
    BY <1>1, <1>2, <1>4, <2>2, Zenon DEF AInv, RunShape, ListenFails, Return
  <2> QED
    BY <1>2, <2>1, <2>3 DEF AInv
<1>5. CASE LoopCancelled \/ LoopServeError \/ LoopCleanupError
  <2>0. /\ pc' = "close" /\ UNCHANGED <<sockets, serving>>
        /\ \/ UNCHANGED <<results, received>>
           \/ results > 0 /\ results' = results - 1 /\ received' = received + 1
    BY <1>5, Zenon DEF LoopCancelled, LoopServeError, LoopCleanupError
  <2>1. AppTypeOK'
    BY <1>1, <2>0 DEF AInv, AppTypeOK
  <2>2. ResultsCounted'
    BY <1>5 DEF AInv, AppTypeOK, ResultsCounted, Left, LoopCancelled,
                LoopServeError, LoopCleanupError
  <2>3. RunShape'
    BY <1>5 DEF AInv, RunShape, LoopCancelled, LoopServeError,
                LoopCleanupError, groupVars
  <2> QED
    BY <1>2, <2>1, <2>2, <2>3 DEF AInv
<1>6. CASE CloseSockets
  <2>1. AppTypeOK' /\ ResultsCounted'
    BY <1>1, <1>6 DEF AInv, AppTypeOK, ResultsCounted, Left, CloseSockets
  <2>2. RunShape'
    BY <1>6 DEF AInv, RunShape, CloseSockets, groupVars
  <2> QED
    BY <1>2, <2>1, <2>2 DEF AInv
<1>7. CASE Drain
  <2>1. AppTypeOK' /\ ResultsCounted'
    BY <1>1, <1>7 DEF AInv, AppTypeOK, ResultsCounted, Left, Drain
  <2>2. RunShape'
    BY <1>7 DEF AInv, RunShape, Drain, groupVars
  <2> QED
    BY <1>2, <2>1, <2>2 DEF AInv
<1>8. CASE StopAdmission
  <2>1. AppTypeOK' /\ ResultsCounted'
    BY <1>1, <1>8, Zenon DEF AInv, AppTypeOK, ResultsCounted, Left, StopAdmission
  <2>2. serving = {}
    BY <1>8 DEF AInv, AppTypeOK, ResultsCounted, Left, StopAdmission
  <2>3. RunShape'
    BY <1>8, <2>2 DEF AInv, RunShape, StopAdmission, groupVars
  <2> QED
    BY <1>2, <2>1, <2>3 DEF AInv
<1>9. CASE WaitReturns
  <2>1. AppTypeOK' /\ ResultsCounted'
    BY <1>1, <1>9 DEF AInv, AppTypeOK, ResultsCounted, WaitReturns, Return
  <2>2. Unfinished = {}
    BY <1>9, HandlersFinite, FS_EmptySet, Zenon DEF AInv, AdmissionExact, WaitReturns
  <2>3. RunShape'
    BY <1>1, <1>2, <1>9, <2>2, Zenon DEF AInv, RunShape, WaitReturns, Return, engineVars
  <2> QED
    BY <1>2, <2>1, <2>3 DEF AInv
<1> QED
  BY <1>3, <1>4, <1>5, <1>6, <1>7, <1>8, <1>9, Zenon DEF AppRun

\* The handler of an INVITE: each counter follows the set it counts.
LEMMA HandlerStep ==
  ASSUME AInv, NEW i \in Invites,
         InviteArrives(i) \/ SlotReturned(i) \/ HandlerRuns(i)
  PROVE  AInv'
<1>0. UNCHANGED <<groupVars, runVars, stopping>>
  BY DEF InviteArrives, SlotReturned, HandlerRuns, Reserve, ReserveRefuses,
         SessionStarts, HandlerDone
<1>1. pc # "listen"
  BY DEF AInv, RunShape, InviteArrives, SlotReturned, HandlerRuns, Reserve,
         ReserveRefuses, SessionStarts, HandlerDone
<1>2. invite \in [Invites -> {"none", "arrived", "admitted", "running",
                             "removed", "over"}]
  BY DEF AInv, AppTypeOK
<1> DEFINE Quiet == stopping \/ \A j \in Invites : invite[j] = "none"
<1>3. /\ reserved \in Nat /\ wg \in Nat /\ MaxActiveCalls \in Nat
      /\ reserved = Cardinality(Holding) /\ reserved <= MaxActiveCalls
      /\ wg = Cardinality(Unfinished)
  BY AppAssumption DEF AInv, AppTypeOK, AdmissionExact
<1>4. SUFFICES /\ invite' \in [Invites -> {"none", "arrived", "admitted",
                                           "running", "removed", "over"}]
               /\ reserved' \in Nat /\ wg' \in Nat
               /\ AdmissionExact'
               /\ Unfinished = {} /\ Quiet /\ pc = "returned" =>
                    Unfinished' = {} /\ (stopping \/ invite' = invite)
  <2>1. AppTypeOK'
    BY <1>0, <1>4 DEF AInv, AppTypeOK, runVars
  <2>2. pc = "returned" =>
          Unfinished' = {} /\ (stopping \/ \A j \in Invites : invite'[j] = "none")
    BY <1>4 DEF AInv, RunShape
  <2> QED
    BY <1>0, <1>1, <1>4, <2>1, <2>2, RunFrame, Zenon DEF AInv
<1>5. CASE InviteArrives(i)
  <2>1. invite' = [invite EXCEPT ![i] = "arrived"] /\ invite[i] = "none"
    BY <1>5 DEF InviteArrives, At
  <2>2. Holding' = Holding /\ Unfinished' = Unfinished
    BY <1>2, <2>1 DEF Holding, Unfinished
  <2>3. pc # "returned"
    BY <1>5 DEF InviteArrives, AInv, RunShape
  <2> QED
    BY <1>2, <1>3, <1>5, <2>1, <2>2, <2>3, Zenon DEF InviteArrives, AdmissionExact
<1>6. CASE SlotReturned(i)
  <2>1. /\ invite' = [invite EXCEPT ![i] = "removed"]
        /\ invite[i] \in {"admitted", "running"} /\ i \in Holding
    BY <1>6 DEF SlotReturned, At, Holding
  <2>2. Holding' = Holding \ {i} /\ Unfinished' = Unfinished
    BY <1>2, <2>1 DEF Holding, Unfinished
  <2>3. Cardinality(Holding') = Cardinality(Holding) - 1
    BY <2>1, <2>2, HandlersFinite, FS_RemoveElement, Zenon
  <2>4. Cardinality(Holding) >= 1
    BY <2>1, HandlersFinite, FS_EmptySet, <1>3
  <2>5. i \in Unfinished
    BY <2>1 DEF Unfinished
  <2> QED
    BY <1>2, <1>3, <1>6, <2>1, <2>2, <2>3, <2>4, <2>5
    DEF SlotReturned, AdmissionExact
<1>7. CASE Reserve(i)
  <2>1. /\ invite' = [invite EXCEPT ![i] = "admitted"] /\ invite[i] = "arrived"
        /\ i \notin Holding /\ i \notin Unfinished /\ ~stopping
    BY <1>7 DEF Reserve, At, Holding, Unfinished
  <2>2. Holding' = Holding \cup {i} /\ Unfinished' = Unfinished \cup {i}
    BY <1>2, <2>1 DEF Holding, Unfinished
  <2>3. /\ Cardinality(Holding') = Cardinality(Holding) + 1
        /\ Cardinality(Unfinished') = Cardinality(Unfinished) + 1
    BY <2>1, <2>2, HandlersFinite, FS_AddElement, Zenon
  <2>4. ~Quiet
    BY <2>1
  <2> QED
    BY <1>2, <1>3, <1>7, <2>1, <2>3, <2>4 DEF Reserve, AdmissionExact
<1>8. CASE ReserveRefuses(i)
  <2>1. invite' = [invite EXCEPT ![i] = "over"] /\ invite[i] = "arrived"
    BY <1>8 DEF ReserveRefuses, At
  <2>2. Holding' = Holding /\ Unfinished' = Unfinished
    BY <1>2, <2>1 DEF Holding, Unfinished
  <2> QED
    BY <1>2, <1>3, <1>8, <2>1, <2>2, Zenon DEF ReserveRefuses, AdmissionExact
<1>9. CASE SessionStarts(i)
  <2>1. invite' = [invite EXCEPT ![i] = "running"] /\ invite[i] = "admitted"
    BY <1>9 DEF SessionStarts, At
  <2>2. Holding' = Holding /\ Unfinished' = Unfinished /\ i \in Unfinished
    BY <1>2, <2>1 DEF Holding, Unfinished
  <2> QED
    BY <1>2, <1>3, <1>9, <2>1, <2>2, Zenon DEF SessionStarts, AdmissionExact
<1>10. CASE HandlerDone(i)
  <2>1. /\ invite' = [invite EXCEPT ![i] = "over"]
        /\ invite[i] = "removed" /\ i \in Unfinished
    BY <1>10 DEF HandlerDone, At, Unfinished
  <2>2. Holding' = Holding /\ Unfinished' = Unfinished \ {i}
    BY <1>2, <2>1 DEF Holding, Unfinished
  <2>3. Cardinality(Unfinished') = Cardinality(Unfinished) - 1
    BY <2>1, <2>2, HandlersFinite, FS_RemoveElement, Zenon
  <2>4. Cardinality(Unfinished) >= 1
    BY <2>1, HandlersFinite, FS_EmptySet, <1>3
  <2> QED
    BY <1>2, <1>3, <1>10, <2>1, <2>2, <2>3, <2>4 DEF HandlerDone, AdmissionExact
<1> QED
  BY <1>5, <1>6, <1>7, <1>8, <1>9, <1>10, Zenon DEF HandlerRuns
-----------------------------------------------------------------------------
\* The inductive invariant holds in every state.
THEOREM AppInvariant == Spec => []AInv
<1>1. AInv /\ [Next]_vars => AInv'
  <2> SUFFICES ASSUME AInv, [Next]_vars PROVE AInv'
    OBVIOUS
  <2>1. CASE UNCHANGED vars
    <3>1. AppTypeOK' /\ AdmissionExact'
      BY <2>1 DEF AInv, AppTypeOK, AdmissionExact, Holding, Unfinished, vars,
                  runVars, engineVars
    <3>2. ResultsCounted' /\ RunShape'
      BY <2>1, Zenon DEF AInv, ResultsCounted, RunShape, Left, Unfinished, vars,
                  groupVars, runVars, engineVars
    <3> QED
      BY <3>1, <3>2 DEF AInv
  <2> QED
    BY <2>1, GroupStep, ServeStep, AppRunStep, HandlerStep, Zenon DEF Next
<1> QED
  BY <1>1, AppInit, PTL DEF Spec

\* reserve, release and remove keep the engine's counters exact and within the
\* limit, and the wait group counts the handlers that are not over.
THEOREM AdmissionStaysExact == Spec => []AdmissionExact
<1>1. AInv => AdmissionExact
  BY DEF AInv
<1> QED
  BY <1>1, AppInvariant, PTL

\* After App.Run has returned no handler holds a call, nothing listens, and only
\* then is the store closed.
THEOREM RunIsBarrier == Spec => []ReturnIsBarrier
<1>1. AInv => ReturnIsBarrier
  BY DEF AInv, RunShape, ReturnIsBarrier
<1> QED
  BY <1>1, AppInvariant, PTL
=============================================================================
