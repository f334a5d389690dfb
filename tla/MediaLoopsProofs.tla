-------------------------- MODULE MediaLoopsProofs --------------------------
(***************************************************************************)
(* What holds of MediaLoops in every interleaving: stopMedia is a barrier. *)
(***************************************************************************)
EXTENDS MediaLoops, TLAPS

\* Where Run, Close and stopMedia are says where the loops and the leases are:
\* the body of closeOnce is left with both leases closed, stopMedia goes on
\* only when it was left, and the loops exist only while Run waits for them.
LoopsInv ==
  /\ run \in {"idle", "running", "close", "returned"}
  /\ DOMAIN at = Loops
  /\ closer = "done" => \A l \in Legs : lease[l] = "closed"
  /\ stop \in {"wait", "publish", "done"} => closer = "done"
  /\ run = "idle" => \A x \in Loops : at[x] = "none"
  /\ run \in {"close", "returned"} => \A x \in Loops : at[x] = "ended"
  /\ stop \in {"publish", "done"} => run \in {"idle", "returned"}

\* A step of one of the five loops: it is running, and only it moves.
LoopMoves(x) ==
  /\ at[x] \notin {"none", "ended"} /\ DOMAIN at' = DOMAIN at
  /\ UNCHANGED Rest

\* The loops move only while Run waits for them, so a step of one disturbs nothing.
LEMMA LoopStep ==
  ASSUME LoopsInv, NEW x \in Loops, LoopMoves(x)
  PROVE  LoopsInv'
<1>1. run = "running"
  BY Zenon DEF LoopsInv, LoopMoves
<1> QED
  BY <1>1, Zenon DEF LoopsInv, LoopMoves, Rest

\* The steps of the readers and of the report loop are such steps.
LEMMA LoopSteps ==
  ASSUME \/ \E x \in Readers :
              \/ LoopStarts(x) \/ DestinationAsked(x) \/ Arrives(x)
              \/ PacketHandled(x) \/ ReadDeadline(x) \/ ReadFails(x) \/ ReadClosed(x)
         \/ ReportTick \/ SummaryTick \/ ReportDone
         \/ \E l \in Legs : writeRTCP(l) \/ ReportSent(l)
         \/ publishSummary
  PROVE  \E x \in Loops : LoopMoves(x)
<1> USE DEF LoopMoves
<1>0. ASSUME NEW x, NEW e, Ends(x) \/ Fails(x, e) \/ \E w : Goto(x, w)
      PROVE  DOMAIN at' = DOMAIN at
  BY <1>0, Zenon DEF Goto, Ends, Fails
<1>1. ASSUME NEW x \in Readers,
             \/ LoopStarts(x) \/ DestinationAsked(x) \/ Arrives(x)
             \/ PacketHandled(x) \/ ReadDeadline(x) \/ ReadFails(x) \/ ReadClosed(x)
      PROVE  LoopMoves(x)
  <2>1. /\ at[x] \in {"start", "start2", "read", "packet"} /\ UNCHANGED Rest
        /\ \E e : Ends(x) \/ Fails(x, e) \/ \E w : Goto(x, w)
    BY <1>1, Zenon DEF LoopStarts, DestinationAsked, Arrives, PacketHandled,
       ReadDeadline, ReadFails, ReadClosed
  <2> QED
    BY <1>0, <2>1, Zenon
<1>2. ASSUME \/ ReportTick \/ SummaryTick \/ ReportDone \/ publishSummary
             \/ \E l \in Legs : writeRTCP(l) \/ ReportSent(l)
      PROVE  LoopMoves(Report)
  <2>1. /\ at[Report] \in {"select", "caller", "callee", "callerSend", "calleeSend",
                           "publish"}
        /\ UNCHANGED Rest
        /\ \E e : Ends(Report) \/ Fails(Report, e) \/ \E w : Goto(Report, w)
    BY <1>2, Zenon DEF ReportTick, SummaryTick, ReportDone, publishSummary, writeRTCP,
       ReportSent, Legs
  <2> QED
    BY <1>0, <2>1, Zenon
<1>3. Report \in Loops /\ Readers \subseteq Loops
  BY Zenon DEF Loops
<1> QED
  BY <1>1, <1>2, <1>3, Zenon

\* Every step keeps the invariant.
LEMMA LoopsStep == LoopsInv /\ [Next]_vars => LoopsInv'
<1> SUFFICES ASSUME LoopsInv, [Next]_vars PROVE LoopsInv'
  OBVIOUS
<1> USE DEF LoopsInv
<1>1. CASE startMedia
  <2>1. /\ run = "idle" /\ stop = "no" /\ run' = "running" /\ DOMAIN at' = Loops
        /\ UNCHANGED <<lease, closer, stop>>
    BY <1>1, Zenon DEF startMedia
  <2> QED
    BY <2>1, Zenon
<1>2. CASE WaitReturns
  BY <1>2, Zenon DEF WaitReturns, Ended, group
<1>3. CASE CloseCalled \/ CloseEnds
  BY <1>3, Zenon DEF CloseCalled, CloseEnds, group
<1>4. CASE Release
  BY <1>4, Zenon DEF Release, group
<1>5. CASE RunReturns
  BY <1>5, Zenon DEF RunReturns, group
<1>6. CASE ParentDone \/ UNCHANGED vars
  BY <1>6, Zenon DEF ParentDone, group, vars
<1>7. CASE StopCalled \/ StopClosed \/ StopJoined \/ StopPublished
  BY <1>7, Zenon DEF StopCalled, StopClosed, StopJoined, StopPublished, group
<1>8. ASSUME \E x \in Loops : LoopMoves(x) PROVE LoopsInv'
  BY <1>8, LoopStep, Zenon
<1> QED
  BY <1>1, <1>2, <1>3, <1>4, <1>5, <1>6, <1>7, <1>8, LoopSteps, Zenon DEF Next

\* The goroutines of the media session keep the invariant.
THEOREM LoopsInvariant == Spec => []LoopsInv
<1>1. Init => LoopsInv
  BY Zenon DEF Init, LoopsInv
<1> QED
  BY <1>1, LoopsStep, PTL DEF Spec

\* When stopMedia returns, no goroutine of Session.Run is left, also if Run was
\* about to start or had already failed, and both leases are closed, whether
\* Run or stopMedia ran the body of closeOnce.
THEOREM StopMediaIsBarrier == Spec => []StopIsBarrier
<1>1. LoopsInv => StopIsBarrier
  BY Zenon DEF LoopsInv, StopIsBarrier
<1> QED
  BY <1>1, LoopsInvariant, PTL

=============================================================================
