----------------------------- MODULE MediaLoops -----------------------------
(***************************************************************************)
(* The goroutines of one media session: Session.Run with its errgroup of   *)
(* two forwardRTP, two readRTCP and one reportLoop, Session.Close, and     *)
(* startMedia and stopMedia of the B2BUA.                                  *)
(*                                                                         *)
(* What a packet contains does not matter here: a loop reads it and goes   *)
(* on.  A loop asks for its context only when a read or a write fails, so  *)
(* that a loop whose peer keeps sending does not see the cancellation.     *)
(***************************************************************************)
Legs == {"caller", "callee"}
Other(l) == IF l = "caller" THEN "callee" ELSE "caller"
Readers == {"rtp", "rtcp"} \X Legs
Report == <<"report", "">>
Loops == Readers \cup {Report}

VARIABLES
  run,       \* Session.Run
  err,       \* the first error of the group
  result,    \* what Run returned
  ctxDone,   \* mediaCtx is done
  at,        \* where each loop is
  lease,     \* per leg: Lease.released, then its RTP and its RTCP socket
  closer,    \* who runs the body of closeOnce
  stop       \* stopMedia

group == <<err, at>>
vars == <<run, group, result, ctxDone, lease, closer, stop>>

Init ==
  /\ run = "idle" /\ err = "none" /\ result = "none"
  /\ ctxDone = FALSE
  /\ at = [x \in Loops |-> "none"]
  /\ lease = [l \in Legs |-> "open"]
  /\ closer = "none" /\ stop = "no"

-----------------------------------------------------------------------------
(* The errgroup.                                                           *)

groupDone == ctxDone \/ err # "none"

Goto(x, where) == at' = [at EXCEPT ![x] = where] /\ UNCHANGED err

\* The loop returns nil, or an error: the first one is kept and cancels.
Ends(x) == Goto(x, "ended")

Fails(x, e) ==
  /\ at' = [at EXCEPT ![x] = "ended"]
  /\ err' = IF err = "none" THEN e ELSE err

Ended == \A x \in Loops : at[x] = "ended"

\* A socket is closed after its lease is marked released, RTP before RTCP.
SocketClosed(x) ==
  lease[x[2]] \in IF x[1] = "rtp" THEN {"rtpClosed", "closed"} ELSE {"closed"}

Rest == <<run, result, ctxDone, lease, closer, stop>>

\* startMedia: Run starts once, after Configure and before stopMedia.
startMedia ==
  /\ run = "idle" /\ stop = "no"
  /\ run' = "running"
  /\ at' = [x \in Loops |-> IF x = Report THEN "select" ELSE "start"]
  /\ UNCHANGED <<err, result, ctxDone, lease, closer, stop>>

\* RTPConn or RTCPConn of the source; forwardRTP asks the destination too.
LoopStarts(x) ==
  /\ at[x] = "start"
  /\ IF lease[x[2]] # "open" THEN Fails(x, "released")
     ELSE Goto(x, IF x[1] = "rtp" THEN "start2" ELSE "read")
  /\ UNCHANGED Rest

DestinationAsked(x) ==
  /\ at[x] = "start2"
  /\ IF lease[Other(x[2])] # "open" THEN Fails(x, "released") ELSE Goto(x, "read")
  /\ UNCHANGED Rest

\* A packet is read.
Arrives(x) ==
  /\ at[x] = "read" /\ ~SocketClosed(x)
  /\ Goto(x, "packet")
  /\ UNCHANGED Rest

\* The packet is dropped, counted or forwarded; a write may fail.
PacketHandled(x) ==
  /\ at[x] = "packet"
  /\ \/ Goto(x, "read")
     \/ /\ x[1] = "rtp"
        /\ IF groupDone \/ SocketClosed(<<"rtp", Other(x[2])>>)
             THEN Ends(x) ELSE Fails(x, "io")
  /\ UNCHANGED Rest

\* Mutant: the loop asks for its context only when the socket is closed.
ReadDeadlineUnasked(x) ==
  /\ at[x] = "read" /\ ~SocketClosed(x)
  /\ UNCHANGED <<group, Rest>>

\* The read deadline passes: the only moment an open socket lets the loop see
\* that its context is done (otherwise it updates timedOut and reads again).
ReadDeadline(x) ==
  /\ at[x] = "read" /\ ~SocketClosed(x)
  /\ groupDone
  /\ Ends(x)
  /\ UNCHANGED Rest

ReadFails(x) ==
  /\ at[x] = "read" /\ ~SocketClosed(x)
  /\ IF groupDone THEN Ends(x) ELSE Fails(x, "io")
  /\ UNCHANGED Rest

\* The socket is closed: setting the deadline fails, or the read does.
ReadClosed(x) ==
  /\ at[x] = "read" /\ SocketClosed(x)
  /\ Ends(x) \/ Fails(x, "closed")
  /\ UNCHANGED Rest

-----------------------------------------------------------------------------
(* reportLoop.                                                             *)

ReportTick ==
  /\ at[Report] = "select"
  /\ Goto(Report, "caller")
  /\ UNCHANGED Rest

SummaryTick ==
  /\ at[Report] = "select"
  /\ Goto(Report, "publish")
  /\ UNCHANGED Rest

ReportDone ==
  /\ at[Report] = "select" /\ groupDone
  /\ Ends(Report)
  /\ UNCHANGED Rest

\* writeRTCP asks for the socket of the leg ...
writeRTCP(l) ==
  /\ at[Report] = l
  /\ IF lease[l] # "open" THEN Fails(Report, "released")
     ELSE Goto(Report, IF l = "caller" THEN "callerSend" ELSE "calleeSend")
  /\ UNCHANGED Rest

\* ... and writes: a closed socket is not an error.
ReportSent(l) ==
  /\ at[Report] = (IF l = "caller" THEN "callerSend" ELSE "calleeSend")
  /\ \/ Goto(Report, IF l = "caller" THEN "callee" ELSE "select")
     \/ ~SocketClosed(<<"rtcp", l>>) /\ Fails(Report, "io")
  /\ UNCHANGED Rest

\* PublishMediaSummary ends: the bus takes the summary, or SummaryTimeout or
\* the context ends the wait for room and the sample is dropped.
publishSummary ==
  /\ at[Report] = "publish"
  /\ Goto(Report, "select")
  /\ UNCHANGED Rest

-----------------------------------------------------------------------------
(* Close, the end of Run, and stopMedia.                                   *)

\* group.Wait returns.
WaitReturns ==
  /\ run = "running" /\ Ended
  /\ run' = "close"
  /\ UNCHANGED <<group, result, ctxDone, lease, closer, stop>>

\* Mutant: stopMedia leaves the closing of running media to Run.
CloseCalledByRun ==
  /\ closer = "none"
  /\ \/ run = "close" /\ closer' = "run"
     \/ stop = "close" /\ run = "idle" /\ closer' = "stop"
  /\ UNCHANGED <<run, group, result, ctxDone, lease, stop>>

\* The first caller of Close runs the body; the other one waits for it.
CloseCalled ==
  /\ closer = "none"
  /\ \/ run = "close" /\ closer' = "run"
     \/ stop = "close" /\ closer' = "stop"
  /\ UNCHANGED <<run, group, result, ctxDone, lease, stop>>

\* Release of the caller's lease, then of the callee's, step by step.
Release ==
  /\ closer \in {"run", "stop"}
  /\ LET l == IF lease["caller"] = "closed" THEN "callee" ELSE "caller"
     IN  /\ lease[l] # "closed"
         /\ lease' = [lease EXCEPT ![l] = CASE @ = "open" -> "released"
                                          [] @ = "released" -> "rtpClosed"
                                          [] OTHER -> "closed"]
  /\ UNCHANGED <<run, group, result, ctxDone, closer, stop>>

CloseEnds ==
  /\ closer \in {"run", "stop"} /\ \A l \in Legs : lease[l] = "closed"
  /\ closer' = "done"
  /\ UNCHANGED <<run, group, result, ctxDone, lease, stop>>

\* Run returns: a cancellation and a closed socket are not reported.
RunReturns ==
  /\ run = "close" /\ closer = "done"
  /\ run' = "returned"
  /\ result' = IF err \in {"none", "closed"} THEN "nil" ELSE "error"
  /\ UNCHANGED <<group, ctxDone, lease, closer, stop>>

\* The context of the call is done before anybody stops the media.
ParentDone ==
  /\ ~ctxDone
  /\ ctxDone' = TRUE
  /\ UNCHANGED <<run, group, result, lease, closer, stop>>

\* stopMedia cancels, closes, waits for the result and publishes once more.
StopCalled ==
  /\ stop = "no"
  /\ ctxDone' = TRUE
  /\ stop' = "close"
  /\ UNCHANGED <<run, group, result, lease, closer>>

StopClosed ==
  /\ stop = "close" /\ closer = "done"
  /\ stop' = "wait"
  /\ UNCHANGED <<run, group, result, ctxDone, lease, closer>>

\* Mutant: the result is not waited for.
StopUnjoined ==
  /\ stop = "wait"
  /\ stop' = "publish"
  /\ UNCHANGED <<run, group, result, ctxDone, lease, closer>>

StopJoined ==
  /\ stop = "wait" /\ run \in {"idle", "returned"}
  /\ stop' = "publish"
  /\ UNCHANGED <<run, group, result, ctxDone, lease, closer>>

StopPublished ==
  /\ stop = "publish"
  /\ stop' = "done"
  /\ UNCHANGED <<run, group, result, ctxDone, lease, closer>>

-----------------------------------------------------------------------------
Next ==
  \/ startMedia
  \/ \E x \in Readers :
       \/ LoopStarts(x) \/ DestinationAsked(x) \/ Arrives(x) \/ PacketHandled(x)
       \/ ReadDeadline(x) \/ ReadFails(x) \/ ReadClosed(x)
  \/ ReportTick \/ SummaryTick \/ ReportDone
  \/ \E l \in Legs : writeRTCP(l) \/ ReportSent(l)
  \/ publishSummary
  \/ WaitReturns \/ CloseCalled \/ Release \/ CloseEnds \/ RunReturns
  \/ ParentDone \/ StopCalled \/ StopClosed \/ StopJoined \/ StopPublished

Spec == Init /\ [][Next]_vars

Fairness ==
  /\ \A x \in Readers : WF_vars(\/ LoopStarts(x) \/ DestinationAsked(x)
                                \/ PacketHandled(x) \/ ReadDeadline(x)
                                \/ ReadClosed(x))
  /\ \A l \in Legs : WF_vars(writeRTCP(l) \/ ReportSent(l))
  /\ WF_vars(publishSummary) /\ SF_vars(ReportDone)
  /\ WF_vars(WaitReturns \/ RunReturns) /\ WF_vars(CloseCalled \/ Release \/ CloseEnds)
  /\ WF_vars(StopClosed \/ StopJoined \/ StopPublished)

FairSpec == Spec /\ Fairness

-----------------------------------------------------------------------------
(* Properties.                                                             *)

\* When stopMedia has returned, no goroutine of the media session is left and
\* both leases are released, whoever closed them.
StopIsBarrier ==
  stop = "done" => /\ \A x \in Loops : at[x] \in {"none", "ended"}
                   /\ \A l \in Legs : lease[l] = "closed"

\* stopMedia returns, although the peers keep sending: closing the sockets ends
\* the packet loops, and the context or the released lease the report loop.
StopReturns == (stop = "close") ~> (stop = "done")

\* After the first error of a loop, or a cancellation, Run returns without
\* anybody calling Close, unless a peer never pauses for a read deadline.
FailureEndsRun ==
  \/ \E x \in Readers : []<><<Arrives(x)>>_vars
  \/ (run = "running" /\ groupDone) ~> (run = "returned")
=============================================================================
