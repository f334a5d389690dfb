----------------------- MODULE MediaEndpointsProofs -------------------------
(***************************************************************************)
(* What holds of MediaEndpoints for any descriptions, any number of        *)
(* answers and any number of packets.                                      *)
(***************************************************************************)
EXTENDS MediaEndpoints, WellFoundedInduction, TLAPS

\* The shape of the state: the fields of the loops and of the configuration task.
LoopOK(r) ==
  r = [at |-> r.at, packet |-> r.packet, seen |-> r.seen, out |-> r.out,
       target |-> r.target, clean |-> r.clean]

TaskOK ==
  \/ task = NoTask
  \/ /\ task = [at |-> task.at, leg |-> task.leg, mapping |-> task.mapping,
                caller |-> task.caller, callee |-> task.callee]
     /\ task.at \in {"load", "reset", "store", "answer"} /\ task.leg \in Legs

ShapeOK ==
  /\ loop = [l \in Legs |-> loop[l]] /\ \A l \in Legs : LoopOK(loop[l])
  /\ remote = [l \in Legs |-> remote[l]] /\ learned = [l \in Legs |-> learned[l]]
  /\ pinner = [l \in Legs |-> pinner[l]] /\ crossed = [l \in Legs |-> crossed[l]]
  /\ TaskOK

\* A packet that has met no Configure: none is active, and what the loop has
\* asked of the two remotes so far is still what they say.
CleanOK(l) ==
  loop[l].clean /\ loop[l].at # "read" =>
    /\ task.at = "idle"
    /\ loop[l].at \in {"canReceive", "target", "port", "write"} => canSend(remote[l])
    /\ loop[l].at \in {"target", "port", "write"} => canReceive(remote[Other(l)])
    /\ loop[l].at \in {"port", "write"} =>
         loop[l].target[1] = remote[Other(l)].rtp[1]

\* A packet that may set the port came from the host it was compared with.
SourceOK(l) ==
  loop[l].at \in {"learned", "swap"} =>
    loop[l].packet.from[1] = loop[l].seen.rtp[1]

\* A port that no Configure crossed belongs to the host in remote, and to the one
\* about to be stored when it has survived the comparison.
PinOK(l) ==
  learned[l] # 0 /\ ~crossed[l] =>
    /\ pinner[l][1] = remote[l].rtp[1]
    /\ task.at = "store" /\ task.leg = l => remote[l].rtp = task[l].rtp

MInv == ShapeOK /\ \A l \in Legs : CleanOK(l) /\ SourceOK(l) /\ PinOK(l)

-----------------------------------------------------------------------------
\* Before the first answer nothing is configured and nothing runs.
LEMMA MediaInit == Init => MInv
<1> SUFFICES ASSUME Init PROVE MInv
  OBVIOUS
<1>1. \A l \in Legs : loop[l] = Idle /\ remote[l] = Unset /\ learned[l] = 0
  BY DEF Init
<1>2. ShapeOK
  BY <1>1, Zenon DEF Init, ShapeOK, LoopOK, TaskOK, Idle
<1>3. \A l \in Legs : CleanOK(l) /\ SourceOK(l) /\ PinOK(l)
  BY <1>1 DEF CleanOK, SourceOK, PinOK, Idle
<1> QED
  BY <1>2, <1>3, Zenon DEF MInv

\* applyMediaAnswer begins: from here on every packet under way has met it.
LEMMA AnswerStep ==
  ASSUME MInv, task.at = "idle", NEW o, NEW b, applyMediaAnswer(o, b),
         UNCHANGED <<endpoints, history>>
  PROVE  MInv'
<1>1. CASE UNCHANGED <<task, loop>>
  BY <1>1, Zenon DEF MInv, ShapeOK, TaskOK, CleanOK, SourceOK, PinOK, endpoints, history
<1>2. CASE ~UNCHANGED <<task, loop>>
  <2>1. PICK m, c, d :
          task' = [at |-> "load", leg |-> "caller", mapping |-> m, caller |-> c,
                   callee |-> d]
    BY <1>2 DEF applyMediaAnswer
  <2>2. loop' = [l \in Legs |-> [loop[l] EXCEPT !.clean = FALSE]]
    BY <1>2 DEF applyMediaAnswer
  <2>3. ASSUME NEW l \in Legs
        PROVE  /\ LoopOK(loop'[l]) /\ loop'[l].clean = FALSE
               /\ loop'[l].at = loop[l].at /\ loop'[l].packet = loop[l].packet
               /\ loop'[l].seen = loop[l].seen
    <3>1. LoopOK(loop[l]) /\ loop'[l] = [loop[l] EXCEPT !.clean = FALSE]
      BY <2>2, <2>3 DEF MInv, ShapeOK
    <3>2. loop'[l] = [at |-> loop[l].at, packet |-> loop[l].packet,
                      seen |-> loop[l].seen, out |-> loop[l].out,
                      target |-> loop[l].target, clean |-> FALSE]
      BY <3>1, Zenon DEF LoopOK
    <3> QED
      BY <3>2 DEF LoopOK
  <2>4. ShapeOK'
    <3>1. TaskOK'
      BY <2>1 DEF TaskOK, Legs
    <3> QED
      BY <2>2, <2>3, <3>1, Zenon DEF MInv, ShapeOK, endpoints, history
  <2>5. \A l \in Legs : CleanOK(l)' /\ SourceOK(l)'
    BY <2>3, Zenon DEF MInv, CleanOK, SourceOK
  <2>6. \A l \in Legs : PinOK(l)'
    BY <2>1 DEF MInv, PinOK, endpoints, history
  <2> QED
    BY <2>4, <2>5, <2>6 DEF MInv
<1> QED
  BY <1>1, <1>2

\* configure compares the addresses: what is not reset is not about to change.
LEMMA LoadStep == MInv /\ ConfigureLoad => MInv'
<1> SUFFICES ASSUME MInv, ConfigureLoad PROVE MInv'
  OBVIOUS
<1>1. /\ task # NoTask /\ task.leg \in Legs
      /\ task = [at |-> task.at, leg |-> task.leg, mapping |-> task.mapping,
                 caller |-> task.caller, callee |-> task.callee]
  BY DEF MInv, ShapeOK, TaskOK, ConfigureLoad, NoTask
<1>2. PICK w \in {"reset", "store"} :
        /\ task' = [task EXCEPT !.at = w]
        /\ w = "store" => remote[task.leg].rtp = task[task.leg].rtp
  BY DEF ConfigureLoad, Step, Moved
<1>3. task' = [at |-> w, leg |-> task.leg, mapping |-> task.mapping,
               caller |-> task.caller, callee |-> task.callee]
  BY <1>1, <1>2
<1>4. UNCHANGED <<remote, learned, loop, pinner, crossed>> /\ task.at = "load"
  BY DEF ConfigureLoad, endpoints, history
<1>5. ShapeOK'
  BY <1>1, <1>3, <1>4 DEF MInv, ShapeOK, TaskOK
<1>6. \A l \in Legs : CleanOK(l)' /\ SourceOK(l)'
  BY <1>4, Zenon DEF MInv, CleanOK, SourceOK
<1>7. \A l \in Legs : PinOK(l)'
  <2>1. \A l \in Legs : task'[l] = task[l]
    BY <1>1, <1>3 DEF Legs
  <2> QED
    BY <1>2, <1>3, <1>4, <2>1 DEF MInv, PinOK
<1> QED
  BY <1>5, <1>6, <1>7 DEF MInv

\* configure resets the learned port.
LEMMA ResetStep == MInv /\ ConfigureReset => MInv'
<1> SUFFICES ASSUME MInv, ConfigureReset PROVE MInv'
  OBVIOUS
<1>1. /\ task # NoTask /\ task.leg \in Legs
      /\ task = [at |-> task.at, leg |-> task.leg, mapping |-> task.mapping,
                 caller |-> task.caller, callee |-> task.callee]
  BY DEF MInv, ShapeOK, TaskOK, ConfigureReset, NoTask
<1>2. task' = [at |-> "store", leg |-> task.leg, mapping |-> task.mapping,
               caller |-> task.caller, callee |-> task.callee]
  BY <1>1 DEF ConfigureReset, Step
<1>3. UNCHANGED <<remote, loop>> /\ task.at = "reset"
  BY DEF ConfigureReset
<1>4. ShapeOK'
  <2>1. TaskOK'
    BY <1>1, <1>2 DEF TaskOK
  <2> QED
    BY <1>3, <2>1, Zenon DEF MInv, ShapeOK, ConfigureReset
<1>5. \A l \in Legs : CleanOK(l)' /\ SourceOK(l)'
  BY <1>3, Zenon DEF MInv, CleanOK, SourceOK
<1>6. \A l \in Legs : PinOK(l)'
  BY <1>1, <1>2, <1>3, Zenon DEF MInv, ShapeOK, PinOK, ConfigureReset
<1> QED
  BY <1>4, <1>5, <1>6 DEF MInv

\* configure stores the new remote: a port that survives is one of its host.
LEMMA StoreStep == MInv /\ ConfigureStore => MInv'
<1> SUFFICES ASSUME MInv, ConfigureStore PROVE MInv'
  OBVIOUS
<1>1. /\ task # NoTask /\ task.leg \in Legs
      /\ task = [at |-> task.at, leg |-> task.leg, mapping |-> task.mapping,
                 caller |-> task.caller, callee |-> task.callee]
  BY DEF MInv, ShapeOK, TaskOK, ConfigureStore, NoTask
<1>2. PICK w \in {"load", "answer"}, k \in Legs :
        task' = [at |-> w, leg |-> k, mapping |-> task.mapping,
                 caller |-> task.caller, callee |-> task.callee]
  <2>1. CASE task.leg = "caller"
    <3>1. task' = [at |-> "load", leg |-> "callee", mapping |-> task.mapping,
                   caller |-> task.caller, callee |-> task.callee]
      BY <1>1, <2>1, Zenon DEF ConfigureStore
    <3> QED
      BY <3>1 DEF Legs
  <2>2. CASE task.leg # "caller"
    <3>1. task' = [at |-> "answer", leg |-> task.leg, mapping |-> task.mapping,
                   caller |-> task.caller, callee |-> task.callee]
      BY <1>1, <2>2 DEF ConfigureStore
    <3> QED
      BY <1>1, <3>1
  <2> QED
    BY <2>1, <2>2
<1>3. UNCHANGED <<learned, loop, pinner, crossed>> /\ task.at = "store"
  BY DEF ConfigureStore, history
<1>4. /\ remote' = [l \in Legs |-> remote'[l]]
      /\ remote'[task.leg] = task[task.leg]
      /\ \A l \in Legs : l # task.leg => remote'[l] = remote[l]
  BY <1>1, Zenon DEF MInv, ShapeOK, ConfigureStore
<1>5. ShapeOK'
  <2>1. TaskOK'
    BY <1>2 DEF TaskOK
  <2> QED
    BY <1>3, <1>4, <2>1 DEF MInv, ShapeOK
<1>6. \A l \in Legs : CleanOK(l)' /\ SourceOK(l)'
  BY <1>3, Zenon DEF MInv, CleanOK, SourceOK
<1>7. \A l \in Legs : PinOK(l)'
  BY <1>1, <1>2, <1>3, <1>4 DEF MInv, PinOK
<1> QED
  BY <1>5, <1>6, <1>7 DEF MInv

\* The answer for the caller ends the configuration.
LEMMA BuiltStep == MInv /\ AnswerBuilt => MInv'
<1> SUFFICES ASSUME MInv, AnswerBuilt PROVE MInv'
  OBVIOUS
<1>1. /\ UNCHANGED <<remote, learned, loop, pinner, crossed>>
      /\ task' = NoTask /\ task'.at = "idle" /\ task.at = "answer"
  BY DEF AnswerBuilt, endpoints, history, NoTask
<1>2. ShapeOK'
  BY <1>1 DEF MInv, ShapeOK, TaskOK
<1>3. \A l \in Legs : CleanOK(l)' /\ SourceOK(l)' /\ PinOK(l)'
  BY <1>1, Zenon DEF MInv, CleanOK, SourceOK, PinOK
<1> QED
  BY <1>2, <1>3 DEF MInv

-----------------------------------------------------------------------------
\* A step of one loop that changes nothing else keeps what holds of the rest.
LEMMA LoopStep ==
  ASSUME MInv, UNCHANGED <<task, remote, learned, pinner, crossed>>,
         NEW l \in Legs, NEW r, loop' = [loop EXCEPT ![l] = r],
         LoopOK(r), CleanOK(l)', SourceOK(l)'
  PROVE  MInv'
<1>1. /\ loop' = [k \in Legs |-> loop'[k]] /\ loop'[l] = r
      /\ \A k \in Legs : k # l => loop'[k] = loop[k]
  BY DEF MInv, ShapeOK
<1>2. ShapeOK'
  BY <1>1, Zenon DEF MInv, ShapeOK, TaskOK
<1>3. \A k \in Legs : k # l => CleanOK(k)' /\ SourceOK(k)'
  BY <1>1, Zenon DEF MInv, CleanOK, SourceOK
<1>4. \A k \in Legs : PinOK(k)'
  BY Zenon DEF MInv, PinOK
<1> QED
  BY <1>2, <1>3, <1>4 DEF MInv

\* A packet is dropped: the loop is back at its read.
LEMMA DropStep ==
  ASSUME MInv, UNCHANGED <<task, remote, learned, pinner, crossed>>,
         NEW l \in Legs, Drop(l)
  PROVE  MInv'
<1>1. loop' = [loop EXCEPT ![l] = Idle] /\ loop'[l] = Idle
  BY DEF Drop, MInv, ShapeOK
<1>2. LoopOK(Idle) /\ CleanOK(l)' /\ SourceOK(l)'
  BY <1>1 DEF LoopOK, Idle, CleanOK, SourceOK
<1> QED
  BY <1>1, <1>2, LoopStep, Zenon

\* The loop goes on with the same packet, to a place where nothing new is due.
LEMMA GotoStep ==
  ASSUME MInv, UNCHANGED <<task, remote, learned, pinner, crossed>>,
         NEW l \in Legs, NEW w, Goto(l, w), loop[l].at # "read",
         w = "swap" => loop[l].at = "learned", w # "learned",
         w = "canReceive" => canSend(remote[l]),
         w = "target" => loop[l].at = "canReceive" /\ canReceive(remote[Other(l)]),
         w \notin {"port", "write"}
  PROVE  MInv'
<1> DEFINE r == [at |-> w, packet |-> loop[l].packet, seen |-> loop[l].seen,
                 out |-> loop[l].out, target |-> loop[l].target,
                 clean |-> loop[l].clean]
<1>1. loop' = [loop EXCEPT ![l] = r] /\ loop'[l] = r
  <2>1. LoopOK(loop[l]) /\ loop' = [loop EXCEPT ![l] = [loop[l] EXCEPT !.at = w]]
    BY DEF Goto, MInv, ShapeOK
  <2>2. [loop[l] EXCEPT !.at = w] = r
    BY <2>1 DEF LoopOK
  <2> QED
    BY <2>1, <2>2, Zenon DEF MInv, ShapeOK
<1>2. LoopOK(r)
  BY Zenon DEF LoopOK
<1>3. CleanOK(l)'
  BY <1>1 DEF MInv, CleanOK
<1>4. SourceOK(l)'
  BY <1>1 DEF MInv, SourceOK
<1> QED
  BY <1>1, <1>2, <1>3, <1>4, LoopStep, Zenon

\* What a step of the loop assigns, one field after the other.
WithSeen(r, w, v) == [[r EXCEPT !.at = w] EXCEPT !.seen = v]
WithOut(r, w, v) == [[r EXCEPT !.at = w] EXCEPT !.out = v]
WithTarget(r, w, v) == [[r EXCEPT !.at = w] EXCEPT !.target = v]
WithPacket(r, w, c, p) == [[[r EXCEPT !.at = w] EXCEPT !.clean = c] EXCEPT !.packet = p]

\* The record q continues the packet of r at the place w.
Continues(q, r, w) ==
  LoopOK(q) /\ q.at = w /\ q.packet = r.packet /\ q.clean = r.clean

\* The fields of the loop's record after two assignments.
LEMMA RecordStep ==
  ASSUME NEW r, LoopOK(r), NEW w, NEW v
  PROVE  /\ Continues(WithSeen(r, w, v), r, w) /\ WithSeen(r, w, v).seen = v
         /\ Continues(WithOut(r, w, v), r, w) /\ WithOut(r, w, v).out = v
         /\ Continues(WithTarget(r, w, v), r, w) /\ WithTarget(r, w, v).target = v
         /\ WithTarget(r, w, v).out = r.out
<1> DEFINE R(s, o, g) == [at |-> w, packet |-> r.packet, seen |-> s, out |-> o,
                          target |-> g, clean |-> r.clean]
           q == R(r.seen, r.out, r.target)
<1>1. [r EXCEPT !.at = w] = q
  BY DEF LoopOK
<1>2. /\ [q EXCEPT !.seen = v] = R(v, r.out, r.target)
      /\ [q EXCEPT !.out = v] = R(r.seen, v, r.target)
      /\ [q EXCEPT !.target = v] = R(r.seen, r.out, v)
  OBVIOUS
<1>3. /\ WithSeen(r, w, v) = R(v, r.out, r.target)
      /\ WithOut(r, w, v) = R(r.seen, v, r.target)
      /\ WithTarget(r, w, v) = R(r.seen, r.out, v)
  BY <1>1, <1>2, Zenon DEF WithSeen, WithOut, WithTarget
<1>4. \A s, o, g : LoopOK(R(s, o, g))
  BY DEF LoopOK
<1>5. \A s, o, g : /\ R(s, o, g).at = w /\ R(s, o, g).packet = r.packet
                   /\ R(s, o, g).clean = r.clean /\ R(s, o, g).seen = s
                   /\ R(s, o, g).target = g /\ R(s, o, g).out = o
  OBVIOUS
<1> HIDE DEF R
<1> QED
  BY <1>3, <1>4, <1>5 DEF Continues

\* The fields of the loop's record after a read.
LEMMA FreshRecord ==
  ASSUME NEW r, LoopOK(r), NEW w, NEW c, NEW p
  PROVE  /\ LoopOK(WithPacket(r, w, c, p)) /\ WithPacket(r, w, c, p).at = w
         /\ WithPacket(r, w, c, p).clean = c /\ WithPacket(r, w, c, p).packet = p
<1> DEFINE R(x, y, z) == [at |-> x, packet |-> y, seen |-> r.seen, out |-> r.out,
                          target |-> r.target, clean |-> z]
<1>1. [r EXCEPT !.at = w] = R(w, r.packet, r.clean)
  BY DEF LoopOK
<1>2. [R(w, r.packet, r.clean) EXCEPT !.clean = c] = R(w, r.packet, c)
  OBVIOUS
<1>3. [R(w, r.packet, c) EXCEPT !.packet = p] = R(w, p, c)
  OBVIOUS
<1>4. WithPacket(r, w, c, p) = R(w, p, c)
  BY <1>1, <1>2, <1>3, Zenon DEF WithPacket
<1> QED
  BY <1>4 DEF LoopOK

\* A read begins a packet; it is clean when no configuration is active.
LEMMA ReadStep ==
  ASSUME MInv, NEW l \in Legs, Read(l)
  PROVE  MInv'
<1>1. UNCHANGED <<task, remote, learned, pinner, crossed>>
  BY DEF Read, signal, endpoints, history
<1>2. PICK p :
        loop' = [loop EXCEPT ![l] = [Idle EXCEPT !.at = "source",
                                       !.clean = task.at = "idle", !.packet = p]]
  BY Zenon DEF Read
<1> DEFINE c == task.at = "idle"
           r == WithPacket(Idle, "source", c, p)
<1> HIDE DEF c
<1>3. loop' = [loop EXCEPT ![l] = r] /\ loop'[l] = r
  <2>1. loop' = [loop EXCEPT ![l] = [Idle EXCEPT !.at = "source", !.clean = c,
                                                 !.packet = p]]
    BY <1>2 DEF c
  <2> QED
    BY <2>1 DEF MInv, ShapeOK, WithPacket
<1>4. LoopOK(r) /\ r.at = "source" /\ r.clean = c
  <2>1. LoopOK(Idle)
    BY DEF LoopOK, Idle
  <2> QED
    BY <2>1, FreshRecord
<1> HIDE DEF r
<1>5. CleanOK(l)' /\ SourceOK(l)'
  <2>1. loop'[l].clean => task'.at = "idle"
    BY <1>1, <1>3, <1>4, Zenon DEF c
  <2> QED
    BY <1>3, <1>4, <2>1, Zenon DEF CleanOK, SourceOK
<1> QED
  BY <1>1, <1>3, <1>4, <1>5, LoopStep, Zenon

\* The loop goes on with what it has loaded.
LEMMA ChangeStep ==
  ASSUME MInv, UNCHANGED <<task, remote, learned, pinner, crossed>>,
         NEW l \in Legs, NEW r, loop' = [loop EXCEPT ![l] = r], LoopOK(r),
         r.packet = loop[l].packet, r.clean = loop[l].clean, loop[l].at # "read",
         \/ r.at = "learned" /\ loop[l].packet.from[1] = r.seen.rtp[1]
         \/ r.at \in {"mapping", "invalid", "canSend"}
         \/ /\ r.at = "port" /\ loop[l].at = "target"
            /\ r.target[1] = remote[Other(l)].rtp[1]
         \/ /\ r.at = "write" /\ loop[l].at = "port"
            /\ r.target[1] = loop[l].target[1]
  PROVE  MInv'
<1>1. loop'[l] = r
  BY Zenon DEF MInv, ShapeOK
<1>2. CleanOK(l)'
  BY <1>1, Zenon DEF MInv, CleanOK
<1>3. SourceOK(l)'
  BY <1>1, Zenon DEF SourceOK
<1> QED
  BY <1>1, <1>2, <1>3, LoopStep, Zenon

\* What the steps that load remote or the learned port put into the loop.
LEMMA LoadedRecord ==
  ASSUME MInv, NEW l \in Legs, ~Drop(l),
         \/ SourceChecked(l) \/ RemoteLoaded(l) \/ PayloadMapped(l)
         \/ TargetRemote(l) \/ TargetPort(l)
  PROVE  \/ /\ loop[l].at = "source" /\ loop[l].packet.from[1] = remote[l].rtp[1]
            /\ loop' = [loop EXCEPT ![l] = WithSeen(loop[l], "learned", remote[l])]
         \/ /\ loop[l].at = "remote"
            /\ loop' = [loop EXCEPT ![l] = WithSeen(loop[l], "mapping", remote[l])]
         \/ /\ loop[l].at = "mapping"
            /\ \E o, w :
                 /\ o = payloadMapping(loop[l].packet.pt, loop[l].seen, remote[Other(l)])
                 /\ w = IF o = -1 THEN "invalid" ELSE "canSend"
                 /\ loop' = [loop EXCEPT ![l] = WithOut(loop[l], w, o)]
         \/ /\ loop[l].at = "target"
            /\ loop' = [loop EXCEPT ![l] =
                          WithTarget(loop[l], "port", remote[Other(l)].rtp)]
         \/ /\ loop[l].at = "port"
            /\ \E g : /\ g[1] = loop[l].target[1]
                      /\ loop' = [loop EXCEPT ![l] = WithTarget(loop[l], "write", g)]
<1>2. LoopOK(loop[l]) /\ loop = [k \in Legs |-> loop[k]]
  BY DEF MInv, ShapeOK
<1>4. CASE SourceChecked(l)
  <2>1. loop' = [loop EXCEPT ![l] = WithSeen(loop[l], "learned", remote[l])]
    BY <1>2, <1>4 DEF SourceChecked, WithSeen
  <2>2. loop[l].packet.from[1] = remote[l].rtp[1] /\ loop[l].at = "source"
    BY <1>4 DEF SourceChecked, At
  <2> QED
    BY <2>1, <2>2, Zenon
<1>5. CASE RemoteLoaded(l)
  <2>1. loop' = [loop EXCEPT ![l] = WithSeen(loop[l], "mapping", remote[l])]
    BY <1>2, <1>5 DEF RemoteLoaded, WithSeen
  <2>2. loop[l].at = "remote"
    BY <1>5 DEF RemoteLoaded, At
  <2> QED
    BY <2>1, <2>2, Zenon
<1>6. CASE PayloadMapped(l)
  <2> DEFINE o == payloadMapping(loop[l].packet.pt, loop[l].seen, remote[Other(l)])
             w == IF o = -1 THEN "invalid" ELSE "canSend"
  <2>1. loop' = [loop EXCEPT ![l].at = w, ![l].out = o] /\ loop[l].at = "mapping"
    BY <1>6 DEF PayloadMapped, At
  <2>2. loop' = [loop EXCEPT ![l] = WithOut(loop[l], w, o)]
    <3> HIDE DEF w, o
    <3> QED
      BY <1>2, <2>1, Zenon DEF WithOut
  <2> QED
    BY <2>1, <2>2, Zenon
<1>7. CASE TargetRemote(l)
  <2>1. loop' = [loop EXCEPT ![l] = WithTarget(loop[l], "port", remote[Other(l)].rtp)]
    BY <1>2, <1>7, Zenon DEF TargetRemote, WithTarget
  <2>2. loop[l].at = "target"
    BY <1>7 DEF TargetRemote, At
  <2> QED
    BY <2>1, <2>2, Zenon
<1>8. CASE TargetPort(l)
  <2> DEFINE g == IF learned[Other(l)] = 0 THEN loop[l].target
                  ELSE <<loop[l].target[1], learned[Other(l)]>>
  <2>1. loop' = [loop EXCEPT ![l] = WithTarget(loop[l], "write", g)]
    BY <1>2, <1>8, Zenon DEF TargetPort, WithTarget, LoopOK
  <2>2. loop[l].at = "port"
    BY <1>8 DEF TargetPort, At
  <2>3. g[1] = loop[l].target[1]
    OBVIOUS
  <2> HIDE DEF g
  <2> QED
    BY <2>1, <2>2, <2>3, Zenon
<1> QED
  BY <1>4, <1>5, <1>6, <1>7, <1>8, Zenon

\* The steps that load remote or the learned port into the loop.
LEMMA LoadingStep ==
  ASSUME MInv, NEW l \in Legs,
         \/ SourceChecked(l) \/ RemoteLoaded(l) \/ PayloadMapped(l)
         \/ TargetRemote(l) \/ TargetPort(l)
  PROVE  MInv'
<1>1. UNCHANGED <<task, remote, learned, pinner, crossed>>
  BY Zenon DEF SourceChecked, RemoteLoaded, PayloadMapped, TargetRemote, TargetPort, signal,
         endpoints, history
<1>2. LoopOK(loop[l])
  BY DEF MInv, ShapeOK
<1>3. CASE Drop(l)
  BY <1>1, <1>3, DropStep
<1>4. CASE ~Drop(l)
  <2>1. CASE /\ loop[l].at = "source" /\ loop[l].packet.from[1] = remote[l].rtp[1]
             /\ loop' = [loop EXCEPT ![l] = WithSeen(loop[l], "learned", remote[l])]
    <3> DEFINE q == WithSeen(loop[l], "learned", remote[l])
    <3>1. Continues(q, loop[l], "learned") /\ q.seen = remote[l]
      BY <1>2, RecordStep
    <3> HIDE DEF q
    <3>2. loop' = [loop EXCEPT ![l] = q] /\ loop[l].at # "read"
      BY <2>1, Zenon DEF q
    <3> QED
      BY <1>1, <2>1, <3>1, <3>2, ChangeStep, Zenon DEF Continues
  <2>2. CASE /\ loop[l].at = "remote"
             /\ loop' = [loop EXCEPT ![l] = WithSeen(loop[l], "mapping", remote[l])]
    <3> DEFINE q == WithSeen(loop[l], "mapping", remote[l])
    <3>1. Continues(q, loop[l], "mapping")
      BY <1>2, RecordStep, Zenon
    <3> HIDE DEF q
    <3>2. loop' = [loop EXCEPT ![l] = q] /\ loop[l].at # "read"
      BY <2>2 DEF q
    <3> QED
      BY <1>1, <2>2, <3>1, <3>2, ChangeStep, Zenon DEF Continues
  <2>3. ASSUME loop[l].at = "mapping", NEW o, NEW w \in {"invalid", "canSend"},
               loop' = [loop EXCEPT ![l] = WithOut(loop[l], w, o)]
        PROVE  MInv'
    <3> DEFINE q == WithOut(loop[l], w, o)
    <3>1. Continues(q, loop[l], w)
      BY <1>2, RecordStep, Zenon
    <3> HIDE DEF q
    <3>2. loop' = [loop EXCEPT ![l] = q] /\ loop[l].at # "read"
      BY <2>3 DEF q
    <3> QED
      BY <1>1, <2>3, <3>1, <3>2, ChangeStep, Zenon DEF Continues
  <2>4. CASE /\ loop[l].at = "target"
             /\ loop' = [loop EXCEPT ![l] =
                           WithTarget(loop[l], "port", remote[Other(l)].rtp)]
    <3> DEFINE q == WithTarget(loop[l], "port", remote[Other(l)].rtp)
    <3>1. Continues(q, loop[l], "port") /\ q.target = remote[Other(l)].rtp
      BY <1>2, RecordStep
    <3> HIDE DEF q
    <3>2. loop' = [loop EXCEPT ![l] = q] /\ loop[l].at # "read"
      BY <2>4 DEF q
    <3> QED
      BY <1>1, <2>4, <3>1, <3>2, ChangeStep, Zenon DEF Continues
  <2>5. ASSUME loop[l].at = "port", NEW g, g[1] = loop[l].target[1],
               loop' = [loop EXCEPT ![l] = WithTarget(loop[l], "write", g)]
        PROVE  MInv'
    <3> DEFINE q == WithTarget(loop[l], "write", g)
    <3>1. Continues(q, loop[l], "write") /\ q.target = g
      BY <1>2, RecordStep
    <3> HIDE DEF q
    <3>2. loop' = [loop EXCEPT ![l] = q] /\ loop[l].at # "read"
      BY <2>5, Zenon DEF q
    <3> QED
      BY <1>1, <2>5, <3>1, <3>2, ChangeStep, Zenon DEF Continues
  <2> QED
    BY <1>4, <2>1, <2>2, <2>3, <2>4, <2>5, LoadedRecord, Zenon
<1> QED
  BY <1>3, <1>4

\* The steps that decide whether the packet goes on.
LEMMA DecidingStep ==
  ASSUME MInv, NEW l \in Legs,
         \/ LearnedLoaded(l) \/ LearnedReloaded(l) \/ PayloadRefused(l)
         \/ SendChecked(l) \/ ReceiveChecked(l) \/ Written(l)
  PROVE  MInv'
<1>1. UNCHANGED <<task, remote, learned, pinner, crossed>>
  BY Zenon DEF LearnedLoaded, LearnedReloaded, PayloadRefused, SendChecked, ReceiveChecked,
         Written, signal, endpoints, history
<1>2. CASE Drop(l)
  BY <1>1, <1>2, DropStep
<1>3. CASE ~Drop(l)
  <2>1. PICK w : /\ Goto(l, w) /\ loop[l].at # "read"
                 /\ \/ w = "swap" /\ loop[l].at = "learned"
                    \/ w = "remote"
                    \/ w = "canReceive" /\ canSend(remote[l])
                    \/ /\ w = "target" /\ loop[l].at = "canReceive"
                       /\ canReceive(remote[Other(l)])
    BY <1>3, Zenon DEF LearnedLoaded, LearnedReloaded, PayloadRefused, SendChecked,
                ReceiveChecked, Written, At
  <2> QED
    BY <1>1, <2>1, GotoStep, Zenon
<1> QED
  BY <1>2, <1>3

\* CompareAndSwap sets the port from a packet of the host it was compared with.
LEMMA LearnStep ==
  ASSUME MInv, NEW l \in Legs, PortLearned(l)
  PROVE  MInv'
<1>1. UNCHANGED <<task, remote>> /\ Goto(l, "reload") /\ loop[l].at = "swap"
  BY Zenon DEF PortLearned, signal, At
<1>2. CASE learned[l] # 0
  <2>1. UNCHANGED <<task, remote, learned, pinner, crossed>>
    BY <1>1, <1>2, Zenon DEF PortLearned, history
  <2> QED
    BY <1>1, <2>1, GotoStep, Zenon
<1>3. CASE learned[l] = 0
  <2> DEFINE r == [at |-> "reload", packet |-> loop[l].packet,
                   seen |-> loop[l].seen, out |-> loop[l].out,
                   target |-> loop[l].target, clean |-> loop[l].clean]
  <2>1. /\ loop' = [k \in Legs |-> loop'[k]] /\ loop'[l] = r
        /\ \A k \in Legs : k # l => loop'[k] = loop[k]
    BY <1>1 DEF Goto, MInv, ShapeOK, LoopOK
  <2>2. /\ learned' = [learned EXCEPT ![l] = loop[l].packet.from[2]]
        /\ pinner' = [pinner EXCEPT ![l] = loop[l].packet.from]
        /\ crossed' = [crossed EXCEPT ![l] =
             \/ loop[l].seen.rtp # remote[l].rtp
             \/ task.at = "store" /\ task.leg = l]
    BY <1>3, Zenon DEF PortLearned
  <2>3. LoopOK(r)
    BY Zenon DEF LoopOK
  <2>4. ShapeOK'
    BY <1>1, <2>1, <2>2, <2>3, Zenon DEF MInv, ShapeOK, TaskOK
  <2>5. \A k \in Legs : CleanOK(k)' /\ SourceOK(k)'
    BY <1>1, <2>1 DEF MInv, CleanOK, SourceOK
  <2>6. \A k \in Legs : k # l => PinOK(k)'
    BY <1>1, <2>2, Zenon DEF MInv, ShapeOK, PinOK
  <2>7. PinOK(l)'
    <3>1. /\ pinner'[l] = loop[l].packet.from
          /\ crossed'[l] = (\/ loop[l].seen.rtp # remote[l].rtp
                            \/ task.at = "store" /\ task.leg = l)
      BY <2>2 DEF MInv, ShapeOK
    <3>2. loop[l].packet.from[1] = loop[l].seen.rtp[1]
      BY <1>1, Zenon DEF MInv, SourceOK
    <3> QED
      BY <1>1, <3>1, <3>2, Zenon DEF PinOK
  <2> QED
    BY <2>4, <2>5, <2>6, <2>7, Zenon DEF MInv
<1> QED
  BY <1>2, <1>3

-----------------------------------------------------------------------------
\* The invariant of the endpoints holds however the packets of the two loops
\* interleave with the loads and stores of Session.Configure, for any
\* descriptions and any number of answers and packets.
THEOREM MediaInvariant == Spec => []MInv
<1>1. MInv /\ [Next]_vars => MInv'
  <2> SUFFICES ASSUME MInv, [Next]_vars PROVE MInv'
    OBVIOUS
  <2>1. ASSUME NEW b, InviteAnswered(b) PROVE MInv'
    BY <2>1, AnswerStep DEF InviteAnswered
  <2>2. ASSUME NEW o, NEW b, ReInviteAnswered(o, b) PROVE MInv'
    BY <2>2, AnswerStep, Zenon DEF ReInviteAnswered
  <2>3. CASE ConfigureLoad \/ ConfigureReset \/ ConfigureStore \/ AnswerBuilt
    BY <2>3, LoadStep, ResetStep, StoreStep, BuiltStep
  <2>4. ASSUME NEW l \in Legs, Forward(l) PROVE MInv'
    BY <2>4, ReadStep, LoadingStep, DecidingStep, LearnStep, Zenon DEF Forward
  <2>5. CASE UNCHANGED vars
    BY <2>5, Zenon DEF MInv, ShapeOK, TaskOK, CleanOK, SourceOK, PinOK, vars, signal,
                endpoints, history
  <2> QED
    BY <2>1, <2>2, <2>3, <2>4, <2>5, Zenon DEF Next
<1> QED
  BY <1>1, MediaInit, PTL DEF Spec

\* A packet read after the last Configure returned is written only when its
\* sender may send and its receiver may receive, and to the receiver's host.
THEOREM HoldIsObeyed == Spec => []HoldObeyed
<1>1. MInv => HoldObeyed
  BY Zenon DEF MInv, CleanOK, HoldObeyed
<1> QED
  BY <1>1, MediaInvariant, PTL

\* A learned port that no Configure overlapped was learned from the host that
\* the peer's latest description names.
THEOREM PortsArePeers == Spec => []PinnedFromPeer
<1>1. MInv => PinnedFromPeer
  BY DEF MInv, PinOK, PinnedFromPeer
<1> QED
  BY <1>1, MediaInvariant, PTL

-----------------------------------------------------------------------------
(* What ParseAudio and Negotiate return, for descriptions of any length.   *)

\* A non-empty set of places has a first one.
LEMMA FirstPlace ==
  ASSUME NEW S \in SUBSET Nat, S # {}
  PROVE  Min(S) \in S
<1> DEFINE Less == {p \in Nat \X Nat : p[1] < p[2]}
<1>1. IsWellFoundedOn(Less, Nat)
  BY NatLessThanWellFounded, Zenon DEF OpToRel
<1>2. PICK x \in S : \A y \in S : ~(<<y, x>> \in Less)
  <2> HIDE DEF Less
  <2> QED
    BY <1>1, WFMin, Zenon
<1>3. ASSUME NEW y \in S PROVE x <= y
  <2>1. y < x => <<y, x>> \in Less
    OBVIOUS
  <2> QED
    BY <1>2, <2>1
<1> QED
  BY <1>3, Zenon DEF Min

\* What parseCodecs keeps: payload types of the description under their names.
LEMMA ParsedCodecs ==
  ASSUME NEW b, b.formats \in Seq(Nat), ParseAudio(b) # NoAudio,
         NEW i \in DOMAIN ParseAudio(b).codecs
  PROVE  /\ i \in Nat
         /\ ParseAudio(b).codecs[i].pt \in Listed(b)
         /\ Encoding(b, ParseAudio(b).codecs[i].pt) = ParseAudio(b).codecs[i].name
<1> DEFINE c == [j \in DOMAIN b.formats |->
                   [name |-> Encoding(b, b.formats[j]), pt |-> b.formats[j]]]
<1>1. ParseAudio(b).codecs = Supported(c)
  BY Zenon DEF ParseAudio, parseCodecs
<1>2. i \in DOMAIN c /\ Supported(c)[i] = c[i]
  BY <1>1, Zenon DEF Supported, Restrict
<1>3. /\ i \in DOMAIN b.formats /\ c[i].pt = b.formats[i]
      /\ c[i].name = Encoding(b, b.formats[i])
  BY <1>2, Zenon
<1>4. b.formats[i] \in Listed(b)
  BY <1>3, Zenon DEF Listed
<1>5. DOMAIN b.formats \subseteq Nat
  OBVIOUS
<1> QED
  BY <1>1, <1>2, <1>3, <1>4, <1>5, Zenon

\* findCodec returns a codec of the list that has the name.
LEMMA FoundCodec ==
  ASSUME NEW codecs, DOMAIN codecs \in SUBSET Nat, NEW name,
         Named(codecs, name) # {}
  PROVE  \E i \in DOMAIN codecs :
           findCodec(codecs, name) = codecs[i] /\ codecs[i].name = name
<1>1. Min(Named(codecs, name)) \in Named(codecs, name)
  BY FirstPlace DEF Named
<1> QED
  BY <1>1, Zenon DEF findCodec, Named

\* The codec that findCodec returns from a parsed description is listed in it.
LEMMA FoundListed ==
  ASSUME NEW b, b.formats \in Seq(Nat), ParseAudio(b) # NoAudio, NEW name,
         Named(ParseAudio(b).codecs, name) # {}
  PROVE  /\ findCodec(ParseAudio(b).codecs, name).pt \in Listed(b)
         /\ Encoding(b, findCodec(ParseAudio(b).codecs, name).pt) = name
<1>1. DOMAIN ParseAudio(b).codecs \in SUBSET Nat
  BY ParsedCodecs, Zenon
<1>2. PICK i \in DOMAIN ParseAudio(b).codecs :
        /\ findCodec(ParseAudio(b).codecs, name) = ParseAudio(b).codecs[i]
        /\ ParseAudio(b).codecs[i].name = name
  BY <1>1, FoundCodec, Zenon
<1> QED
  BY <1>2, ParsedCodecs, Zenon

\* Negotiate pairs payload types that the two descriptions list, with the same
\* name in both.
LEMMA NegotiatedPair ==
  ASSUME NEW b, NEW d, b.formats \in Seq(Nat), d.formats \in Seq(Nat),
         ParseAudio(b) # NoAudio, ParseAudio(d) # NoAudio,
         NEW m, m = Negotiate(ParseAudio(b), ParseAudio(d)), m # NoMapping
  PROVE  /\ m.callerPT \in Listed(b) /\ Encoding(b, m.callerPT) = m.name
         /\ m.calleePT \in Listed(d) /\ Encoding(d, m.calleePT) = m.name
         /\ m.hasDTMF =>
              /\ m.callerDTMF \in Listed(b)
              /\ Encoding(b, m.callerDTMF) = TelephoneEvent
              /\ m.calleeDTMF \in Listed(d)
              /\ Encoding(d, m.calleeDTMF) = TelephoneEvent
<1> DEFINE o == ParseAudio(b).codecs
           a == ParseAudio(d).codecs
           common == {i \in DOMAIN a : a[i].name \in G711 /\ Named(o, a[i].name) # {}}
           name == a[Min(common)].name
           dtmf == Named(o, TelephoneEvent) # {} /\ Named(a, TelephoneEvent) # {}
           PT(codecs) == IF dtmf THEN findCodec(codecs, TelephoneEvent).pt ELSE 0
<1>1. /\ common # {}
      /\ m = [name |-> name, callerPT |-> findCodec(o, name).pt,
              calleePT |-> a[Min(common)].pt, hasDTMF |-> dtmf,
              callerDTMF |-> PT(o), calleeDTMF |-> PT(a)]
  BY Zenon DEF Negotiate
<1>2. DOMAIN o \in SUBSET Nat /\ DOMAIN a \in SUBSET Nat
  BY ParsedCodecs, Zenon
<1>3. Min(common) \in common
  <2>1. common \in SUBSET Nat
    BY <1>2, Zenon
  <2> QED
    BY <1>1, <2>1, FirstPlace, Zenon
<1>4. /\ m.name = name /\ m.callerPT = findCodec(o, name).pt
      /\ m.calleePT = a[Min(common)].pt /\ m.hasDTMF = dtmf
      /\ m.callerDTMF = PT(o) /\ m.calleeDTMF = PT(a)
  <2> HIDE DEF o, a, common, name, dtmf, PT
  <2> QED
    BY <1>1
<1>5. m.calleePT \in Listed(d) /\ Encoding(d, m.calleePT) = m.name
  BY <1>3, <1>4, ParsedCodecs, Zenon
<1>6. Named(o, name) # {}
  BY <1>3, Zenon
<1> HIDE DEF o, a, name
<1>7. \A n : Named(o, n) # {} =>
        /\ findCodec(o, n).pt \in Listed(b)
        /\ Encoding(b, findCodec(o, n).pt) = n
  BY FoundListed, Zenon DEF o
<1>8. \A n : Named(a, n) # {} =>
        /\ findCodec(a, n).pt \in Listed(d)
        /\ Encoding(d, findCodec(a, n).pt) = n
  BY FoundListed, Zenon DEF a
<1> QED
  BY <1>4, <1>5, <1>6, <1>7, <1>8, Zenon

-----------------------------------------------------------------------------
(* The encodings.  Once the loops run, the two remotes use the payload     *)
(* types of the one mapping that was ever accepted, also while Configure   *)
(* has replaced only the first of them, and that mapping pairs payload     *)
(* types that the two peers announced for the same encoding.               *)

\* One of the descriptions of a peer lists the payload type under that name.
Says(bodies, pt, name) ==
  \E b \in bodies : pt \in Listed(b) /\ Encoding(b, pt) = name

\* The payload types of a mapping on one leg.
AudioPT(l, m) == IF l = "caller" THEN m.callerPT ELSE m.calleePT
EventPT(l, m) == IF l = "caller" THEN m.callerDTMF ELSE m.calleeDTMF

\* The mapping is one that the descriptions of the peers allow.
Allowed(m, bodies) ==
  /\ m # NoMapping
  /\ \A l \in Legs : Says(bodies[l], AudioPT(l, m), m.name)
  /\ \A l \in Legs : m.hasDTMF => Says(bodies[l], EventPT(l, m), TelephoneEvent)

\* A remote configuration of the leg uses the payload types of the mapping.
Uses(l, config, m) ==
  /\ config.audioPT = AudioPT(l, m)
  /\ config.hasDTMF = m.hasDTMF /\ config.dtmfPT = EventPT(l, m)

\* The descriptions are ones the peers may send, and the offer is one of them.
BodiesOK ==
  /\ said = [l \in Legs |-> said[l]]
  /\ said["caller"] \subseteq CallerBodies /\ said["callee"] \subseteq CalleeBodies

SaidOK ==
  /\ BodiesOK
  /\ \E b \in said["caller"] : offer = ParseAudio(b) /\ offer # NoAudio

\* An accepted answer has the mapping in use, and configures the caller first.
AcceptedOK ==
  task.at # "idle" =>
    /\ Allowed(task.mapping, said) /\ mapping \in {NoMapping, task.mapping}
    /\ \A l \in Legs : Uses(l, task[l], task.mapping)
    /\ task.leg = "callee" => Uses("caller", remote["caller"], task.mapping)
    /\ task.at = "answer" =>
         task.leg = "callee" /\ Uses("callee", remote["callee"], task.mapping)

RunningOK ==
  /\ running => Allowed(mapping, said) /\ \A l \in Legs : Uses(l, remote[l], mapping)
  /\ answer # NoAudio =>
       /\ running
       /\ \A i \in DOMAIN answer.formats :
            \/ answer.formats[i] = mapping.callerPT
            \/ mapping.hasDTMF /\ answer.formats[i] = mapping.callerDTMF

\* Where a packet is past the mapping of its payload type.
Mapped == {"canSend", "canReceive", "target", "port", "write"}

PacketOK(l) ==
  loop[l].at # "read" =>
    /\ running /\ Says(said[l], loop[l].packet.pt, loop[l].packet.name)
    /\ loop[l].at = "mapping" => Uses(l, loop[l].seen, mapping)
    /\ loop[l].at \in Mapped => Says(said[Other(l)], loop[l].out, loop[l].packet.name)
    /\ loop[l].at = "invalid" =>
         /\ loop[l].packet.pt # AudioPT(l, mapping)
         /\ ~(mapping.hasDTMF /\ loop[l].packet.pt = EventPT(l, mapping))

EInv == SaidOK /\ AcceptedOK /\ RunningOK /\ \A l \in Legs : PacketOK(l)

\* A payload type means one thing to the peer that announced it.
LEMMA OneMeaning ==
  ASSUME SaidOK, NEW l \in Legs, NEW pt, NEW name, Says(said[l], pt, name)
  PROVE  /\ pt \in Nat /\ Meaning(l, pt) = {name}
         /\ \A n : Says(said[l], pt, n) => n = name
<1>1. PICK b \in said[l] : pt \in Listed(b) /\ Encoding(b, pt) = name
  BY Zenon DEF Says
<1>2. PICK bodies \in {CallerBodies, CalleeBodies} : said[l] \subseteq bodies
  BY Zenon DEF SaidOK, BodiesOK, Legs
<1>3. \A c \in said[l] : pt \in Listed(c) => Encoding(c, pt) = name
  <2>1. \A c \in bodies : \A q \in Listed(b) \cap Listed(c) :
          Encoding(b, q) = Encoding(c, q)
    BY <1>1, <1>2, BodiesAssumption, Zenon
  <2> QED
    BY <1>1, <1>2, <2>1, Zenon
<1>4. pt \in Nat
  <2>1. b.formats \in Seq(Nat)
    BY <1>1, <1>2, BodiesAssumption, Zenon
  <2> QED
    BY <1>1, <2>1 DEF Listed
<1>5. Meaning(l, pt) = {name}
  BY <1>1, <1>3, Zenon DEF Meaning
<1> QED
  BY <1>3, <1>4, <1>5, Zenon DEF Says

\* What a peer has said stays said.
LEMMA StillSaid ==
  ASSUME NEW s, NEW t, \A l \in Legs : s[l] \subseteq t[l]
  PROVE  /\ \A l \in Legs : \A pt, name : Says(s[l], pt, name) => Says(t[l], pt, name)
         /\ \A m : Allowed(m, s) => Allowed(m, t)
<1>1. \A l \in Legs : \A pt, name : Says(s[l], pt, name) => Says(t[l], pt, name)
  BY Zenon DEF Says
<1> QED
  BY <1>1, Zenon DEF Allowed

\* payloadMapping between two remotes that use an allowed mapping keeps the
\* encoding, and refuses only what is not one of the mapping's payload types.
LEMMA PayloadKept ==
  ASSUME SaidOK, NEW l \in Legs, NEW pt, NEW name, Says(said[l], pt, name),
         NEW m, Allowed(m, said), NEW source, Uses(l, source, m),
         NEW destination, Uses(Other(l), destination, m),
         NEW out, out = payloadMapping(pt, source, destination)
  PROVE  /\ out # -1 => Says(said[Other(l)], out, name)
         /\ out = -1 =>
              pt # AudioPT(l, m) /\ ~(m.hasDTMF /\ pt = EventPT(l, m))
<1>1. Other(l) \in Legs
  BY DEF Other, Legs
<1>2. CASE pt = AudioPT(l, m)
  <2>1. out = AudioPT(Other(l), m)
    BY <1>2, Zenon DEF payloadMapping, Uses
  <2>2. Says(said[Other(l)], out, m.name) /\ Says(said[l], pt, m.name)
    BY <1>1, <1>2, <2>1, Zenon DEF Allowed
  <2>3. m.name = name /\ out \in Nat
    BY <1>1, <2>2, OneMeaning, Zenon
  <2>4. out # -1
    BY <2>3
  <2> QED
    BY <2>2, <2>3, <2>4, Zenon
<1>3. CASE pt # AudioPT(l, m) /\ m.hasDTMF /\ pt = EventPT(l, m)
  <2>1. out = EventPT(Other(l), m)
    BY <1>3, Zenon DEF payloadMapping, Uses
  <2>2. Says(said[Other(l)], out, TelephoneEvent) /\ Says(said[l], pt, TelephoneEvent)
    BY <1>1, <1>3, <2>1, Zenon DEF Allowed
  <2>3. TelephoneEvent = name /\ out \in Nat
    BY <1>1, <2>2, OneMeaning, Zenon
  <2>4. out # -1
    BY <2>3
  <2> QED
    BY <2>2, <2>3, <2>4, Zenon
<1>4. CASE pt # AudioPT(l, m) /\ ~(m.hasDTMF /\ pt = EventPT(l, m))
  <2>1. out = -1
    BY <1>4, Zenon DEF payloadMapping, Uses
  <2> QED
    BY <1>4, <2>1, Zenon
<1> QED
  BY <1>2, <1>3, <1>4, Zenon

\* The packets under way keep what holds of them when the loops do not move.
LEMMA PacketsKept ==
  ASSUME EInv, \A l \in Legs : said[l] \subseteq said'[l],
         running => running' /\ mapping' = mapping,
         \A l \in Legs : /\ loop'[l].at = loop[l].at /\ loop'[l].seen = loop[l].seen
                         /\ loop'[l].packet = loop[l].packet
                         /\ loop'[l].out = loop[l].out
  PROVE  \A l \in Legs : PacketOK(l)'
<1> SUFFICES ASSUME NEW l \in Legs, loop'[l].at # "read" PROVE PacketOK(l)'
  BY Zenon DEF PacketOK
<1>1. PacketOK(l) /\ running /\ running' /\ mapping' = mapping
  BY Zenon DEF EInv, PacketOK
<1>2. \A k \in Legs : \A pt, name : Says(said[k], pt, name) => Says(said'[k], pt, name)
  BY StillSaid, Zenon
<1> Other(l) \in Legs
  BY DEF Other, Legs
<1>3. Says(said'[l], loop'[l].packet.pt, loop'[l].packet.name)
  BY <1>1, <1>2, Zenon DEF PacketOK
<1>4. loop'[l].at = "mapping" => Uses(l, loop'[l].seen, mapping')
  BY <1>1, Zenon DEF PacketOK
<1>5. loop'[l].at \in Mapped =>
        Says(said'[Other(l)], loop'[l].out, loop'[l].packet.name)
  BY <1>1, <1>2, Zenon DEF PacketOK
<1>6. loop'[l].at = "invalid" =>
        /\ loop'[l].packet.pt # AudioPT(l, mapping')
        /\ ~(mapping'.hasDTMF /\ loop'[l].packet.pt = EventPT(l, mapping'))
  BY <1>1, Zenon DEF PacketOK
<1> QED
  BY <1>1, <1>3, <1>4, <1>5, <1>6, Zenon DEF PacketOK

\* Before the first answer there is no mapping, and no packet.
LEMMA EncInit == Init => EInv
<1> SUFFICES ASSUME Init PROVE EInv
  OBVIOUS
<1>1. SaidOK
  <2>1. PICK b \in CallerBodies :
          /\ offer = ParseAudio(b) /\ offer # NoAudio
          /\ said = [caller |-> {b}, callee |-> {}]
    BY Zenon DEF Init
  <2>2. said["caller"] = {b} /\ said["callee"] = {} /\ said = [l \in Legs |-> said[l]]
    BY <2>1, Zenon DEF Legs
  <2> QED
    BY <2>1, <2>2, Zenon DEF SaidOK, BodiesOK
<1>2. task.at = "idle" /\ ~running /\ answer = NoAudio
  BY DEF Init, NoTask
<1>3. \A l \in Legs : loop[l].at = "read"
  BY Zenon DEF Init, Idle
<1> QED
  BY <1>1, <1>2, <1>3, Zenon DEF EInv, AcceptedOK, RunningOK, PacketOK

\* applyMediaAnswer takes up an answer whose mapping the peers allow and that is
\* the one in use, if there is one; nothing of what is in use changes.
LEMMA AnswerEnc ==
  ASSUME MInv, EInv, task.at = "idle", \A l \in Legs : said[l] \subseteq said'[l],
         BodiesOK', NEW c \in said'["caller"], NEW b \in said'["callee"], NEW o,
         o = ParseAudio(c), o # NoAudio, applyMediaAnswer(o, b),
         UNCHANGED <<mapping, answer, running, endpoints>>
  PROVE  EInv'
<1>1. UNCHANGED <<mapping, answer, running, remote>>
  BY Zenon DEF endpoints
<1>2. RunningOK'
  <2>1. running => Allowed(mapping, said')
    BY StillSaid, Zenon DEF EInv, RunningOK
  <2> QED
    BY <1>1, <2>1 DEF EInv, RunningOK
<1>3. CASE UNCHANGED <<task, offer, loop>>
  <2>1. SaidOK'
    BY <1>3, Zenon DEF EInv, SaidOK, Legs
  <2>2. AcceptedOK'
    BY <1>3, Zenon DEF AcceptedOK
  <2>3. \A l \in Legs : PacketOK(l)'
    BY <1>1, <1>3, PacketsKept
  <2> QED
    BY <1>2, <2>1, <2>2, <2>3, Zenon DEF EInv
<1>4. CASE ~UNCHANGED <<task, offer, loop>>
  <2> DEFINE a == ParseAudio(b)
             m == IF a = NoAudio THEN NoMapping ELSE Negotiate(o, a)
  <2>1. /\ MappingKept(m) /\ offer' = o
        /\ task' = [at |-> "load", leg |-> "caller", mapping |-> m,
                    caller |-> Config(o, m.callerPT, m.callerDTMF, m.hasDTMF),
                    callee |-> Config(a, m.calleePT, m.calleeDTMF, m.hasDTMF)]
        /\ loop' = [l \in Legs |-> [loop[l] EXCEPT !.clean = FALSE]]
    BY <1>4, Zenon DEF applyMediaAnswer
  <2>2. SaidOK'
    BY <2>1, Zenon DEF SaidOK
  <2>3. m # NoMapping /\ mapping \in {NoMapping, m}
    BY <2>1, Zenon DEF MappingKept
  <2>4. Allowed(m, said')
    <3>1. c.formats \in Seq(Nat) /\ b.formats \in Seq(Nat)
      BY BodiesAssumption, Zenon DEF BodiesOK
    <3>2. a # NoAudio /\ m = Negotiate(o, a)
      BY <2>3, Zenon
    <3> HIDE DEF a, m
    <3>3. /\ m.callerPT \in Listed(c) /\ Encoding(c, m.callerPT) = m.name
          /\ m.calleePT \in Listed(b) /\ Encoding(b, m.calleePT) = m.name
          /\ m.hasDTMF =>
               /\ m.callerDTMF \in Listed(c)
               /\ Encoding(c, m.callerDTMF) = TelephoneEvent
               /\ m.calleeDTMF \in Listed(b)
               /\ Encoding(b, m.calleeDTMF) = TelephoneEvent
      BY <2>3, <3>1, <3>2, NegotiatedPair DEF a
    <3>4. /\ Says(said'["caller"], m.callerPT, m.name)
          /\ Says(said'["callee"], m.calleePT, m.name)
          /\ m.hasDTMF => /\ Says(said'["caller"], m.callerDTMF, TelephoneEvent)
                          /\ Says(said'["callee"], m.calleeDTMF, TelephoneEvent)
      BY <3>3, Zenon DEF Says
    <3> QED
      BY <2>3, <3>4, Zenon DEF Allowed, AudioPT, EventPT, Legs
  <2> HIDE DEF m, a
  <2>5. /\ task'.at = "load" /\ task'.leg = "caller" /\ task'.mapping = m
        /\ task'["caller"] = Config(o, m.callerPT, m.callerDTMF, m.hasDTMF)
        /\ task'["callee"] = Config(a, m.calleePT, m.calleeDTMF, m.hasDTMF)
    BY <2>1
  <2>6. \A l \in Legs : Uses(l, task'[l], m)
    <3>1. \A e, pt, dtmf, has : /\ Config(e, pt, dtmf, has).audioPT = pt
                                /\ Config(e, pt, dtmf, has).dtmfPT = dtmf
                                /\ Config(e, pt, dtmf, has).hasDTMF = has
      BY Zenon DEF Config
    <3> QED
      BY <2>5, <3>1 DEF Uses, AudioPT, EventPT, Legs
  <2>7. AcceptedOK'
    BY <1>1, <2>3, <2>4, <2>5, <2>6, Zenon DEF AcceptedOK
  <2>8. \A l \in Legs :
          /\ loop'[l].at = loop[l].at /\ loop'[l].seen = loop[l].seen
          /\ loop'[l].packet = loop[l].packet /\ loop'[l].out = loop[l].out
    <3> SUFFICES ASSUME NEW l \in Legs
                 PROVE  /\ loop'[l].at = loop[l].at /\ loop'[l].seen = loop[l].seen
                        /\ loop'[l].packet = loop[l].packet
                        /\ loop'[l].out = loop[l].out
      BY Zenon
    <3>1. LoopOK(loop[l]) /\ loop'[l] = [loop[l] EXCEPT !.clean = FALSE]
      BY <2>1, Zenon DEF MInv, ShapeOK
    <3> QED
      BY <3>1 DEF LoopOK
  <2>9. \A l \in Legs : PacketOK(l)'
    BY <1>1, <2>8, PacketsKept
  <2> QED
    BY <1>2, <2>2, <2>7, <2>9, Zenon DEF EInv
<1> QED
  BY <1>3, <1>4, Zenon

\* The answers to the INVITE and to a re-INVITE, whose offer was said as well.
LEMMA AnsweredEnc ==
  ASSUME MInv, EInv,
         \/ \E b \in CalleeBodies : InviteAnswered(b)
         \/ \E o \in CallerBodies, b \in CalleeBodies : ReInviteAnswered(o, b)
  PROVE  EInv'
<1>0. said = [l \in Legs |-> said[l]] /\ "caller" \in Legs /\ "callee" \in Legs
  BY Zenon DEF EInv, SaidOK, BodiesOK, Legs
<1>1. ASSUME NEW b \in CalleeBodies, InviteAnswered(b) PROVE EInv'
  <2>1. PICK c \in said["caller"] : offer = ParseAudio(c) /\ offer # NoAudio
    BY Zenon DEF EInv, SaidOK
  <2>2. /\ said' = [said EXCEPT !["callee"] = @ \cup {b}] /\ task.at = "idle"
        /\ applyMediaAnswer(offer, b)
        /\ UNCHANGED <<mapping, answer, running, endpoints>>
    BY <1>1, Zenon DEF InviteAnswered
  <2>3. /\ said' = [l \in Legs |-> said'[l]]
        /\ said'["caller"] = said["caller"] /\ said'["callee"] = said["callee"] \cup {b}
    BY <1>0, <2>2, Zenon
  <2>4. /\ \A l \in Legs : said[l] \subseteq said'[l]
        /\ BodiesOK' /\ c \in said'["caller"] /\ b \in said'["callee"]
    BY <2>3 DEF EInv, SaidOK, BodiesOK, Legs
  <2> QED
    BY <2>1, <2>2, <2>3, <2>4, AnswerEnc, Zenon
<1>2. ASSUME NEW o \in CallerBodies, NEW b \in CalleeBodies, ReInviteAnswered(o, b)
      PROVE  EInv'
  <2>1. /\ said' = [caller |-> said["caller"] \cup {o},
                    callee |-> said["callee"] \cup {b}]
        /\ task.at = "idle" /\ ParseAudio(o) # NoAudio
        /\ applyMediaAnswer(ParseAudio(o), b)
        /\ UNCHANGED <<mapping, answer, running, endpoints>>
    BY <1>2, Zenon DEF ReInviteAnswered
  <2>2. /\ said' = [l \in Legs |-> said'[l]]
        /\ said'["caller"] = said["caller"] \cup {o}
        /\ said'["callee"] = said["callee"] \cup {b}
    BY <2>1, Zenon DEF Legs
  <2>3. /\ \A l \in Legs : said[l] \subseteq said'[l]
        /\ BodiesOK' /\ o \in said'["caller"] /\ b \in said'["callee"]
    BY <2>2, Zenon DEF EInv, SaidOK, BodiesOK, Legs
  <2> QED
    BY <2>1, <2>2, <2>3, AnswerEnc, Zenon
<1> QED
  BY <1>1, <1>2, Zenon

\* The fields of the task while an answer is being applied.
LEMMA TaskFields ==
  ASSUME MInv, task.at # "idle"
  PROVE  /\ task.leg \in Legs
         /\ task = [at |-> task.at, leg |-> task.leg, mapping |-> task.mapping,
                    caller |-> task.caller, callee |-> task.callee]
<1>1. task # NoTask
  BY DEF NoTask
<1> QED
  BY <1>1, Zenon DEF MInv, ShapeOK, TaskOK

\* configure loads the remote, compares, and resets the learned port: no payload
\* type changes.
LEMMA LoadResetEnc ==
  ASSUME MInv, EInv, ConfigureLoad \/ ConfigureReset
  PROVE  EInv'
<1>1. /\ task.at \in {"load", "reset"}
      /\ UNCHANGED <<offer, mapping, answer, running, said, remote, loop>>
  BY DEF ConfigureLoad, ConfigureReset, endpoints
<1>2. PICK w \in {"reset", "store"} : task' = [task EXCEPT !.at = w]
  BY DEF ConfigureLoad, ConfigureReset, Step
<1>3. /\ task'.at = w /\ task'.leg = task.leg /\ task'.mapping = task.mapping
      /\ task'["caller"] = task["caller"] /\ task'["callee"] = task["callee"]
  BY <1>1, <1>2, TaskFields
<1>4. AcceptedOK'
  <2>1. \A l \in Legs : task'[l] = task[l]
    BY <1>3, Zenon DEF Legs
  <2>2. AcceptedOK /\ task.at # "idle" /\ task'.at # "answer"
    BY <1>1, <1>2, <1>3, Zenon DEF EInv
  <2> QED
    BY <1>1, <1>3, <2>1, <2>2, Zenon DEF AcceptedOK
<1>5. \A l \in Legs : PacketOK(l)'
  BY <1>1, PacketsKept, Zenon
<1>6. SaidOK' /\ RunningOK'
  BY <1>1, Zenon DEF EInv, SaidOK, BodiesOK, RunningOK
<1> QED
  BY <1>4, <1>5, <1>6, Zenon DEF EInv

\* configure stores a remote: it uses the payload types of the one before it.
LEMMA StoreEnc ==
  ASSUME MInv, EInv, ConfigureStore
  PROVE  EInv'
<1> DEFINE m == task.mapping
<1>1. /\ task.at = "store" /\ UNCHANGED <<offer, mapping, answer, running, said, loop>>
      /\ remote' = [remote EXCEPT ![task.leg] = task[task.leg]]
  BY DEF ConfigureStore
<1>2. /\ task.leg \in Legs /\ remote'[task.leg] = task[task.leg]
      /\ \A l \in Legs : l # task.leg => remote'[l] = remote[l]
  BY <1>1, TaskFields, Zenon DEF MInv, ShapeOK
<1>3. /\ Allowed(m, said) /\ mapping \in {NoMapping, m}
      /\ \A l \in Legs : Uses(l, task[l], m)
      /\ task.leg = "callee" => Uses("caller", remote["caller"], m)
  BY <1>1, Zenon DEF EInv, AcceptedOK
<1>4. /\ task'.mapping = m /\ task'.at # "idle" /\ task'.leg = "callee"
      /\ task'["caller"] = task["caller"] /\ task'["callee"] = task["callee"]
      /\ task'.at = "answer" => task.leg = "callee"
  <2>1. CASE task.leg = "caller"
    <3>1. task' = [at |-> "load", leg |-> "callee", mapping |-> m,
                   caller |-> task.caller, callee |-> task.callee]
      BY <1>1, <2>1, TaskFields, Zenon DEF ConfigureStore
    <3> QED
      BY <3>1, Zenon
  <2>2. CASE task.leg = "callee"
    <3>1. task' = [at |-> "answer", leg |-> "callee", mapping |-> m,
                   caller |-> task.caller, callee |-> task.callee]
      BY <1>1, <2>2, TaskFields, Zenon DEF ConfigureStore
    <3> QED
      BY <2>2, <3>1, Zenon
  <2> QED
    BY <1>2, <2>1, <2>2, Zenon DEF Legs
<1> HIDE DEF m
<1>5. Uses("caller", remote'["caller"], m)
  BY <1>2, <1>3, Zenon DEF Legs
<1>6. task.leg = "callee" => Uses("callee", remote'["callee"], m)
  BY <1>2, <1>3, Zenon DEF Legs
<1>7. AcceptedOK'
  <2>1. \A l \in Legs : Uses(l, task'[l], m)
    BY <1>3, <1>4, Zenon DEF Legs
  <2> QED
    BY <1>1, <1>3, <1>4, <1>5, <1>6, <2>1, Zenon DEF AcceptedOK
<1>8. RunningOK'
  <2>1. running => mapping = m /\ \A l \in Legs : Uses(l, remote[l], mapping)
    BY <1>3, Zenon DEF EInv, RunningOK, Allowed
  <2>2. running => \A l \in Legs : Uses(l, remote'[l], mapping)
    BY <1>2, <1>3, <2>1, Zenon
  <2> QED
    BY <1>1, <2>2, Zenon DEF EInv, RunningOK
<1>9. SaidOK' /\ \A l \in Legs : PacketOK(l)'
  <2>1. SaidOK'
    BY <1>1, Zenon DEF EInv, SaidOK, BodiesOK
  <2> QED
    BY <1>1, <2>1, PacketsKept, Zenon
<1> QED
  BY <1>7, <1>8, <1>9, Zenon DEF EInv

\* The answer for the caller lists the payload types that the mapping has for it.
LEMMA AnswerFormats ==
  ASSUME NEW m, NEW host, NEW port, NEW direction, NEW body,
         body = BuildAudio(host, port, CodecListForAnswer(m), direction),
         NEW i \in DOMAIN body.formats
  PROVE  \/ body.formats[i] = m.callerPT
         \/ m.hasDTMF /\ body.formats[i] = m.callerDTMF
<1> DEFINE c == CodecListForAnswer(m)
           w == Supported(c)
<1>1. body.formats = [j \in DOMAIN w |-> w[j].pt]
  BY Zenon DEF BuildAudio
<1>2. i \in DOMAIN c /\ body.formats[i] = c[i].pt
  BY <1>1, Zenon DEF Supported, Restrict
<1>3. CASE m.hasDTMF
  <2> DEFINE p == [name |-> m.name, pt |-> m.callerPT]
             q == [name |-> TelephoneEvent, pt |-> m.callerDTMF]
  <2>1. c = <<p>> \o <<q>>
    BY <1>3, Zenon DEF CodecListForAnswer
  <2>2. p.pt = m.callerPT /\ q.pt = m.callerDTMF
    BY Zenon
  <2> HIDE DEF p, q, c
  <2>3. c[i] = p \/ c[i] = q
    BY <1>2, <2>1
  <2> QED
    BY <1>2, <1>3, <2>2, <2>3, Zenon
<1>4. CASE ~m.hasDTMF
  <2>1. c = <<[name |-> m.name, pt |-> m.callerPT]>>
    BY <1>4 DEF CodecListForAnswer
  <2> QED
    BY <1>2, <2>1
<1> QED
  BY <1>3, <1>4, Zenon

\* The answer is built and the loops start: both remotes use the mapping.
LEMMA BuiltEnc ==
  ASSUME MInv, EInv, AnswerBuilt
  PROVE  EInv'
<1>1. /\ task.at = "answer" /\ mapping' = task.mapping /\ running' /\ task' = NoTask
      /\ answer' = BuildAudio("pbx", 2, CodecListForAnswer(mapping'),
                              remote["callee"].direction)
      /\ UNCHANGED <<offer, said, remote, loop>>
  BY Zenon DEF AnswerBuilt, endpoints
<1>2. /\ Allowed(mapping', said) /\ mapping \in {NoMapping, mapping'}
      /\ Uses("caller", remote["caller"], mapping')
      /\ Uses("callee", remote["callee"], mapping')
  BY <1>1, Zenon DEF EInv, AcceptedOK
<1>3. running => mapping' = mapping
  BY <1>2, Zenon DEF EInv, RunningOK, Allowed
<1>4. RunningOK'
  <2>1. \A i \in DOMAIN answer'.formats :
          \/ answer'.formats[i] = mapping'.callerPT
          \/ mapping'.hasDTMF /\ answer'.formats[i] = mapping'.callerDTMF
    BY <1>1, AnswerFormats
  <2>2. \A l \in Legs : Uses(l, remote'[l], mapping')
    BY <1>1, <1>2, Zenon DEF Legs
  <2> QED
    BY <1>1, <1>2, <2>1, <2>2, Zenon DEF RunningOK
<1>5. AcceptedOK'
  BY <1>1, Zenon DEF AcceptedOK, NoTask
<1>6. \A l \in Legs : PacketOK(l)'
  BY <1>1, <1>3, PacketsKept, Zenon
<1>7. SaidOK'
  BY <1>1, Zenon DEF EInv, SaidOK, BodiesOK
<1> QED
  BY <1>4, <1>5, <1>6, <1>7, Zenon DEF EInv

\* A step of one loop that leaves the configuration alone concerns its packet only.
LEMMA OneLoopEnc ==
  ASSUME MInv, EInv, UNCHANGED <<offer, mapping, answer, task, running, said, remote>>,
         NEW l \in Legs, NEW r, loop' = [loop EXCEPT ![l] = r], PacketOK(l)'
  PROVE  EInv'
<1>1. \A k \in Legs : k # l => loop'[k] = loop[k]
  BY Zenon DEF MInv, ShapeOK
<1>2. \A k \in Legs : k # l => PacketOK(k)'
  BY <1>1, Zenon DEF EInv, PacketOK
<1>3. SaidOK' /\ AcceptedOK' /\ RunningOK'
  BY Zenon DEF EInv, SaidOK, BodiesOK, AcceptedOK, RunningOK
<1> QED
  BY <1>2, <1>3, Zenon DEF EInv

\* The loop takes a packet with a payload type that its peer has announced.
LEMMA ReadEnc ==
  ASSUME MInv, EInv, NEW l \in Legs, Read(l)
  PROVE  EInv'
<1>1. running /\ UNCHANGED <<offer, mapping, answer, task, running, said, remote>>
  BY Zenon DEF Read, At, signal, endpoints
<1>2. PICK b \in said[l] : \E i \in DOMAIN b.formats :
        loop' = [loop EXCEPT ![l] = [Idle EXCEPT !.at = "source", !.clean = task.at = "idle",
                   !.packet = [from |-> <<b.host, b.from>>, pt |-> b.formats[i],
                               name |-> Encoding(b, b.formats[i])]]]
  BY Zenon DEF Read
<1>3. PICK i \in DOMAIN b.formats :
        loop' = [loop EXCEPT ![l] = [Idle EXCEPT !.at = "source", !.clean = task.at = "idle",
                   !.packet = [from |-> <<b.host, b.from>>, pt |-> b.formats[i],
                               name |-> Encoding(b, b.formats[i])]]]
  BY <1>2, Zenon
<1> DEFINE p == [from |-> <<b.host, b.from>>, pt |-> b.formats[i],
                 name |-> Encoding(b, b.formats[i])]
           c == task.at = "idle"
           r == WithPacket(Idle, "source", c, p)
<1>4. Says(said[l], p.pt, p.name)
  <2>1. p.pt = b.formats[i] /\ p.name = Encoding(b, b.formats[i])
    BY Zenon
  <2> QED
    BY <2>1, Zenon DEF Says, Listed
<1>5. loop' = [loop EXCEPT ![l] = [Idle EXCEPT !.at = "source", !.clean = c, !.packet = p]]
  BY <1>3, Zenon
<1> HIDE DEF c, p
<1>6. loop' = [loop EXCEPT ![l] = r]
  BY <1>5 DEF WithPacket
<1>7. r.at = "source" /\ r.packet = p
  <2>1. LoopOK(Idle)
    BY Zenon DEF LoopOK, Idle
  <2> QED
    BY <2>1, FreshRecord
<1> HIDE DEF r
<1>8. loop'[l] = r
  BY <1>6, Zenon DEF MInv, ShapeOK
<1>9. PacketOK(l)'
  <2>1. /\ loop'[l].at = "source" /\ running'
        /\ Says(said'[l], loop'[l].packet.pt, loop'[l].packet.name)
    BY <1>1, <1>4, <1>7, <1>8, Zenon
  <2> QED
    BY <2>1, Zenon DEF PacketOK, Mapped
<1> QED
  BY <1>1, <1>6, <1>9, OneLoopEnc, Zenon

\* The packet is dropped, or goes on to a place where no more is due of it.
LEMMA DropGotoEnc ==
  ASSUME MInv, EInv, UNCHANGED <<offer, mapping, answer, task, running, said, remote>>,
         NEW l \in Legs, NEW w, Drop(l) \/ Goto(l, w), loop[l].at # "read",
         \/ w \in {"swap", "reload", "remote"}
         \/ w \in Mapped /\ loop[l].at \in Mapped
  PROVE  EInv'
<1>1. CASE Drop(l)
  <2>1. loop' = [loop EXCEPT ![l] = Idle] /\ loop'[l].at = "read"
    BY <1>1, Zenon DEF Drop, Idle, MInv, ShapeOK
  <2> QED
    BY <2>1, OneLoopEnc, Zenon DEF PacketOK
<1>2. CASE Goto(l, w)
  <2> DEFINE r == [at |-> w, packet |-> loop[l].packet, seen |-> loop[l].seen,
                   out |-> loop[l].out, target |-> loop[l].target,
                   clean |-> loop[l].clean]
  <2>1. LoopOK(loop[l]) /\ loop' = [loop EXCEPT ![l] = [loop[l] EXCEPT !.at = w]]
    BY <1>2 DEF Goto, MInv, ShapeOK
  <2>2. [loop[l] EXCEPT !.at = w] = r
    BY <2>1 DEF LoopOK
  <2>3. r.at = w /\ r.packet = loop[l].packet /\ r.out = loop[l].out
    BY Zenon
  <2> HIDE DEF r
  <2>4. loop' = [loop EXCEPT ![l] = r] /\ loop'[l] = r
    BY <2>1, <2>2, Zenon DEF MInv, ShapeOK
  <2>5. w \notin {"mapping", "invalid"}
    BY Zenon DEF Mapped
  <2>6. PacketOK(l)'
    <3>1. PacketOK(l)
      BY Zenon DEF EInv
    <3>2. w \in Mapped => loop[l].at \in Mapped
      BY Zenon DEF Mapped
    <3> QED
      BY <2>3, <2>4, <2>5, <3>1, <3>2, Zenon DEF PacketOK
  <2> QED
    BY <2>4, <2>6, OneLoopEnc, Zenon
<1> QED
  BY <1>1, <1>2, Zenon

\* The loop loads the two remotes, maps the payload type between them, and
\* computes the target.
LEMMA LoadingEnc ==
  ASSUME MInv, EInv, NEW l \in Legs,
         \/ SourceChecked(l) \/ RemoteLoaded(l) \/ PayloadMapped(l)
         \/ TargetRemote(l) \/ TargetPort(l)
  PROVE  EInv'
<1>1. UNCHANGED <<offer, mapping, answer, task, running, said, remote>>
  BY Zenon DEF SourceChecked, RemoteLoaded, PayloadMapped, TargetRemote, TargetPort,
               signal, endpoints
<1>2. LoopOK(loop[l]) /\ loop = [k \in Legs |-> loop[k]] /\ loop[l].at # "read"
  BY Zenon DEF MInv, ShapeOK, SourceChecked, RemoteLoaded, PayloadMapped, TargetRemote,
         TargetPort, At
<1>3. CASE Drop(l)
  BY <1>1, <1>2, <1>3, DropGotoEnc, Zenon
<1>4. /\ running /\ Says(said[l], loop[l].packet.pt, loop[l].packet.name)
      /\ loop[l].at = "mapping" => Uses(l, loop[l].seen, mapping)
      /\ loop[l].at \in Mapped =>
           Says(said[Other(l)], loop[l].out, loop[l].packet.name)
  BY <1>2, Zenon DEF EInv, PacketOK
<1>5. Allowed(mapping, said) /\ \A k \in Legs : Uses(k, remote[k], mapping)
  BY <1>4, Zenon DEF EInv, RunningOK
<1>6. ASSUME NEW q, NEW w, loop' = [loop EXCEPT ![l] = q], Continues(q, loop[l], w),
             w = "mapping" => Uses(l, q.seen, mapping),
             w \in Mapped => Says(said[Other(l)], q.out, loop[l].packet.name),
             w = "invalid" =>
               /\ loop[l].packet.pt # AudioPT(l, mapping)
               /\ ~(mapping.hasDTMF /\ loop[l].packet.pt = EventPT(l, mapping))
      PROVE  EInv'
  <2>1. loop'[l] = q
    BY <1>2, <1>6, Zenon
  <2>2. PacketOK(l)'
    BY <1>1, <1>4, <1>6, <2>1, Zenon DEF PacketOK, Continues
  <2> QED
    BY <1>1, <1>6, <2>2, OneLoopEnc, Zenon
<1>7. CASE ~Drop(l)
  <2>1. CASE loop' = [loop EXCEPT ![l] = WithSeen(loop[l], "learned", remote[l])]
    <3>1. Continues(WithSeen(loop[l], "learned", remote[l]), loop[l], "learned")
      BY <1>2, RecordStep, Zenon
    <3> QED
      BY <1>6, <2>1, <3>1, Zenon DEF Mapped
  <2>2. CASE loop' = [loop EXCEPT ![l] = WithSeen(loop[l], "mapping", remote[l])]
    <3>1. /\ Continues(WithSeen(loop[l], "mapping", remote[l]), loop[l], "mapping")
          /\ WithSeen(loop[l], "mapping", remote[l]).seen = remote[l]
      BY <1>2, RecordStep
    <3> QED
      BY <1>5, <1>6, <2>2, <3>1, Zenon DEF Mapped
  <2>3. ASSUME loop[l].at = "mapping", NEW o, NEW w,
               o = payloadMapping(loop[l].packet.pt, loop[l].seen, remote[Other(l)]),
               w = IF o = -1 THEN "invalid" ELSE "canSend",
               loop' = [loop EXCEPT ![l] = WithOut(loop[l], w, o)]
        PROVE  EInv'
    <3> DEFINE q == WithOut(loop[l], w, o)
    <3>1. Continues(q, loop[l], w) /\ q.out = o
      BY <1>2, RecordStep
    <3> HIDE DEF q
    <3>2. Other(l) \in Legs /\ SaidOK
      BY DEF Other, Legs, EInv
    <3>3. /\ o # -1 => Says(said[Other(l)], o, loop[l].packet.name)
          /\ o = -1 =>
               /\ loop[l].packet.pt # AudioPT(l, mapping)
               /\ ~(mapping.hasDTMF /\ loop[l].packet.pt = EventPT(l, mapping))
      BY <1>4, <1>5, <2>3, <3>2, PayloadKept, Zenon
    <3>4. /\ w # "mapping" /\ (w \in Mapped => o # -1) /\ (w = "invalid" => o = -1)
      BY <2>3, Zenon DEF Mapped
    <3>5. loop' = [loop EXCEPT ![l] = q]
      BY <2>3, Zenon DEF q
    <3> QED
      BY <1>6, <3>1, <3>3, <3>4, <3>5, Zenon
  <2>4. ASSUME loop[l].at \in {"target", "port"}, NEW g, NEW w \in {"port", "write"},
               loop' = [loop EXCEPT ![l] = WithTarget(loop[l], w, g)]
        PROVE  EInv'
    <3> DEFINE q == WithTarget(loop[l], w, g)
    <3>1. Continues(q, loop[l], w) /\ q.out = loop[l].out
      BY <1>2, RecordStep
    <3> HIDE DEF q
    <3>2. loop[l].at \in Mapped /\ w \notin {"mapping", "invalid"}
      BY <2>4, Zenon DEF Mapped
    <3>3. loop' = [loop EXCEPT ![l] = q]
      BY <2>4, Zenon DEF q
    <3> QED
      BY <1>4, <1>6, <3>1, <3>2, <3>3, Zenon
  <2>5. \/ loop' = [loop EXCEPT ![l] = WithSeen(loop[l], "learned", remote[l])]
        \/ loop' = [loop EXCEPT ![l] = WithSeen(loop[l], "mapping", remote[l])]
        \/ /\ loop[l].at = "mapping"
           /\ \E o, w :
                /\ o = payloadMapping(loop[l].packet.pt, loop[l].seen, remote[Other(l)])
                /\ w = IF o = -1 THEN "invalid" ELSE "canSend"
                /\ loop' = [loop EXCEPT ![l] = WithOut(loop[l], w, o)]
        \/ /\ loop[l].at \in {"target", "port"}
           /\ \E g : \E w \in {"port", "write"} :
                loop' = [loop EXCEPT ![l] = WithTarget(loop[l], w, g)]
    BY <1>7, LoadedRecord, Zenon
  <2> QED
    BY <2>1, <2>2, <2>3, <2>4, <2>5, Zenon
<1> QED
  BY <1>3, <1>7, Zenon

\* The loop decides about the packet, or pins the port it came from.
LEMMA DecidingEnc ==
  ASSUME MInv, EInv, NEW l \in Legs,
         \/ LearnedLoaded(l) \/ PortLearned(l) \/ LearnedReloaded(l)
         \/ PayloadRefused(l) \/ SendChecked(l) \/ ReceiveChecked(l) \/ Written(l)
  PROVE  EInv'
<1>1. UNCHANGED <<offer, mapping, answer, task, running, said, remote>>
  BY Zenon DEF LearnedLoaded, PortLearned, LearnedReloaded, PayloadRefused, SendChecked,
               ReceiveChecked, Written, signal, endpoints
<1>2. PICK w : /\ Drop(l) \/ Goto(l, w)
               /\ loop[l].at # "read"
               /\ \/ w \in {"swap", "reload", "remote"}
                  \/ w \in {"canReceive", "target"} /\ loop[l].at \in {"canSend", "canReceive"}
  BY Zenon DEF LearnedLoaded, PortLearned, LearnedReloaded, PayloadRefused, SendChecked,
         ReceiveChecked, Written, At
<1>3. \/ w \in {"swap", "reload", "remote"}
      \/ w \in Mapped /\ loop[l].at \in Mapped
  BY <1>2, Zenon DEF Mapped
<1> QED
  BY <1>1, <1>2, <1>3, DropGotoEnc, Zenon

\* The invariant of the encodings, however the packets of the two loops interleave
\* with Session.Configure replacing one remote after the other.
THEOREM EncodingInvariant == Spec => []EInv
<1>1. MInv /\ EInv /\ [Next]_vars => EInv'
  <2> SUFFICES ASSUME MInv, EInv, [Next]_vars PROVE EInv'
    OBVIOUS
  <2>1. CASE \/ \E b \in CalleeBodies : InviteAnswered(b)
             \/ \E o \in CallerBodies, b \in CalleeBodies : ReInviteAnswered(o, b)
    BY <2>1, AnsweredEnc, Zenon
  <2>2. CASE ConfigureLoad \/ ConfigureReset \/ ConfigureStore \/ AnswerBuilt
    BY <2>2, LoadResetEnc, StoreEnc, BuiltEnc, Zenon
  <2>3. ASSUME NEW l \in Legs, Forward(l) PROVE EInv'
    BY <2>3, ReadEnc, LoadingEnc, DecidingEnc, Zenon DEF Forward
  <2>4. CASE UNCHANGED vars
    BY <2>4, Zenon DEF EInv, SaidOK, BodiesOK, AcceptedOK, RunningOK, PacketOK, vars,
                       signal, endpoints
  <2> QED
    BY <2>1, <2>2, <2>3, <2>4, Zenon DEF Next
<1> QED
  BY <1>1, EncInit, MediaInvariant, PTL DEF Spec

\* A packet leaves with the payload type that its receiver announced for the
\* encoding it has, and no payload type of the answer built for the caller is
\* refused, for any descriptions in which a payload type keeps its meaning.
THEOREM EncodingsAreKept == Spec => []EncodingsKept
<1>1. EInv => EncodingsKept
  <2> SUFFICES ASSUME EInv PROVE EncodingsKept
    OBVIOUS
  <2>1. ASSUME NEW l \in Legs, loop[l].at \in Mapped
        PROVE  Meaning(Other(l), loop[l].out) = {loop[l].packet.name}
    <3>1. Other(l) \in Legs /\ loop[l].at # "read"
      BY <2>1, Zenon DEF Other, Legs, Mapped
    <3>2. Says(said[Other(l)], loop[l].out, loop[l].packet.name)
      BY <2>1, <3>1, Zenon DEF EInv, PacketOK
    <3> QED
      BY <3>1, <3>2, OneMeaning, Zenon DEF EInv
  <2>2. ASSUME loop["caller"].at = "invalid", answer # NoAudio,
               NEW i \in DOMAIN answer.formats
        PROVE  answer.formats[i] # loop["caller"].packet.pt
    <3>1. /\ loop["caller"].packet.pt # mapping.callerPT
          /\ ~(mapping.hasDTMF /\ loop["caller"].packet.pt = mapping.callerDTMF)
      BY <2>2, Zenon DEF EInv, PacketOK, AudioPT, EventPT, Legs
    <3>2. \/ answer.formats[i] = mapping.callerPT
          \/ mapping.hasDTMF /\ answer.formats[i] = mapping.callerDTMF
      BY <2>2, Zenon DEF EInv, RunningOK
    <3> QED
      BY <3>1, <3>2, Zenon
  <2> QED
    BY <2>1, <2>2, Zenon DEF EncodingsKept, Mapped
<1> QED
  BY <1>1, EncodingInvariant, PTL
=============================================================================
