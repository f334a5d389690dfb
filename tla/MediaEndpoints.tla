--------------------------- MODULE MediaEndpoints ---------------------------
(***************************************************************************)
(* The two endpoints of a media session: applyMediaAnswer of the B2BUA     *)
(* negotiates and configures them (Session.Configure, endpoint.configure)  *)
(* while the packet loops (forwardRTP, acceptsRTP, rtpTarget) read them.   *)
(*                                                                         *)
(* Every load, store or compare-and-swap of an atomic field is one step.   *)
(* Packets come from addresses that the peer of the leg has announced: the *)
(* current one, or an earlier one when they were under way.  A body also   *)
(* has the port its packets really come from (from), which a NAT may have  *)
(* changed.  Statistics, DTMF payloads and the renumbering of packets are  *)
(* in other modules or left out; so is RTCP, whose acceptsRTCP is the code *)
(* of acceptsRTP over the other port.                                      *)
(***************************************************************************)
EXTENDS Sdp, FiniteSets

CONSTANTS
  CallerBodies,   \* descriptions the caller may offer
  CalleeBodies,   \* descriptions the callee may answer with
  MaxAnswers,     \* bound on the number of answers
  MaxPackets      \* bound on the number of packets that arrive

Legs == {"caller", "callee"}
Other(l) == IF l = "caller" THEN "callee" ELSE "caller"

\* Payload types are unsigned, and a peer does not change the meaning of one
\* during a call.
ASSUME BodiesAssumption ==
  /\ MaxAnswers \in Nat /\ MaxPackets \in Nat
  /\ \A bodies \in {CallerBodies, CalleeBodies} : \A b, c \in bodies :
       /\ b.formats \in Seq(Nat)
       /\ \A pt \in Listed(b) \cap Listed(c) : Encoding(b, pt) = Encoding(c, pt)

VARIABLES
  offer,      \* session.callerOffer
  mapping,    \* session.mediaMapping
  answer,     \* session.callerAnswer
  task,       \* where applyMediaAnswer is, and what it configures
  remote,     \* endpoint.remote
  learned,    \* endpoint.learnedRTPPort
  running,    \* startMedia has started the loops
  loop,       \* per source leg: forwardRTP
  said,       \* the bodies each peer has sent (history)
  pinner,     \* the address whose packet set learned (history)
  crossed,    \* that packet overlapped a configure (history)
  answers, packets

signal == <<offer, mapping, answer, task, running, said, answers>>
endpoints == <<remote, learned>>
history == <<pinner, crossed>>
vars == <<signal, endpoints, loop, history, packets>>

Nowhere == <<"", 0>>
Unset == [rtp |-> Nowhere, rtcp |-> Nowhere, audioPT |-> 0, dtmfPT |-> 0,
          hasDTMF |-> FALSE, direction |-> ""]
NoTask == [at |-> "idle"]
NoPacket == [from |-> Nowhere, pt |-> 0, name |-> ""]
\* clean: no Configure has been active since the packet was read.
Idle == [at |-> "read", packet |-> NoPacket, seen |-> Unset, out |-> 0,
         target |-> Nowhere, clean |-> TRUE]

Init ==
  /\ \E b \in CallerBodies :
       /\ offer = ParseAudio(b) /\ offer # NoAudio
       /\ said = [caller |-> {b}, callee |-> {}]
  /\ mapping = NoMapping /\ answer = NoAudio
  /\ task = NoTask /\ running = FALSE
  /\ remote = [l \in Legs |-> Unset] /\ learned = [l \in Legs |-> 0]
  /\ loop = [l \in Legs |-> Idle]
  /\ pinner = [l \in Legs |-> Nowhere] /\ crossed = [l \in Legs |-> FALSE]
  /\ answers = 0 /\ packets = 0

-----------------------------------------------------------------------------
(* applyMediaAnswer and Session.Configure, in the goroutine of the call.   *)

Config(endpoint, pt, dtmf, hasDTMF) ==
  [rtp |-> endpoint.rtp, rtcp |-> endpoint.rtcp, audioPT |-> pt,
   dtmfPT |-> dtmf, hasDTMF |-> hasDTMF, direction |-> endpoint.direction]

\* Mutant: a changed mapping is accepted.
MappingAnyKept(m) == m # NoMapping

\* The callee may not change the mapping of an earlier answer.
MappingKept(m) == m # NoMapping /\ mapping \in {NoMapping, m}

applyMediaAnswer(o, b) ==
  LET a == ParseAudio(b)
      m == IF a = NoAudio THEN NoMapping ELSE Negotiate(o, a)
  IN  IF MappingKept(m)
        THEN /\ task' = [at |-> "load", leg |-> "caller", mapping |-> m,
                         caller |-> Config(o, m.callerPT, m.callerDTMF, m.hasDTMF),
                         callee |-> Config(a, m.calleePT, m.calleeDTMF, m.hasDTMF)]
             /\ offer' = o
             /\ loop' = [l \in Legs |-> [loop[l] EXCEPT !.clean = FALSE]]
        ELSE UNCHANGED <<task, offer, loop>>

\* A 183 or the 200 to the INVITE carries the callee's answer.
InviteAnswered(b) ==
  /\ task.at = "idle" /\ answers < MaxAnswers
  /\ answers' = answers + 1
  /\ said' = [said EXCEPT !["callee"] = @ \cup {b}]
  /\ applyMediaAnswer(offer, b)
  /\ UNCHANGED <<mapping, answer, running, endpoints, history, packets>>

\* A re-INVITE of the caller that the callee has accepted; when the answer
\* cannot be used, callerOffer is restored.
ReInviteAnswered(o, b) ==
  /\ task.at = "idle" /\ running /\ answers < MaxAnswers
  /\ ParseAudio(o) # NoAudio
  /\ answers' = answers + 1
  /\ said' = [caller |-> said["caller"] \cup {o},
              callee |-> said["callee"] \cup {b}]
  /\ applyMediaAnswer(ParseAudio(o), b)
  /\ UNCHANGED <<mapping, answer, running, endpoints, history, packets>>

Step(where) == task' = [task EXCEPT !.at = where]

Moved(l) == remote[l].rtp # task[l].rtp \/ remote[l].rtcp # task[l].rtcp

\* Mutant: a changed address does not reset the learned port.
ConfigureLoadKeeps ==
  /\ task.at = "load"
  /\ Step("store")
  /\ UNCHANGED <<offer, mapping, answer, running, said, answers, endpoints, loop,
                 history, packets>>

\* configure loads the current remote and compares.
ConfigureLoad ==
  /\ task.at = "load"
  /\ Step(IF Moved(task.leg) THEN "reset" ELSE "store")
  /\ UNCHANGED <<offer, mapping, answer, running, said, answers, endpoints, loop,
                 history, packets>>

\* learnedRTPPort.Store(0).
ConfigureReset ==
  /\ task.at = "reset"
  /\ learned' = [learned EXCEPT ![task.leg] = 0]
  /\ pinner' = [pinner EXCEPT ![task.leg] = Nowhere]
  /\ crossed' = [crossed EXCEPT ![task.leg] = FALSE]
  /\ Step("store")
  /\ UNCHANGED <<offer, mapping, answer, running, said, answers, remote, loop,
                 packets>>

\* remote.Store; then the callee is configured.
ConfigureStore ==
  /\ task.at = "store"
  /\ remote' = [remote EXCEPT ![task.leg] = task[task.leg]]
  /\ task' = IF task.leg = "caller"
               THEN [task EXCEPT !.at = "load", !.leg = "callee"]
               ELSE [task EXCEPT !.at = "answer"]
  /\ UNCHANGED <<offer, mapping, answer, running, said, answers, learned, loop,
                 history, packets>>

\* The answer for the caller is built, and the loops are started once.
AnswerBuilt ==
  /\ task.at = "answer"
  /\ mapping' = task.mapping
  /\ answer' = BuildAudio("pbx", 2, CodecListForAnswer(task.mapping),
                          remote["callee"].direction)
  /\ running' = TRUE
  /\ task' = NoTask
  /\ UNCHANGED <<offer, said, answers, endpoints, loop, history, packets>>

-----------------------------------------------------------------------------
(* forwardRTP: the loop that reads from leg l and writes to the other leg. *)

At(l, where) == running /\ loop[l].at = where

Goto(l, where) == loop' = [loop EXCEPT ![l].at = where]

Drop(l) == loop' = [loop EXCEPT ![l] = Idle]

\* A packet of the peer, from an address and with a payload type it announced.
Read(l) ==
  /\ At(l, "read") /\ packets < MaxPackets
  /\ packets' = packets + 1
  /\ \E b \in said[l] : \E i \in DOMAIN b.formats :
       loop' = [loop EXCEPT ![l] =
         [Idle EXCEPT !.at = "source", !.clean = task.at = "idle",
            !.packet = [from |-> <<b.host, b.from>>, pt |-> b.formats[i],
                        name |-> Encoding(b, b.formats[i])]]]
  /\ UNCHANGED <<signal, endpoints, history>>

\* acceptsRTP loads remote and compares the host.
SourceChecked(l) ==
  /\ At(l, "source")
  /\ IF loop[l].packet.from[1] = remote[l].rtp[1]
       THEN loop' = [loop EXCEPT ![l].at = "learned", ![l].seen = remote[l]]
       ELSE Drop(l)
  /\ UNCHANGED <<signal, endpoints, history, packets>>

\* acceptsRTP loads learnedRTPPort: compare, or try to set it.
LearnedLoaded(l) ==
  /\ At(l, "learned")
  /\ IF learned[l] = 0 THEN Goto(l, "swap")
     ELSE IF learned[l] = loop[l].packet.from[2] THEN Goto(l, "remote")
     ELSE Drop(l)
  /\ UNCHANGED <<signal, endpoints, history, packets>>

\* CompareAndSwap.  The overlap with configure is recorded.
PortLearned(l) ==
  /\ At(l, "swap")
  /\ Goto(l, "reload")
  /\ IF learned[l] = 0
       THEN /\ learned' = [learned EXCEPT ![l] = loop[l].packet.from[2]]
            /\ pinner' = [pinner EXCEPT ![l] = loop[l].packet.from]
            /\ crossed' = [crossed EXCEPT ![l] =
                 \/ loop[l].seen.rtp # remote[l].rtp
                 \/ task.at = "store" /\ task.leg = l]
       ELSE UNCHANGED <<learned, history>>
  /\ UNCHANGED <<signal, remote, packets>>

\* acceptsRTP loads learnedRTPPort again.
LearnedReloaded(l) ==
  /\ At(l, "reload")
  /\ IF learned[l] = loop[l].packet.from[2] THEN Goto(l, "remote") ELSE Drop(l)
  /\ UNCHANGED <<signal, endpoints, history, packets>>

\* forwardRTP parses the packet and loads source.remote.
RemoteLoaded(l) ==
  /\ At(l, "remote")
  /\ \/ loop' = [loop EXCEPT ![l].at = "mapping", ![l].seen = remote[l]]
     \/ Drop(l)
  /\ UNCHANGED <<signal, endpoints, history, packets>>

payloadMapping(pt, source, destination) ==
  IF pt = source.audioPT THEN destination.audioPT
  ELSE IF source.hasDTMF /\ destination.hasDTMF /\ pt = source.dtmfPT
    THEN destination.dtmfPT
  ELSE -1

\* forwardRTP loads destination.remote and maps the payload type.
PayloadMapped(l) ==
  /\ At(l, "mapping")
  /\ LET out == payloadMapping(loop[l].packet.pt, loop[l].seen, remote[Other(l)])
     IN  loop' = [loop EXCEPT ![l].at = IF out = -1 THEN "invalid" ELSE "canSend",
                              ![l].out = out]
  /\ UNCHANGED <<signal, endpoints, history, packets>>

\* invalidPackets.Add and the next read.
PayloadRefused(l) ==
  /\ At(l, "invalid")
  /\ Drop(l)
  /\ UNCHANGED <<signal, endpoints, history, packets>>

canSend(config) == config.direction \in {"sendrecv", "sendonly"}
canReceive(config) == config.direction \in {"sendrecv", "recvonly"}

\* Observe may call the packet a duplicate; otherwise canSend is asked.
SendChecked(l) ==
  /\ At(l, "canSend")
  /\ \/ Drop(l)
     \/ canSend(remote[l]) /\ Goto(l, "canReceive")
  /\ UNCHANGED <<signal, endpoints, history, packets>>

\* Mutant: the directions of the two legs are not both asked.
ReceiveUnchecked(l) ==
  /\ At(l, "canReceive")
  /\ Goto(l, "target")
  /\ UNCHANGED <<signal, endpoints, history, packets>>

\* canReceive; a telephone-event that cannot be decoded is dropped as well.
ReceiveChecked(l) ==
  /\ At(l, "canReceive")
  /\ IF canReceive(remote[Other(l)])
       THEN Goto(l, "target") \/ (loop[l].packet.name = TelephoneEvent /\ Drop(l))
       ELSE Drop(l)
  /\ UNCHANGED <<signal, endpoints, history, packets>>

\* rtpTarget loads remote ...
TargetRemote(l) ==
  /\ At(l, "target")
  /\ loop' = [loop EXCEPT ![l].at = "port", ![l].target = remote[Other(l)].rtp]
  /\ UNCHANGED <<signal, endpoints, history, packets>>

\* ... and then learnedRTPPort.
TargetPort(l) ==
  /\ At(l, "port")
  /\ LET port == learned[Other(l)]
     IN  loop' = [loop EXCEPT ![l].at = "write",
                    ![l].target = IF port = 0 THEN @ ELSE <<@[1], port>>]
  /\ UNCHANGED <<signal, endpoints, history, packets>>

\* WriteToUDPAddrPort, and the next read.
Written(l) ==
  /\ At(l, "write")
  /\ Drop(l)
  /\ UNCHANGED <<signal, endpoints, history, packets>>

Forward(l) ==
  \/ Read(l) \/ SourceChecked(l) \/ LearnedLoaded(l) \/ PortLearned(l)
  \/ LearnedReloaded(l) \/ RemoteLoaded(l) \/ PayloadMapped(l)
  \/ PayloadRefused(l) \/ SendChecked(l) \/ ReceiveChecked(l)
  \/ TargetRemote(l) \/ TargetPort(l) \/ Written(l)

Next ==
  \/ \E b \in CalleeBodies : InviteAnswered(b)
  \/ \E o \in CallerBodies, b \in CalleeBodies : ReInviteAnswered(o, b)
  \/ ConfigureLoad \/ ConfigureReset \/ ConfigureStore \/ AnswerBuilt
  \/ \E l \in Legs : Forward(l)

Spec == Init /\ [][Next]_vars

-----------------------------------------------------------------------------
(* Properties.                                                             *)

\* What the descriptions of the peer that list the payload type say it is.
Meaning(l, pt) == {Encoding(b, pt) : b \in {c \in said[l] : pt \in Listed(c)}}

\* A packet leaves with the payload type that its receiver announced for the
\* encoding it really has, also when a Configure replaces the two legs one
\* after the other around it (applyMediaAnswer refuses a changed mapping).  And
\* the payload types in the answer built for the caller are ones the loops
\* accept: a packet of the caller that uses one is never counted as invalid.
EncodingsKept ==
  /\ \A l \in Legs :
       loop[l].at \in {"canSend", "canReceive", "target", "port", "write"} =>
         Meaning(Other(l), loop[l].out) = {loop[l].packet.name}
  /\ loop["caller"].at = "invalid" /\ answer # NoAudio =>
       \A i \in DOMAIN answer.formats : answer.formats[i] # loop["caller"].packet.pt

\* A packet that was read after the last Configure had returned is written only
\* if its sender may send, its receiver may receive, and to the receiver's host.
HoldObeyed ==
  \A l \in Legs : loop[l].at = "write" /\ loop[l].clean =>
    /\ canSend(remote[l]) /\ canReceive(remote[Other(l)])
    /\ loop[l].target[1] = remote[Other(l)].rtp[1]

\* The pinned port was learned from the host that the peer's latest
\* description names, except when the packet it was learned from overlapped
\* the Configure that replaced the host.
PinnedFromPeer ==
  \A l \in Legs : task.at = "idle" /\ learned[l] # 0 /\ ~crossed[l] =>
    pinner[l][1] = remote[l].rtp[1]
=============================================================================
