----------------------------- MODULE RtpTracker -----------------------------
(***************************************************************************)
(* The receive statistics of one RTP stream: Tracker.Observe of            *)
(* internal/media/rtp/stats.go, checked against what the sender knows.     *)
(*                                                                         *)
(* The sender numbers its packets 0, 1, 2, ...; a packet carries that      *)
(* number modulo SeqModulus (65536 in the code).  Packets are lost,        *)
(* reordered and repeated, but one that is further than half the modulus   *)
(* from the newest cannot be told apart by any receiver and does not       *)
(* arrive.  Jitter and byte counts are left out.                           *)
(***************************************************************************)
EXTENDS Integers, FiniteSets

CONSTANTS
  SeqModulus,  \* number of sequence numbers
  Window,      \* sequenceWindow
  Starts,      \* numbers of the first packet
  MaxPackets   \* bound on the number of packets that arrive

ASSUME TrackerAssumption ==
  /\ Window \in Nat \ {0} /\ MaxPackets \in Nat
  /\ SeqModulus \in Nat /\ SeqModulus % (2 * Window) = 0 /\ SeqModulus > 0
  /\ Starts \subseteq 0..(SeqModulus - 1)

NoSeq == -1     \* seenValid is false

VARIABLES
  started, ssrc, maxSeq, cycles,  \* the fields of Tracker
  seen,                           \* seen and seenValid
  lost, ssrcChanges, packets,     \* counters of publishedStats
  lastSequence,                   \* publishedStats.lastSequence
  class,                          \* what Observe returned
  first, top, last, got,          \* the sender's numbers: of the first packet,
                                  \* the newest, the last, all (history)
  other,                          \* a packet of another stream arrived
  fooled,                         \* a fresh packet was taken for a repeat
  stale                           \* a packet older than the window arrived

tracker == <<started, ssrc, maxSeq, cycles, seen, lost, ssrcChanges, packets,
             lastSequence, class>>
history == <<first, top, last, got, other, fooled, stale>>
vars == <<tracker, history>>

Init ==
  /\ started = FALSE /\ ssrc = 0 /\ maxSeq = 0 /\ cycles = 0
  /\ seen = [i \in 0..(Window - 1) |-> NoSeq]
  /\ lost = 0 /\ ssrcChanges = 0 /\ packets = 0
  /\ lastSequence = 0 /\ class = "none"
  /\ first = 0 /\ top = 0 /\ last = 0 /\ got = {}
  /\ other = FALSE /\ fooled = FALSE /\ stale = FALSE

-----------------------------------------------------------------------------
\* int16(seq - max): the difference as a signed number of the same width.
Delta(seq, max) ==
  LET d == (seq - max) % SeqModulus
  IN  IF d < SeqModulus \div 2 THEN d ELSE d - SeqModulus

isRepeat(seq) == seen[seq % Window] = seq

\* Mutant: the number is published with the cycle from before the packet.
publishArrivalEarly(seq) ==
  /\ packets' = packets + 1
  /\ lastSequence' = cycles + seq

publishArrival(seq) ==
  /\ packets' = packets + 1
  /\ lastSequence' = cycles' + seq

Repeated(seq) ==
  /\ isRepeat(seq)
  /\ class' = "duplicate"
  /\ UNCHANGED <<started, ssrc, maxSeq, cycles, seen, lost, ssrcChanges>>

FirstPacket(seq, source) ==
  /\ ~started
  /\ started' = TRUE /\ maxSeq' = seq /\ ssrc' = source
  /\ class' = "new"
  /\ UNCHANGED <<cycles, lost, ssrcChanges>>

\* Mutant: a wrap is seen only when no packet around it is lost.
NewerStrict(seq) ==
  /\ Delta(seq, maxSeq) > 0
  /\ cycles' = IF seq = 0 THEN cycles + SeqModulus ELSE cycles
  /\ lost' = lost + Delta(seq, maxSeq) - 1
  /\ maxSeq' = seq
  /\ class' = "new"

Newer(seq) ==
  /\ Delta(seq, maxSeq) > 0
  /\ cycles' = IF seq < maxSeq THEN cycles + SeqModulus ELSE cycles
  /\ lost' = lost + Delta(seq, maxSeq) - 1
  /\ maxSeq' = seq
  /\ class' = "new"

decrementAtomic(value) == IF value = 0 THEN 0 ELSE value - 1

\* Mutant: a late packet is not taken off the losses.
OlderUncounted(seq) ==
  /\ Delta(seq, maxSeq) < 0
  /\ class' = "reordered"
  /\ UNCHANGED <<maxSeq, cycles, lost>>

\* A late packet fills a gap, or so the counter assumes.
Older(seq) ==
  /\ Delta(seq, maxSeq) < 0
  /\ lost' = decrementAtomic(lost)
  /\ class' = "reordered"
  /\ UNCHANGED <<maxSeq, cycles>>

\* The newest number again, forgotten by its slot: neither case of the switch.
Same(seq) ==
  /\ Delta(seq, maxSeq) = 0
  /\ class' = "new"
  /\ UNCHANGED <<maxSeq, cycles, lost>>

NextPacket(seq, source) ==
  /\ started
  /\ ssrc' = source
  /\ ssrcChanges' = IF source = ssrc THEN ssrcChanges ELSE ssrcChanges + 1
  /\ Newer(seq) \/ Older(seq) \/ Same(seq)
  /\ UNCHANGED started

\* Mutant: the number is remembered only when it is the newest.
RememberNewest(seq) ==
  seen' = IF started /\ Delta(seq, maxSeq) < 0
            THEN seen ELSE [seen EXCEPT ![seq % Window] = seq]

Remember(seq) == seen' = [seen EXCEPT ![seq % Window] = seq]

Observe(seq, source) ==
  /\ \/ Repeated(seq)
     \/ /\ ~isRepeat(seq)
        /\ Remember(seq)
        /\ FirstPacket(seq, source) \/ NextPacket(seq, source)
  /\ publishArrival(seq)

-----------------------------------------------------------------------------
\* Packet n of the stream arrives.
Arrives(n) ==
  /\ packets < MaxPackets /\ ~other
  /\ IF started THEN n - top \in -(SeqModulus \div 2)..(SeqModulus \div 2 - 1)
                ELSE n \in Starts
  /\ Observe(n % SeqModulus, 1)
  /\ first' = IF started THEN first ELSE n
  /\ top' = IF started /\ top > n THEN top ELSE n
  /\ last' = n
  /\ got' = got \cup {n}
  /\ fooled' = (fooled \/ (class' = "duplicate" /\ n \notin got))
  /\ stale' = (stale \/ (started /\ top - n >= Window))
  /\ UNCHANGED other

\* The sender starts another stream, with numbers of its own.
OtherStream(seq) ==
  /\ packets < MaxPackets /\ started
  /\ Observe(seq, 2)
  /\ other' = TRUE
  /\ UNCHANGED <<first, top, last, got, fooled, stale>>

Next ==
  \/ \E n \in -SeqModulus..(SeqModulus * (MaxPackets + 1)) : Arrives(n)
  \/ \E seq \in 0..(SeqModulus - 1) : OtherStream(seq)

Spec == Init /\ [][Next]_vars
-----------------------------------------------------------------------------
(* Properties.                                                             *)

\* All packets belong to one stream, and none of them was taken for a repeat
\* because its slot still held the number from one cycle earlier.
Faithful == started /\ ~other /\ ~fooled

\* The extended number cycles + maxSeq is the number of the newest packet: a
\* wrap is counted once, however the packets around it are lost or reordered.
ExtendedExact == Faithful => cycles + maxSeq = top

\* The loss counter never exceeds the number of packets that are missing
\* between the first and the newest.
LostNeverOverstated ==
  Faithful => lost <= Cardinality((first..top) \ got)

\* A repeat of one of the Window newest packets is recognised, so forwardRTP
\* does not forward it twice, unless a packet older than the window came and
\* took its slot.
RepeatsDropped ==
  [][ Faithful /\ ~stale' /\ last' \in got /\ top - last' < Window
        /\ ~other' => class' = "duplicate" ]_vars

\* The sequence number reported in RTCP is the number of the last packet.  The
\* exception is a late packet from before a wrap, to which the current cycle is
\* added: the report is then one cycle ahead.
ReportedSequence ==
  Faithful =>
    lastSequence = IF last \div SeqModulus < top \div SeqModulus
                     THEN last + SeqModulus ELSE last
=============================================================================
