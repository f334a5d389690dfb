----------------------------- MODULE RtpForward -----------------------------
(***************************************************************************)
(* One direction of the media path behind the source check: the tracker of *)
(* the source leg classifies a packet; unless it is dropped, the rewriter  *)
(* of the destination leg gives it a place in the output stream; and then  *)
(* it is sent, or dropped after all (forwardRTP of                         *)
(* internal/media/session/forward.go and Rewrite of                        *)
(* internal/media/rtp/rewriter.go).  A write that fails ends the loop: it  *)
(* is the last packet of the stream, placed and not sent.                  *)
(*                                                                         *)
(* Time is counted in packets: packet n of the sender has the timestamp n  *)
(* modulo TsModulus (2^32 in the code), and one of another stream an       *)
(* arbitrary one.                                                          *)
(***************************************************************************)
EXTENDS RtpTracker

CONSTANTS
  TsModulus,   \* number of timestamps
  Seeds        \* values of the random sequence and timestamp

ASSUME ForwardAssumption ==
  /\ TsModulus \in Nat \ {0}
  /\ Seeds \subseteq 0..(SeqModulus - 1) /\ Seeds \subseteq 0..(TsModulus - 1)

VARIABLES
  initialized, sequence, timestamp, inputBase, outputBase, \* Rewriter
  input,                  \* timestamp of the last packet rewritten (history)
  sent, origin, unsent    \* how many packets left, the place of the first of
                          \* them, and how many were placed after it and
                          \* dropped (history)

rewriter == <<initialized, sequence, timestamp, inputBase, outputBase, input>>
output == <<sent, origin, unsent>>

\* NewRewriter.
ForwardInit ==
  /\ Init
  /\ initialized = FALSE
  /\ sequence \in Seeds /\ outputBase \in Seeds
  /\ timestamp = outputBase /\ inputBase = 0 /\ input = 0
  /\ sent = 0 /\ unsent = 0
  /\ origin = [sequence |-> 0, timestamp |-> 0, input |-> 0]

\* Mutant: a packet that arrived late is taken for the start of a new stream.
RewriteRebased(ts) ==
  /\ initialized' = TRUE
  /\ inputBase' = IF initialized /\ class' = "new" THEN inputBase ELSE ts
  /\ sequence' = IF initialized THEN (sequence + 1) % SeqModulus ELSE sequence
  /\ timestamp' = (outputBase + ts - inputBase') % TsModulus
  /\ input' = ts
  /\ UNCHANGED outputBase

Rewrite(ts) ==
  /\ initialized' = TRUE
  /\ inputBase' = IF initialized THEN inputBase ELSE ts
  /\ sequence' = IF initialized THEN (sequence + 1) % SeqModulus ELSE sequence
  /\ timestamp' = (outputBase + ts - inputBase') % TsModulus
  /\ input' = ts
  /\ UNCHANGED outputBase

\* The packet just rewritten is written to the socket of the destination leg.
Written ==
  /\ sent' = sent + 1
  /\ origin' = IF sent > 0 THEN origin
               ELSE [sequence |-> sequence', timestamp |-> timestamp',
                     input |-> input']
  /\ UNCHANGED unsent

\* It cannot be marshalled, or the destination has no address.
Discarded ==
  /\ unsent' = IF sent > 0 THEN unsent + 1 ELSE unsent
  /\ UNCHANGED <<sent, origin>>

\* What forwardRTP does with a packet that the tracker has observed: refused
\* stands for the directions of the legs and for a malformed DTMF event.
Forward(ts, refused) ==
  \/ /\ class' = "duplicate" \/ refused
     /\ UNCHANGED <<rewriter, output>>
  \/ /\ class' # "duplicate" /\ ~refused
     /\ Rewrite(ts)
     /\ Written \/ Discarded

ForwardArrives(n) ==
  /\ Arrives(n)
  /\ \E refused \in BOOLEAN : Forward(n % TsModulus, refused)

ForwardOther(seq, ts) ==
  /\ OtherStream(seq)
  /\ \E refused \in BOOLEAN : Forward(ts, refused)

ForwardNext ==
  \/ \E n \in -SeqModulus..(SeqModulus * (MaxPackets + 1)) : ForwardArrives(n)
  \/ \E seq \in 0..(SeqModulus - 1), ts \in Seeds : ForwardOther(seq, ts)

forwardVars == <<vars, rewriter, output>>

ForwardSpec == ForwardInit /\ [][ForwardNext]_forwardVars
-----------------------------------------------------------------------------
(* Properties.                                                             *)

\* The packets that leave are one RTP stream whatever happens to the input.
\* From the first of them on, a number is missing only for a packet that was
\* dropped after it was rewritten: losses, repeats, packets refused during a
\* hold and packets of another SSRC leave no hole.  And any packet is as far
\* from the first in media time as at the sender, across every wrap.
OutputContinuous ==
  [][ sent > 0 /\ sent' > sent =>
        /\ (sequence' - origin.sequence) % SeqModulus = (sent + unsent) % SeqModulus
        /\ (timestamp' - origin.timestamp) % TsModulus
             = (input' - origin.input) % TsModulus
    ]_forwardVars
=============================================================================
