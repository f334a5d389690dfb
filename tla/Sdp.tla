-------------------------------- MODULE Sdp ---------------------------------
(***************************************************************************)
(* The audio offer/answer rules of internal/sip/sdp/audio.go as operators. *)
(*                                                                         *)
(* A body is what pion/sdp makes of the text of one description: the host, *)
(* the port of the audio stream (0 when there is no usable one), the port  *)
(* of the rtcp attribute (0 when absent), the payload types in order of    *)
(* preference, what rtpmap says of some of them, and the direction         *)
(* attributes of the media and of the session level.  An encoding that is  *)
(* not one of the three supported ones at 8000 Hz is "other".              *)
(*                                                                         *)
(* A list of codecs is a function on places: the place of a codec is that  *)
(* of its payload type in the description, a codec that the code leaves    *)
(* out leaves its place empty, and only the order of the places matters.   *)
(***************************************************************************)
EXTENDS Integers, Sequences, FiniteSetsExt, Functions

CONSTANT PortModulus    \* 65536

ASSUME PortModulusAssumption == PortModulus \in Nat \ {0}

G711 == {"PCMU", "PCMA"}
TelephoneEvent == "TELEPHONE-EVENT"
Encodings == G711 \cup {TelephoneEvent, "other"}
Directions == {"sendrecv", "sendonly", "recvonly", "inactive"}

NoAudio == [error |-> "ErrNoAudio"]
NoMapping == [error |-> "ErrNoCommonCodec"]

\* The payload types that a body lists.
Listed(body) == {body.formats[i] : i \in DOMAIN body.formats}

isSupported(codec) == codec.name # "other"

hasAudioCodec(codecs) == \E i \in DOMAIN codecs : codecs[i].name \in G711

\* What a payload type of the body stands for: rtpmap, else the static types.
Encoding(body, pt) ==
  IF pt \in DOMAIN body.rtpmap THEN body.rtpmap[pt]
  ELSE IF pt = 0 THEN "PCMU"
  ELSE IF pt = 8 THEN "PCMA"
  ELSE "other"

\* The codecs of a list that the code keeps.
Supported(codecs) ==
  Restrict(codecs, {i \in DOMAIN codecs : isSupported(codecs[i])})

parseCodecs(body) ==
  Supported([i \in DOMAIN body.formats |->
               [name |-> Encoding(body, body.formats[i]), pt |-> body.formats[i]]])

\* The most restrictive direction that the media or the session level names.
mediaDirection(body) ==
  LET order == <<"inactive", "sendonly", "recvonly", "sendrecv">>
      named == {i \in DOMAIN order : order[i] \in body.media \cup body.session}
  IN  IF named = {} THEN "sendrecv" ELSE order[Min(named)]

ParseAudio(body) ==
  LET codecs == parseCodecs(body)
  IN  IF body.port = 0 \/ ~hasAudioCodec(codecs) THEN NoAudio
      ELSE [rtp |-> <<body.host, body.port>>,
            rtcp |-> <<body.host, IF body.rtcp # 0 THEN body.rtcp
                                  ELSE (body.port + 1) % PortModulus>>,
            direction |-> mediaDirection(body),
            codecs |-> codecs]

Named(codecs, name) == {i \in DOMAIN codecs : codecs[i].name = name}

\* The first codec of that name; the caller has checked that there is one.
findCodec(codecs, name) == codecs[Min(Named(codecs, name))]

\* The answer's first G.711 codec that is in the offer, and the payload types
\* that each leg uses for it and for telephone-event.
Negotiate(offer, answer) ==
  LET common == {i \in DOMAIN answer.codecs :
                   /\ answer.codecs[i].name \in G711
                   /\ Named(offer.codecs, answer.codecs[i].name) # {}}
      answered == answer.codecs[Min(common)]
      dtmf == /\ Named(offer.codecs, TelephoneEvent) # {}
              /\ Named(answer.codecs, TelephoneEvent) # {}
      PT(codecs) == IF dtmf THEN findCodec(codecs, TelephoneEvent).pt ELSE 0
  IN  IF common = {} THEN NoMapping
      ELSE [name |-> answered.name,
            callerPT |-> findCodec(offer.codecs, answered.name).pt,
            calleePT |-> answered.pt,
            hasDTMF |-> dtmf,
            callerDTMF |-> PT(offer.codecs),
            calleeDTMF |-> PT(answer.codecs)]

CodecListForAnswer(m) ==
  <<[name |-> m.name, pt |-> m.callerPT]>> \o
  IF m.hasDTMF THEN <<[name |-> TelephoneEvent, pt |-> m.callerDTMF]>> ELSE <<>>

CodecListForOffer(endpoint) == endpoint.codecs

\* The body that the PBX writes for one of its legs.
BuildAudio(host, port, codecs, direction) ==
  LET written == Supported(codecs)
  IN  [host |-> host, port |-> port, rtcp |-> (port + 1) % PortModulus,
       formats |-> [i \in DOMAIN written |-> written[i].pt],
       rtpmap |-> [pt \in {written[i].pt : i \in DOMAIN written} |->
                     (CHOOSE c \in {written[i] : i \in DOMAIN written} :
                        c.pt = pt).name],
       media |-> {direction}, session |-> {}]
=============================================================================
