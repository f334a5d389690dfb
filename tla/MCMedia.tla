------------------------------ MODULE MCMedia -------------------------------
(* MediaEndpoints for TLC: the descriptions of a caller and a callee that  *)
(* hold, resume, move to another host, and try to change the codec.        *)
EXTENDS MediaEndpoints

Body(host, port, formats, rtpmap, media, session) ==
  [host |-> host, port |-> port, from |-> port + 1, rtcp |-> 0,
   formats |-> formats, rtpmap |-> rtpmap, media |-> media, session |-> session]

CallerMap == [pt \in {8, 101} |-> IF pt = 8 THEN "PCMA" ELSE TelephoneEvent]
CalleeMap == [pt \in {0, 96} |-> IF pt = 0 THEN "PCMU" ELSE TelephoneEvent]

MCCallerBodies ==
  {Body("a", 4, <<0, 8, 101>>, CallerMap, {}, {}),
   Body("a", 4, <<0, 8, 101>>, CallerMap, {"sendonly"}, {}),
   Body("b", 6, <<0, 8, 101>>, CallerMap, {}, {"sendrecv"})}

MCCalleeBodies ==
  {Body("c", 4, <<0, 96>>, CalleeMap, {"sendrecv"}, {}),
   Body("c", 4, <<0, 96>>, CalleeMap, {}, {"recvonly"}),
   Body("d", 6, <<0, 96>>, CalleeMap, {}, {}),
   Body("c", 4, <<8>>, CalleeMap, {}, {})}
=============================================================================
