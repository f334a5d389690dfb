-------------------------------- MODULE Rtcp --------------------------------
(***************************************************************************)
(* The arithmetic of the RTCP reports: the round-trip time that an         *)
(* endpoint takes from a peer's report (updateRemoteReport of              *)
(* internal/media/session/endpoint.go) and the reception report that the   *)
(* PBX sends (receptionReport of internal/media/session/rtcp.go), with the *)
(* widths of the Go types.                                                 *)
(*                                                                         *)
(* The compact NTP clock counts 65536ths of a second modulo 2^32 and wraps *)
(* every 18 hours, in the middle of calls.                                 *)
(***************************************************************************)
EXTENDS Integers

TwoTo32 == 65536 * 65536
TwoTo63 == TwoTo32 * 32768 * 65536
Second == 1000000000            \* time.Second

uint32(x) == x % TwoTo32

\* The value of a 64-bit sum or product that may have overflowed.
int64(x) == ((x + TwoTo63) % (2 * TwoTo63)) - TwoTo63

\* ntpTimestamp(t) >> 16 for t nanoseconds after the Unix epoch, not yet cut to
\* 32 bits.
ntpUnits(t) ==
  LET seconds == (t \div Second) + 2208988800
      fraction == ((t % Second) * TwoTo32) \div Second
  IN  seconds * 65536 + fraction \div 65536

compactNTP(t) == uint32(ntpUnits(t))

\* What updateRemoteReport makes of a report block: the sample in clock units,
\* or the old value when there is none.
rttUnits(lastSR, delay, lastSentSR, arrival, old) ==
  IF /\ lastSR # 0 /\ lastSR = lastSentSR
     /\ arrival > uint32(lastSR + delay)
    THEN uint32(arrival - lastSR - delay)
    ELSE old

\* rttNanos: the sample as a Duration.
rttNanos(units) == int64(units * Second) \div 65536

\* FractionLost of a reception report.
fractionLost(lost, packets) ==
  LET expected == packets + lost
      f == (lost * 256) \div expected
  IN  IF expected = 0 THEN 0 ELSE IF f < 255 THEN f ELSE 255

\* Delay of a reception report: nothing before the peer's first report.  A
\* product that overflowed to a negative number becomes a large uint64; Go's
\* division truncates towards zero.
reportDelay(lastSR, receivedNanos, now) ==
  LET elapsed == now - receivedNanos
      product == int64(elapsed * 65536)
      units == IF product >= 0 THEN product \div Second
                               ELSE -((-product) \div Second)
  IN  IF lastSR = 0 \/ receivedNanos = 0 \/ elapsed <= 0 THEN 0
      ELSE IF units < 0 \/ units >= TwoTo32 THEN TwoTo32 - 1
      ELSE units

=============================================================================
