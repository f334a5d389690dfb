--------------------------- MODULE PortPoolProofs ---------------------------
(***************************************************************************)
(* What holds of PortPool for every finite set of port pairs, every set of *)
(* media sessions and every set of goroutines that close them.             *)
(***************************************************************************)
EXTENDS PortPool, FiniteSetTheorems, TLAPS

\* Where session m keeps the pair p, if it keeps it.
Owns(m, p) ==
  \/ p \in failed[m] \/ hand[m] = p
  \/ lease[m]["caller"] = p \/ lease[m]["callee"] = p

Once(m, p) ==
  /\ p \in failed[m] => hand[m] # p /\ \A l \in Legs : lease[m][l] # p
  /\ hand[m] = p => \A l \in Legs : lease[m][l] # p
  /\ lease[m]["caller"] = p => lease[m]["callee"] # p

\* Every pair is in one place: in the channel, or in one place of one session.
OnePlace ==
  \A p \in Ports :
    /\ p \in available => \A m \in Sessions : ~Owns(m, p)
    /\ \A m, n \in Sessions : Owns(m, p) /\ Owns(n, p) => m = n
    /\ \A m \in Sessions : Once(m, p)

\* No pair disappears.
Accounted == \A p \in Ports : p \in available \/ \E m \in Sessions : Owns(m, p)

\* What a session keeps at each point of Factory.New and Session.Close.
Shape(m) ==
  /\ pc[m] = "bind" <=> hand[m] # NoPort
  /\ failed[m] # {} => pc[m] \in {"acquire", "bind", "deferred"}
  /\ pc[m] = "idle" => leg[m] = "caller"
  /\ pc[m] \in {"idle", "acquire", "bind"} => lease[m][leg[m]] = NoPort
  /\ pc[m] \in {"idle", "acquire", "bind", "deferred"} /\ leg[m] = "caller" =>
       lease[m]["callee"] = NoPort
  /\ pc[m] \in {"acquire", "bind", "deferred"} /\ leg[m] = "callee" =>
       lease[m]["caller"] # NoPort
  /\ pc[m] \in {"build", "open"} => \A l \in Legs : lease[m][l] # NoPort
  /\ pc[m] \in {"rejected", "closed"} => \A l \in Legs : lease[m][l] = NoPort
  /\ \A l \in Legs : l \in sockets[m] => lease[m][l] # NoPort
  /\ ~Releasing(m) => \A l \in Legs : lease[m][l] # NoPort => l \in sockets[m]
  /\ \A c \in Closers : closer[m][c] = "returned" => pc[m] = "closed"

PInv ==
  /\ TypeOK /\ OnePlace /\ Accounted
  /\ \A m \in Sessions : Shape(m)

\* Initially the channel holds every pair.
LEMMA InitPool == Init => PInv
<1> SUFFICES ASSUME Init PROVE PInv
  OBVIOUS
<1> USE PortsAssumption
<1>1. TypeOK
  BY DEF Init, TypeOK, Legs
<1>2. OnePlace /\ Accounted
  BY DEF Init, OnePlace, Accounted, Owns, Once, Legs
<1>3. \A m \in Sessions : Shape(m)
  BY DEF Init, Shape, Legs, Releasing
<1> QED
  BY <1>1, <1>2, <1>3, Zenon DEF PInv

-----------------------------------------------------------------------------
\* A step of session m that neither takes nor returns a pair.
LEMMA StillStep ==
  ASSUME PInv, UNCHANGED <<available, hand, failed, lease>>
  PROVE  OnePlace' /\ Accounted'
<1>1. \A m, p : (Owns(m, p)' <=> Owns(m, p)) /\ (Once(m, p)' <=> Once(m, p))
  BY DEF Owns, Once
<1> QED
  BY <1>1 DEF PInv, OnePlace, Accounted

\* NewCalled, Exhausted, CtxExpired, Built and Released only move on.
LEMMA MoveStep ==
  ASSUME PInv, NEW m \in Sessions,
         NewCalled(m) \/ Exhausted(m) \/ CtxExpired(m) \/ Built(m) \/ Released(m)
  PROVE  PInv'
<1>1. UNCHANGED <<available, inUse, leg, hand, failed, lease, sockets, closer>>
  BY DEF NewCalled, Exhausted, CtxExpired, Built, Released
<1>2. TypeOK'
  BY <1>1, Zenon DEF PInv, TypeOK, NewCalled, Exhausted, CtxExpired, Built, Released, Goto
<1>3. \A n \in Sessions : n # m => pc'[n] = pc[n]
  BY DEF PInv, TypeOK, NewCalled, Exhausted, CtxExpired, Built, Released, Goto
<1>4. Shape(m)'
  BY <1>1 DEF PInv, TypeOK, Shape, Releasing, NewCalled, Exhausted, CtxExpired, Built,
              Released, Goto, Legs
<1>5. \A n \in Sessions : n # m => Shape(n)'
  BY <1>1, <1>3 DEF PInv, Shape, Releasing
<1> QED
  BY <1>1, <1>2, <1>4, <1>5, StillStep DEF PInv

\* AcquireReturns moves on to the next leg.
LEMMA AcquireReturnsStep ==
  ASSUME PInv, NEW m \in Sessions, AcquireReturns(m)
  PROVE  PInv'
<1>1. UNCHANGED <<available, inUse, hand, failed, lease, sockets, closer>>
  BY DEF AcquireReturns
<1>2. TypeOK'
  BY <1>1, Zenon DEF PInv, TypeOK, AcquireReturns, Goto, Legs
<1>3. \A n \in Sessions : n # m => pc'[n] = pc[n] /\ leg'[n] = leg[n]
  BY DEF PInv, TypeOK, AcquireReturns, Goto
<1>4. Shape(m)'
  <2>1. /\ Shape(m) /\ pc[m] = "deferred" /\ failed[m] = {} /\ leg[m] \in Legs
        /\ leg'[m] = IF lease[m][leg[m]] # NoPort THEN "callee" ELSE leg[m]
        /\ pc'[m] = IF lease[m][leg[m]] = NoPort THEN "abort"
                    ELSE IF leg[m] = "caller" THEN "acquire" ELSE "build"
    BY DEF PInv, TypeOK, AcquireReturns, Goto
  <2>2. CASE lease[m][leg[m]] = NoPort
    BY <1>1, <2>1, <2>2, Zenon DEF Shape, Releasing, Legs
  <2>3. CASE lease[m][leg[m]] # NoPort /\ leg[m] = "caller"
    BY <1>1, <2>1, <2>3, Zenon DEF Shape, Releasing, Legs
  <2>4. CASE lease[m][leg[m]] # NoPort /\ leg[m] = "callee"
    BY <1>1, <2>1, <2>4, Zenon DEF Shape, Releasing, Legs
  <2> QED
    BY <2>1, <2>2, <2>3, <2>4, Zenon DEF Legs
<1>5. \A n \in Sessions : n # m => Shape(n)'
  BY <1>1, <1>3 DEF PInv, Shape, Releasing
<1> QED
  BY <1>1, <1>2, <1>4, <1>5, StillStep DEF PInv

\* SocketsClosed, CloseCalled and CloseReturns leave the pairs where they are.
LEMMA CloseStep ==
  ASSUME PInv, NEW m \in Sessions,
         \/ \E l \in Legs : SocketsClosed(m, l)
         \/ \E c \in Closers : CloseCalled(m, c) \/ CloseReturns(m, c)
  PROVE  PInv'
<1>1. UNCHANGED <<available, leg, hand, failed, lease>>
  BY DEF SocketsClosed, CloseCalled, CloseReturns
<1>2. TypeOK'
  <2>1. CASE \E l \in Legs : SocketsClosed(m, l)
    BY <1>1, <2>1 DEF PInv, TypeOK, SocketsClosed
  <2>2. CASE \E c \in Closers : CloseCalled(m, c)
    <3> PICK c \in Closers : CloseCalled(m, c)
      BY <2>2
    <3>1. pc' \in [Sessions -> {"idle", "acquire", "bind", "deferred", "build", "open",
                                "abort", "closing", "rejected", "closed"}]
      BY Zenon DEF PInv, TypeOK, CloseCalled, Goto
    <3>2. closer' \in [Sessions -> [Closers -> {"no", "waiting", "returned"}]]
      BY DEF PInv, TypeOK, CloseCalled
    <3> QED
      BY <1>1, <3>1, <3>2, Zenon DEF PInv, TypeOK, CloseCalled
  <2>3. CASE \E c \in Closers : CloseReturns(m, c)
    BY <1>1, <2>3 DEF PInv, TypeOK, CloseReturns
  <2> QED
    BY <2>1, <2>2, <2>3
<1>3. \A n \in Sessions : n # m => /\ pc'[n] = pc[n] /\ sockets'[n] = sockets[n]
                                  /\ closer'[n] = closer[n]
  BY DEF PInv, TypeOK, SocketsClosed, CloseCalled, CloseReturns, Goto
<1>4. Shape(m)'
  BY <1>1 DEF PInv, TypeOK, Shape, Releasing, SocketsClosed, CloseCalled,
              CloseReturns, Goto, Legs
<1>5. \A n \in Sessions : n # m => Shape(n)'
  BY <1>1, <1>3 DEF PInv, Shape, Releasing
<1> QED
  BY <1>1, <1>2, <1>4, <1>5, StillStep, Zenon DEF PInv

-----------------------------------------------------------------------------
\* A step of session m that takes the pair p out of the channel, sends it back,
\* or moves it within the session.
LEMMA PlaceStep ==
  ASSUME PInv, NEW m \in Sessions, NEW p \in Ports,
         \A n \in Sessions : n # m =>
           UNCHANGED <<hand[n], failed[n], lease[n]>>,
         \A q \in Ports : Once(m, q)',
         \/ /\ p \in available /\ available' = available \ {p}
            /\ \A q \in Ports : Owns(m, q)' <=> Owns(m, q) \/ q = p
         \/ /\ available' = available
            /\ \A q \in Ports : Owns(m, q)' <=> Owns(m, q)
         \/ /\ Owns(m, p) /\ available' = available \cup {p}
            /\ \A q \in Ports : Owns(m, q)' <=> Owns(m, q) /\ q # p
  PROVE  OnePlace' /\ Accounted'
<1>1. \A n \in Sessions : n # m =>
        \A q \in Ports : (Owns(n, q)' <=> Owns(n, q)) /\ (Once(n, q)' <=> Once(n, q))
  BY DEF Owns, Once
<1>2. \A q \in Ports : \A n \in Sessions : Once(n, q)'
  BY <1>1 DEF PInv, OnePlace
<1>3. \A q \in Ports : q \in available' => \A n \in Sessions : ~Owns(n, q)'
  BY <1>1 DEF PInv, OnePlace
<1>4. \A q \in Ports : \A n, k \in Sessions : Owns(n, q)' /\ Owns(k, q)' => n = k
  BY <1>1 DEF PInv, OnePlace
<1>5. Accounted'
  BY <1>1 DEF PInv, Accounted
<1> QED
  BY <1>2, <1>3, <1>4, <1>5, Zenon DEF OnePlace

\* A session that a step leaves alone keeps its shape.
LEMMA SameShape ==
  ASSUME NEW n \in Sessions, Shape(n),
         UNCHANGED <<pc[n], leg[n], hand[n], failed[n], lease[n], sockets[n], closer[n]>>
  PROVE  Shape(n)'
  BY Zenon DEF Shape, Releasing

\* Acquire takes a pair out of the channel.
LEMMA TakenStep ==
  ASSUME PInv, NEW m \in Sessions, NEW p \in Ports, PortTaken(m, p)
  PROVE  PInv'
<1> USE PortsAssumption
<1>a. /\ \A q \in Ports : Once(m, q) /\ (q \in available => ~Owns(m, q))
      /\ \A n \in Sessions : Shape(n)
  BY DEF PInv, OnePlace
<1>0. /\ Shape(m) /\ pc[m] = "acquire" /\ p \in available /\ hand[m] = NoPort
      /\ pc'[m] = "bind" /\ hand'[m] = p
      /\ \A n \in Sessions : n # m => pc'[n] = pc[n] /\ hand'[n] = hand[n]
      /\ available' = available \ {p}
      /\ UNCHANGED <<inUse, leg, failed, lease, sockets, closer>>
  BY DEF PInv, TypeOK, PortTaken, Goto, Shape
<1>1. TypeOK'
  BY DEF PInv, TypeOK, PortTaken, Goto
<1>2. \A q \in Ports : Owns(m, q)' <=> Owns(m, q) \/ q = p
  BY <1>0 DEF Owns
<1>3. \A q \in Ports : Once(m, q)'
  BY <1>0, <1>a, Zenon DEF Once, Owns, Legs
<1>4. Shape(m)'
  BY <1>0, Zenon DEF Shape, Releasing
<1>5. \A n \in Sessions : n # m => Shape(n)'
  BY <1>0, <1>a, SameShape, Zenon
<1>6. OnePlace' /\ Accounted'
  BY <1>0, <1>2, <1>3, PlaceStep, Zenon
<1> QED
  BY <1>1, <1>4, <1>5, <1>6 DEF PInv

\* bind succeeds: the pair in hand becomes the lease of the leg.
LEMMA BoundStep ==
  ASSUME PInv, NEW m \in Sessions, BindSucceeds(m)
  PROVE  PInv'
<1> USE PortsAssumption
<1>a. /\ \A q \in Ports : Once(m, q) /\ (q \in available => ~Owns(m, q))
      /\ \A n \in Sessions : Shape(n)
  BY DEF PInv, OnePlace
<1>0. /\ Shape(m) /\ pc[m] = "bind" /\ hand[m] \in Ports /\ leg[m] \in Legs
      /\ pc'[m] = "deferred" /\ hand'[m] = NoPort
      /\ \A l \in Legs : lease'[m][l] = IF l = leg[m] THEN hand[m] ELSE lease[m][l]
      /\ sockets'[m] = sockets[m] \cup {leg[m]}
      /\ \A n \in Sessions : n # m => /\ pc'[n] = pc[n] /\ hand'[n] = hand[n]
                                      /\ lease'[n] = lease[n]
                                      /\ sockets'[n] = sockets[n]
      /\ UNCHANGED <<available, leg, failed, closer>>
  BY DEF PInv, TypeOK, BindSucceeds, Goto, Shape
<1>1. TypeOK'
  <2>1. lease' \in [Sessions -> [Legs -> Ports \cup {NoPort}]]
    BY <1>0, Zenon DEF PInv, TypeOK, BindSucceeds
  <2> QED
    BY <1>0, <2>1 DEF PInv, TypeOK, BindSucceeds, Goto
<1>2. \A q \in Ports : Owns(m, q)' <=> Owns(m, q)
  BY <1>0, Zenon DEF Owns, Shape, Legs
<1>3. \A q \in Ports : Once(m, q)'
  <2> SUFFICES ASSUME NEW q \in Ports PROVE Once(m, q)'
    OBVIOUS
  <2>1. Once(m, q) /\ failed'[m] = failed[m] /\ hand'[m] # q
    BY <1>0, <1>a, Zenon
  <2>2. CASE leg[m] = "caller"
    BY <1>0, <2>1, <2>2, Zenon DEF Once, Legs
  <2>3. CASE leg[m] = "callee"
    BY <1>0, <2>1, <2>3, Zenon DEF Once, Legs
  <2> QED
    BY <1>0, <2>2, <2>3, Zenon DEF Legs
<1>4. Shape(m)'
  BY <1>0, Zenon DEF Shape, Releasing, Legs
<1>5. \A n \in Sessions : n # m => Shape(n)'
  BY <1>0, <1>a, SameShape, Zenon
<1>6. OnePlace' /\ Accounted'
  BY <1>0, <1>2, <1>3, PlaceStep, Zenon
<1> QED
  BY <1>1, <1>4, <1>5, <1>6 DEF PInv

\* bind fails: the pair in hand is kept until the attempts are over.
LEMMA UnboundStep ==
  ASSUME PInv, NEW m \in Sessions, BindFails(m)
  PROVE  PInv'
<1> USE PortsAssumption
<1>a. /\ \A q \in Ports : Once(m, q) /\ (q \in available => ~Owns(m, q))
      /\ \A n \in Sessions : Shape(n)
  BY DEF PInv, OnePlace
<1>0. /\ Shape(m) /\ pc[m] = "bind" /\ hand[m] \in Ports
      /\ pc'[m] = "acquire" /\ hand'[m] = NoPort
      /\ failed'[m] = failed[m] \cup {hand[m]}
      /\ \A n \in Sessions : n # m => /\ pc'[n] = pc[n] /\ hand'[n] = hand[n]
                                      /\ failed'[n] = failed[n]
      /\ UNCHANGED <<available, inUse, leg, lease, sockets, closer>>
  BY DEF PInv, TypeOK, BindFails, Goto, Shape
<1>1. TypeOK'
  BY <1>0, Zenon DEF PInv, TypeOK, BindFails, Goto
<1>2. \A q \in Ports : Owns(m, q)' <=> Owns(m, q)
  BY <1>0, Zenon DEF Owns
<1>3. \A q \in Ports : Once(m, q)'
  BY <1>0, <1>a, Zenon DEF Once, Legs
<1>4. Shape(m)'
  BY <1>0, Zenon DEF Shape, Releasing
<1>5. \A n \in Sessions : n # m => Shape(n)'
  BY <1>0, <1>a, SameShape, Zenon
<1>6. OnePlace' /\ Accounted'
  BY <1>0, <1>2, <1>3, PlaceStep, Zenon
<1> QED
  BY <1>1, <1>4, <1>5, <1>6 DEF PInv

\* The deferred loop of Acquire sends a pair back.
LEMMA FailedReturnedStep ==
  ASSUME PInv, NEW m \in Sessions, NEW p \in Ports, FailedReturned(m, p)
  PROVE  PInv'
<1> USE PortsAssumption
<1>a. /\ \A q \in Ports : Once(m, q) /\ (q \in available => ~Owns(m, q))
      /\ \A n \in Sessions : Shape(n)
  BY DEF PInv, OnePlace
<1>0. /\ Shape(m) /\ pc[m] = "deferred" /\ p \in failed[m]
      /\ failed'[m] = failed[m] \ {p}
      /\ \A n \in Sessions : n # m => failed'[n] = failed[n]
      /\ available' = available \cup {p}
      /\ UNCHANGED <<inUse, pc, leg, hand, lease, sockets, closer>>
  BY DEF PInv, TypeOK, FailedReturned, SendAvailable
<1>1. TypeOK'
  BY <1>0, Zenon DEF PInv, TypeOK, FailedReturned
<1>2. Owns(m, p) /\ \A q \in Ports : Owns(m, q)' <=> Owns(m, q) /\ q # p
  BY <1>0, <1>a, Zenon DEF Once, Owns, Legs
<1>3. \A q \in Ports : Once(m, q)'
  BY <1>0, <1>a, Zenon DEF Once, Legs
<1>4. Shape(m)'
  BY <1>0, Zenon DEF Shape, Releasing
<1>5. \A n \in Sessions : n # m => Shape(n)'
  BY <1>0, <1>a, SameShape, Zenon
<1>6. OnePlace' /\ Accounted'
  BY <1>0, <1>2, <1>3, PlaceStep, Zenon
<1> QED
  BY <1>1, <1>4, <1>5, <1>6 DEF PInv

\* Lease.Release sends a pair back.
LEMMA PortReturnedStep ==
  ASSUME PInv, NEW m \in Sessions, NEW l \in Legs, PortReturned(m, l)
  PROVE  PInv'
<1> USE PortsAssumption
<1> DEFINE p == lease[m][l]
<1>a. /\ \A q \in Ports : Once(m, q) /\ (q \in available => ~Owns(m, q))
      /\ \A n \in Sessions : Shape(n)
  BY DEF PInv, OnePlace
<1>0. /\ Shape(m) /\ Releasing(m) /\ l \notin sockets[m] /\ p \in Ports
      /\ \A k \in Legs : lease'[m][k] = IF k = l THEN NoPort ELSE lease[m][k]
      /\ \A n \in Sessions : n # m => lease'[n] = lease[n]
      /\ available' = available \cup {p}
      /\ UNCHANGED <<inUse, pc, leg, hand, failed, sockets, closer>>
  BY DEF PInv, TypeOK, PortReturned, SendAvailable
<1>1. TypeOK'
  <2>1. lease' \in [Sessions -> [Legs -> Ports \cup {NoPort}]]
    BY <1>0, Zenon DEF PInv, TypeOK, PortReturned
  <2> QED
    BY <1>0, <2>1, Zenon DEF PInv, TypeOK
<1>2. Owns(m, p) /\ \A q \in Ports : Owns(m, q)' <=> Owns(m, q) /\ q # p
  BY <1>0, <1>a, Zenon DEF Once, Owns, Legs
<1>3. \A q \in Ports : Once(m, q)'
  BY <1>0, <1>a, Zenon DEF Once, Legs
<1>4. Shape(m)'
  BY <1>0, Zenon DEF Shape, Releasing, Legs
<1>5. \A n \in Sessions : n # m => Shape(n)'
  BY <1>0, <1>a, SameShape, Zenon
<1>6. OnePlace' /\ Accounted'
  <2> HIDE DEF p
  <2> QED
    BY <1>0, <1>2, <1>3, PlaceStep, Zenon
<1> QED
  BY <1>1, <1>4, <1>5, <1>6, Zenon DEF PInv

-----------------------------------------------------------------------------
\* PInv is an invariant of the pool and its sessions.
THEOREM PoolInvariant == Spec => []PInv
<1>1. Init => PInv
  BY InitPool
<1>2. PInv /\ [Next]_vars => PInv'
  <2> SUFFICES ASSUME PInv, [Next]_vars PROVE PInv'
    OBVIOUS
  <2>1. CASE UNCHANGED vars
    <3>1. TypeOK'
      BY <2>1, Zenon DEF vars, PInv, TypeOK
    <3>2. \A m \in Sessions : Shape(m)'
      BY <2>1, SameShape, Zenon DEF vars, PInv
    <3> QED
      BY <2>1, <3>1, <3>2, StillStep, Zenon DEF vars, PInv
  <2>2. ASSUME NEW m \in Sessions,
               \/ NewCalled(m) \/ CtxExpired(m) \/ Running(m)
               \/ \E c \in Closers : CloseCalled(m, c)
        PROVE  PInv'
    BY <2>2, MoveStep, AcquireReturnsStep, CloseStep, TakenStep, BoundStep, UnboundStep,
       FailedReturnedStep, PortReturnedStep, Zenon DEF Running
  <2> QED
    BY <2>1, <2>2 DEF Next
<1> QED
  BY <1>1, <1>2, PTL DEF Spec

\* Whatever binds fail and whoever closes, no pair is ever leased twice,
\* returned twice, or leased while it is in the channel.
THEOREM PairsStayExclusive == Spec => []PairsExclusive
<1>1. PInv => PairsExclusive
  <2> SUFFICES ASSUME PInv, NEW m \in Sessions
               PROVE  /\ Holds(m) \cap available = {}
                      /\ \A n \in Sessions \ {m} : Holds(m) \cap Holds(n) = {}
                      /\ hand[m] \notin failed[m] \cup Leased(m)
                      /\ failed[m] \cap Leased(m) = {}
                      /\ lease[m]["caller"] = lease[m]["callee"] =>
                           lease[m]["caller"] = NoPort
    BY Zenon DEF PairsExclusive
  <2>0. /\ failed[m] \subseteq Ports /\ hand[m] \in Ports \cup {NoPort}
        /\ \A l \in Legs : lease[m][l] \in Ports \cup {NoPort}
    BY DEF PInv, TypeOK
  <2>1. \A n \in Sessions : \A p : p \in Holds(n) <=> p \in Ports /\ Owns(n, p)
    BY PortsAssumption DEF PInv, TypeOK, Holds, Leased, Owns, Legs
  <2>2. Holds(m) \cap available = {}
    BY <2>1 DEF PInv, OnePlace
  <2>3. \A n \in Sessions \ {m} : Holds(m) \cap Holds(n) = {}
    BY <2>1 DEF PInv, OnePlace
  <2>4. hand[m] \notin failed[m] \cup Leased(m) /\ failed[m] \cap Leased(m) = {}
    BY <2>0, PortsAssumption DEF PInv, OnePlace, Once, Leased
  <2>5. lease[m]["caller"] = lease[m]["callee"] => lease[m]["caller"] = NoPort
    BY <2>0, Zenon DEF PInv, OnePlace, Once, Legs
  <2> QED
    BY <2>2, <2>3, <2>4, <2>5, Zenon
<1> QED
  BY <1>1, PoolInvariant, PTL

\* A session is open with two different pairs whose sockets are bound; one that
\* was rejected or closed has neither pairs nor sockets left.
THEOREM LeasesBothOrNone == Spec => []BothOrNone
<1>1. PInv => BothOrNone
  <2> SUFFICES ASSUME PInv, NEW m \in Sessions
               PROVE  /\ pc[m] = "open" => sockets[m] = Legs /\ Cardinality(Leased(m)) = 2
                      /\ pc[m] \in {"rejected", "closed"} =>
                           sockets[m] = {} /\ Leased(m) = {}
    BY DEF BothOrNone
  <2>0. /\ Shape(m) /\ sockets[m] \subseteq Legs
        /\ \A l \in Legs : lease[m][l] \in Ports \cup {NoPort}
    BY DEF PInv, TypeOK
  <2>1. ASSUME pc[m] = "open"
        PROVE  sockets[m] = Legs /\ Cardinality(Leased(m)) = 2
    <3> DEFINE a == lease[m]["caller"]
               b == lease[m]["callee"]
    <3>1. sockets[m] = Legs /\ a \in Ports /\ b \in Ports
      BY <2>0, <2>1, Zenon DEF Shape, Releasing, Legs
    <3>2. a # b
      BY <3>1, Zenon DEF PInv, OnePlace, Once
    <3>3. Leased(m) = {a, b}
      BY <3>1, PortsAssumption, Zenon DEF Leased, Legs
    <3> HIDE DEF a, b
    <3>4. Cardinality({a, b}) = 2
      <4>1. IsFiniteSet({a}) /\ Cardinality({a}) = 1
        BY FS_Singleton
      <4>2. Cardinality({a} \cup {b}) = 2
        BY <3>2, <4>1, FS_AddElement
      <4>3. {a, b} = {a} \cup {b}
        OBVIOUS
      <4> QED
        BY <4>2, <4>3
    <3> QED
      BY <3>1, <3>3, <3>4, Zenon
  <2>2. ASSUME pc[m] \in {"rejected", "closed"}
        PROVE  sockets[m] = {} /\ Leased(m) = {}
    BY <2>0, <2>2, Zenon DEF Shape, Leased
  <2> QED
    BY <2>1, <2>2, Zenon
<1> QED
  BY <1>1, PoolInvariant, PTL

\* Close is a barrier for every caller: Run of the media, stopMedia, or both.
THEOREM ClosingIsBarrier == Spec => []CloseIsBarrier
<1>1. PInv => CloseIsBarrier
  <2> SUFFICES ASSUME PInv, NEW m \in Sessions, NEW c \in Closers,
                      closer[m][c] = "returned"
               PROVE  sockets[m] = {} /\ Leased(m) = {}
    BY DEF CloseIsBarrier
  <2>1. Shape(m) /\ sockets[m] \subseteq Legs
    BY DEF PInv, TypeOK
  <2>2. pc[m] = "closed"
    BY <2>1, Zenon DEF Shape
  <2> QED
    BY <2>1, <2>2, Zenon DEF Shape, Leased
<1> QED
  BY <1>1, PoolInvariant, PTL

-----------------------------------------------------------------------------
\* The pairs of sockets that are open, and what Pool.inUse says of them.
OpenSockets == {x \in Sessions \X Legs : x[2] \in sockets[x[1]]}
Counted == IsFiniteSet(OpenSockets) /\ inUse = Cardinality(OpenSockets)

\* bind counts the sockets it opens, and Lease.Release those it closes.
LEMMA CountStep ==
  ASSUME PInv, Counted, [Next]_vars
  PROVE  Counted'
<1>0. /\ sockets \in [Sessions -> SUBSET Legs] /\ leg \in [Sessions -> Legs]
      /\ Cardinality(OpenSockets) \in Nat
  BY FS_CardinalityType, Zenon DEF PInv, TypeOK, Counted
<1>1. ASSUME NEW m \in Sessions, BindSucceeds(m)
      PROVE  Counted'
  <2> DEFINE x == <<m, leg[m]>>
  <2>1. x \notin OpenSockets
    <3>1. Shape(m) /\ pc[m] = "bind" /\ leg[m] \in Legs
      BY <1>0, <1>1, Zenon DEF PInv, BindSucceeds
    <3> QED
      BY <3>1, Zenon DEF Shape, OpenSockets
  <2>2. OpenSockets' = OpenSockets \cup {x}
    BY <1>0, <1>1 DEF BindSucceeds, OpenSockets
  <2>3. inUse' = inUse + 1
    BY <1>1 DEF BindSucceeds
  <2> HIDE DEF x
  <2> QED
    BY <2>1, <2>2, <2>3, FS_AddElement, Zenon DEF Counted
<1>2. ASSUME NEW m \in Sessions, NEW l \in Legs, SocketsClosed(m, l)
      PROVE  Counted'
  <2> DEFINE x == <<m, l>>
  <2>1. x \in OpenSockets
    BY <1>2 DEF SocketsClosed, OpenSockets
  <2>2. OpenSockets' = OpenSockets \ {x}
    BY <1>0, <1>2 DEF SocketsClosed, OpenSockets
  <2>3. inUse' = inUse - 1
    BY <1>2 DEF SocketsClosed
  <2> HIDE DEF x
  <2> QED
    BY <2>1, <2>2, <2>3, FS_RemoveElement, Zenon DEF Counted
<1>3. CASE UNCHANGED <<inUse, sockets>>
  BY <1>3, Zenon DEF Counted, OpenSockets
<1>4. ASSUME NEW m \in Sessions,
             \/ NewCalled(m) \/ CtxExpired(m) \/ Running(m)
             \/ \E c \in Closers : CloseCalled(m, c)
      PROVE  Counted'
  <2>1. \/ UNCHANGED <<inUse, sockets>> \/ BindSucceeds(m)
        \/ \E l \in Legs : SocketsClosed(m, l)
    BY <1>4, Zenon DEF NewCalled, CtxExpired, Running, CloseCalled, PortTaken, FailedReturned,
                Exhausted, BindFails, AcquireReturns, Built, PortReturned, Released,
                CloseReturns
  <2> QED
    BY <1>1, <1>2, <1>3, <2>1, Zenon
<1> QED
  BY <1>3, <1>4, Zenon DEF Next, vars

\* When every session is over, all pairs are back in the channel and inUse is 0
\* again, whatever bind, New or Close met on the way.
THEOREM NoPairsLost == Spec => []NoPairLost
<1>1. Init => Counted
  <2> SUFFICES ASSUME Init PROVE Counted
    OBVIOUS
  <2>1. OpenSockets = {} /\ inUse = 0
    BY DEF Init, OpenSockets
  <2> QED
    BY <2>1, FS_EmptySet DEF Counted
<1>2. PInv /\ Counted => NoPairLost
  <2> SUFFICES ASSUME PInv, Counted,
                      \A m \in Sessions : pc[m] \in {"idle", "rejected", "closed"}
               PROVE  available = Ports /\ inUse = 0
    BY DEF NoPairLost
  <2>0. ASSUME NEW m \in Sessions
        PROVE  /\ failed[m] = {} /\ hand[m] = NoPort
               /\ \A l \in Legs : lease[m][l] = NoPort /\ l \notin sockets[m]
    <3>1. Shape(m) /\ pc[m] \in {"idle", "rejected", "closed"}
      BY DEF PInv
    <3> QED
      BY <3>1, Zenon DEF Shape, Legs
  <2>1. \A m \in Sessions, p \in Ports : ~Owns(m, p)
    BY <2>0, PortsAssumption, Zenon DEF Owns, Legs
  <2>2. available = Ports
    BY <2>1, Zenon DEF PInv, TypeOK, Accounted
  <2>3. OpenSockets = {}
    BY <2>0, Zenon DEF OpenSockets
  <2> QED
    BY <2>2, <2>3, FS_EmptySet, Zenon DEF Counted
<1> QED
  BY <1>1, <1>2, PoolInvariant, CountStep, PTL DEF Spec
=============================================================================
