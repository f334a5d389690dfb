------------------------------ MODULE PortPool ------------------------------
(***************************************************************************)
(* The RTP port pool (internal/media/portalloc/pool.go) and the media      *)
(* sessions that lease from it (Factory.New and Session.Close of           *)
(* internal/media/session/session.go), any number of them concurrently.    *)
(*                                                                         *)
(* A port stands for its RTP/RTCP pair.  The channel "available" is kept   *)
(* as a set: no property depends on the order in which pairs are reused.   *)
(* Its capacity is the number of pairs, and a send blocks when it is full. *)
(***************************************************************************)
EXTENDS Integers, FiniteSets

CONSTANTS
  Ports,      \* the configured pairs, named by their even RTP port
  Sessions,   \* calls of Factory.New and the media sessions they create
  Closers,    \* goroutines that close one session: its Run, and stopMedia
  NoPort      \* no port

ASSUME PortsAssumption == IsFiniteSet(Ports) /\ NoPort \notin Ports

Legs == {"caller", "callee"}

VARIABLES
  available,  \* Pool.available
  inUse,      \* Pool.inUse (changed in one step with the sockets it counts)
  pc,         \* where the creation, or the closing, of a session is
  leg,        \* the leg Factory.New is acquiring for
  hand,       \* Acquire: the port taken from the channel and being bound
  failed,     \* Acquire: the ports that could not be bound
  lease,      \* the port each leg owns, from bind until it is sent back
  sockets,    \* the legs whose sockets are open
  closer      \* the calls of Session.Close

vars == <<available, inUse, pc, leg, hand, failed, lease, sockets, closer>>

Init ==
  /\ available = Ports
  /\ inUse = 0
  /\ pc = [m \in Sessions |-> "idle"]
  /\ leg = [m \in Sessions |-> "caller"]
  /\ hand = [m \in Sessions |-> NoPort]
  /\ failed = [m \in Sessions |-> {}]
  /\ lease = [m \in Sessions |-> [l \in Legs |-> NoPort]]
  /\ sockets = [m \in Sessions |-> {}]
  /\ closer = [m \in Sessions |-> [c \in Closers |-> "no"]]

Goto(m, where) == pc' = [pc EXCEPT ![m] = where]

\* Mutant: make(chan uint16, pairCount-1).
SendAvailableShort(p) ==
  /\ Cardinality(available) < Cardinality(Ports) - 1
  /\ available' = available \cup {p}

\* A send on the channel: blocks while it is full.
SendAvailable(p) ==
  /\ Cardinality(available) < Cardinality(Ports)
  /\ available' = available \cup {p}

-----------------------------------------------------------------------------
(* Pool.Acquire, called by Factory.New for the caller and the callee leg.  *)

NewCalled(m) ==
  /\ pc[m] = "idle"
  /\ Goto(m, "acquire")
  /\ UNCHANGED <<available, inUse, leg, hand, failed, lease, sockets, closer>>

\* The receive case of the select.  A port in failed counts one attempt.
PortTaken(m, p) ==
  /\ pc[m] = "acquire" /\ failed[m] # Ports
  /\ p \in available
  /\ available' = available \ {p}
  /\ hand' = [hand EXCEPT ![m] = p]
  /\ Goto(m, "bind")
  /\ UNCHANGED <<inUse, leg, failed, lease, sockets, closer>>

\* Mutant: a select without the default case.
ExhaustedWaits(m) ==
  /\ pc[m] = "acquire"
  /\ failed[m] = Ports
  /\ Goto(m, "deferred")
  /\ UNCHANGED <<available, inUse, leg, hand, failed, lease, sockets, closer>>

\* The default case, and the end of the attempts.
Exhausted(m) ==
  /\ pc[m] = "acquire"
  /\ available = {} \/ failed[m] = Ports
  /\ Goto(m, "deferred")
  /\ UNCHANGED <<available, inUse, leg, hand, failed, lease, sockets, closer>>

\* The ctx.Done case: a deadline may pass at any moment.
CtxExpired(m) ==
  /\ pc[m] = "acquire" /\ failed[m] # Ports
  /\ Goto(m, "deferred")
  /\ UNCHANGED <<available, inUse, leg, hand, failed, lease, sockets, closer>>

\* Mutant: a port that cannot be bound is given back at once as well.
BindFailsReturned(m) ==
  /\ pc[m] = "bind"
  /\ failed' = [failed EXCEPT ![m] = @ \cup {hand[m]}]
  /\ available' = available \cup {hand[m]}
  /\ hand' = [hand EXCEPT ![m] = NoPort]
  /\ Goto(m, "acquire")
  /\ UNCHANGED <<inUse, leg, lease, sockets, closer>>

\* Pool.bind opens both sockets.
BindSucceeds(m) ==
  /\ pc[m] = "bind"
  /\ lease' = [lease EXCEPT ![m][leg[m]] = hand[m]]
  /\ sockets' = [sockets EXCEPT ![m] = @ \cup {leg[m]}]
  /\ inUse' = inUse + 1
  /\ hand' = [hand EXCEPT ![m] = NoPort]
  /\ Goto(m, "deferred")
  /\ UNCHANGED <<available, leg, failed, closer>>

\* Another process holds one of the two ports: bind closes what it opened.
BindFails(m) ==
  /\ pc[m] = "bind"
  /\ failed' = [failed EXCEPT ![m] = @ \cup {hand[m]}]
  /\ hand' = [hand EXCEPT ![m] = NoPort]
  /\ Goto(m, "acquire")
  /\ UNCHANGED <<available, inUse, leg, lease, sockets, closer>>

\* The deferred loop gives the failed ports back, one send at a time.
FailedReturned(m, p) ==
  /\ pc[m] = "deferred" /\ p \in failed[m]
  /\ SendAvailable(p)
  /\ failed' = [failed EXCEPT ![m] = @ \ {p}]
  /\ UNCHANGED <<inUse, pc, leg, hand, lease, sockets, closer>>

\* Mutant: without a callee lease New returns and keeps the caller's.
AcquireReturnsEarly(m) ==
  /\ pc[m] = "deferred" /\ failed[m] = {}
  /\ IF lease[m][leg[m]] # NoPort
       THEN /\ Goto(m, IF leg[m] = "caller" THEN "acquire" ELSE "build")
            /\ leg' = [leg EXCEPT ![m] = "callee"]
       ELSE /\ Goto(m, "rejected")
            /\ UNCHANGED leg
  /\ UNCHANGED <<available, inUse, hand, failed, lease, sockets, closer>>

\* Acquire returns to Factory.New: next leg, build, or give up.
AcquireReturns(m) ==
  /\ pc[m] = "deferred" /\ failed[m] = {}
  /\ IF lease[m][leg[m]] # NoPort
       THEN /\ Goto(m, IF leg[m] = "caller" THEN "acquire" ELSE "build")
            /\ leg' = [leg EXCEPT ![m] = "callee"]
       ELSE /\ Goto(m, "abort")
            /\ UNCHANGED leg
  /\ UNCHANGED <<available, inUse, hand, failed, lease, sockets, closer>>

\* NewRewriter and uuid.NewV7 succeed, or one of them fails.
Built(m) ==
  /\ pc[m] = "build"
  /\ \/ Goto(m, "open")
     \/ Goto(m, "abort")
  /\ UNCHANGED <<available, inUse, leg, hand, failed, lease, sockets, closer>>

-----------------------------------------------------------------------------
(* Lease.Release, from the error paths of Factory.New and from Close.      *)

Releasing(m) == pc[m] \in {"abort", "closing"}

\* The caller's lease is released before the callee's.
Turn(m, l) == l = "callee" => lease[m]["caller"] = NoPort

SocketsClosed(m, l) ==
  /\ Releasing(m) /\ Turn(m, l) /\ l \in sockets[m]
  /\ sockets' = [sockets EXCEPT ![m] = @ \ {l}]
  /\ inUse' = inUse - 1
  /\ UNCHANGED <<available, pc, leg, hand, failed, lease, closer>>

PortReturned(m, l) ==
  /\ Releasing(m) /\ Turn(m, l) /\ l \notin sockets[m]
  /\ lease[m][l] # NoPort
  /\ SendAvailable(lease[m][l])
  /\ lease' = [lease EXCEPT ![m][l] = NoPort]
  /\ UNCHANGED <<inUse, pc, leg, hand, failed, sockets, closer>>

Released(m) ==
  /\ Releasing(m)
  /\ \A l \in Legs : lease[m][l] = NoPort
  /\ Goto(m, IF pc[m] = "abort" THEN "rejected" ELSE "closed")
  /\ UNCHANGED <<available, inUse, leg, hand, failed, lease, sockets, closer>>

\* Session.Close: the first caller runs the body of closeOnce, the others wait.
CloseCalled(m, c) ==
  /\ pc[m] \in {"open", "closing", "closed"} /\ closer[m][c] = "no"
  /\ closer' = [closer EXCEPT ![m][c] = "waiting"]
  /\ IF pc[m] = "open" THEN Goto(m, "closing") ELSE UNCHANGED pc
  /\ UNCHANGED <<available, inUse, leg, hand, failed, lease, sockets>>

\* Mutant: a flag instead of sync.Once, so the second caller does not wait.
CloseReturnsAtOnce(m, c) ==
  /\ closer[m][c] = "waiting"
  /\ closer' = [closer EXCEPT ![m][c] = "returned"]
  /\ UNCHANGED <<available, inUse, pc, leg, hand, failed, lease, sockets>>

CloseReturns(m, c) ==
  /\ closer[m][c] = "waiting" /\ pc[m] = "closed"
  /\ closer' = [closer EXCEPT ![m][c] = "returned"]
  /\ UNCHANGED <<available, inUse, pc, leg, hand, failed, lease, sockets>>

-----------------------------------------------------------------------------
\* The steps a goroutine inside New, Release or Close takes by itself.
Running(m) ==
  \/ \E p \in Ports : PortTaken(m, p) \/ FailedReturned(m, p)
  \/ Exhausted(m) \/ BindSucceeds(m) \/ BindFails(m)
  \/ AcquireReturns(m) \/ Built(m)
  \/ \E l \in Legs : SocketsClosed(m, l) \/ PortReturned(m, l)
  \/ Released(m)
  \/ \E c \in Closers : CloseReturns(m, c)

Next ==
  \E m \in Sessions :
    \/ NewCalled(m) \/ CtxExpired(m) \/ Running(m)
    \/ \E c \in Closers : CloseCalled(m, c)

Spec == Init /\ [][Next]_vars

\* Goroutines are scheduled; deadlines and calls of Close are not assumed.
FairSpec == Spec /\ \A m \in Sessions : WF_vars(Running(m))

-----------------------------------------------------------------------------
(* Properties.                                                             *)

\* Every variable has the shape of the Go value it stands for.
TypeOK ==
  /\ available \subseteq Ports
  /\ inUse \in Int
  /\ pc \in [Sessions -> {"idle", "acquire", "bind", "deferred", "build", "open",
                          "abort", "closing", "rejected", "closed"}]
  /\ leg \in [Sessions -> Legs]
  /\ hand \in [Sessions -> Ports \cup {NoPort}]
  /\ failed \in [Sessions -> SUBSET Ports]
  /\ lease \in [Sessions -> [Legs -> Ports \cup {NoPort}]]
  /\ sockets \in [Sessions -> SUBSET Legs]
  /\ closer \in [Sessions -> [Closers -> {"no", "waiting", "returned"}]]

\* The pairs that session m keeps out of the channel.
Leased(m) == {lease[m][l] : l \in Legs} \ {NoPort}
Holds(m) == failed[m] \cup ({hand[m]} \ {NoPort}) \cup Leased(m)

\* No pair is in two places: in the channel and with a session, with two
\* sessions, or twice with one session.  In particular bind never meets a pair
\* that this process has already bound, and no pair is returned twice.
PairsExclusive ==
  \A m \in Sessions :
    /\ Holds(m) \cap available = {}
    /\ \A n \in Sessions \ {m} : Holds(m) \cap Holds(n) = {}
    /\ hand[m] \notin failed[m] \cup Leased(m)
    /\ failed[m] \cap Leased(m) = {}
    /\ lease[m]["caller"] = lease[m]["callee"] => lease[m]["caller"] = NoPort

\* When every session is over, all pairs are back and none is counted as used:
\* no error path of Acquire, New or Close loses a pair.
NoPairLost ==
  (\A m \in Sessions : pc[m] \in {"idle", "rejected", "closed"}) =>
    available = Ports /\ inUse = 0

\* New leases both leg-facing pairs or none.
BothOrNone ==
  \A m \in Sessions :
    /\ pc[m] = "open" => sockets[m] = Legs /\ Cardinality(Leased(m)) = 2
    /\ pc[m] \in {"rejected", "closed"} => sockets[m] = {} /\ Leased(m) = {}

\* When Close returns to any of its callers, the pairs are back in the pool,
\* also when it was another goroutine that did the work.
CloseIsBarrier ==
  \A m \in Sessions, c \in Closers :
    closer[m][c] = "returned" => sockets[m] = {} /\ Leased(m) = {}

\* New returns without help from deadlines or from other sessions.
NewReturns ==
  \A m \in Sessions :
    (pc[m] = "acquire") ~> (pc[m] \in {"open", "rejected", "closed"})

\* Every call of Close returns.
ClosesReturn ==
  \A m \in Sessions, c \in Closers :
    (closer[m][c] = "waiting") ~> (closer[m][c] = "returned")
=============================================================================
