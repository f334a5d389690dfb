---------------------------- MODULE Registration ----------------------------
(***************************************************************************)
(* REGISTER requests for one address of record: Handler.handle of          *)
(* internal/sip/registrar/handler.go after authentication, Apply, List and *)
(* Expire of internal/core/registration/manager.go, and the two stores     *)
(* behind them, internal/platform/memory/registration_store.go and         *)
(* internal/platform/mysql/store.go.                                       *)
(*                                                                         *)
(* A store operation is one step (a mutex, a serializable transaction).    *)
(* The clock is read in an earlier step than the one that uses it.         *)
(***************************************************************************)
EXTENDS Integers, Sequences, FiniteSets

CONSTANTS
  Handlers,     \* REGISTER requests, each with its handler goroutine
  Contacts,     \* the Contact URIs of the devices
  Lifetimes,    \* expiry intervals the registrar grants, in clock units
  MaxContacts,  \* number of Contact headers in a request
  MaxBindings,  \* Credential.MaxBindings
  MaxClock,     \* bound on the clock
  Backend       \* "memory" or "mysql"

ASSUME RegistrationAssumption ==
  /\ IsFiniteSet(Contacts) /\ Lifetimes \subseteq Nat \ {0}
  /\ MaxBindings \in Nat \ {0} /\ MaxClock \in Nat /\ MaxContacts \in Nat
  /\ Backend \in {"memory", "mysql"}

VARIABLES
  clock,     \* time.Now()
  expiresAt, \* the stored bindings: ExpiresAt of each contact, 0 if no row
  handler,   \* per request: where it is, what remains of it, the time it read
  cleanup    \* Manager.Expire: the time it read, 0 when it is not running

vars == <<clock, expiresAt, handler, cleanup>>

\* What a Contact header may name.  Apply treats "*" apart only when it
\* unregisters; with an interval it is stored like any other contact.
Addresses == Contacts \cup {"*"}

\* A Contact header: an address with its interval (0 unregisters it).
Headers == [contact : Addresses, expires : Lifetimes \cup {0}]

\* until: the expiry that the request has set for each contact so far (0 if it
\* unregistered it), as long as no other request has changed it since (history).
Unset == -1
Resting(listed) == [at |-> "resting", rest |-> <<>>, now |-> 0, listed |-> listed,
                    until |-> [c \in Addresses |-> Unset]]

Init ==
  /\ clock = 1
  /\ expiresAt = [c \in Addresses |-> 0]
  /\ handler = [h \in Handlers |-> Resting({})]
  /\ cleanup = 0

-----------------------------------------------------------------------------
(* The stores.  A stored time is the zero time when there is no row.       *)

ListActive(now) == {c \in Addresses : expiresAt[c] > now}

\* Mutant: the limit is compared with > instead of >=.
LimitReachedLate(contact, now) ==
  /\ contact \notin ListActive(now)
  /\ Cardinality(ListActive(now)) > MaxBindings

\* Upsert's check.  The MySQL store exempts a contact that is active at now,
\* the memory store one that has a row, expired or not.
LimitReached(contact, now) ==
  /\ IF Backend = "mysql" THEN contact \notin ListActive(now)
                          ELSE expiresAt[contact] = 0
  /\ Cardinality(ListActive(now)) >= MaxBindings

-----------------------------------------------------------------------------
(* The handler.                                                            *)

\* An error response: what earlier headers of the request changed stays changed.
Fail(h) ==
  /\ handler' = [handler EXCEPT ![h] = Resting({})]
  /\ UNCHANGED <<clock, expiresAt, cleanup>>

\* The loop goes on with the next Contact header.
NextContact(h, S, time) ==
  /\ handler' = [g \in Handlers |->
       IF g = h
         THEN [handler[h] EXCEPT
                 !.at = "loop", !.rest = Tail(@), !.now = 0,
                 !.until = [c \in Addresses |-> IF c \in S THEN time ELSE @[c]]]
         ELSE [handler[g] EXCEPT
                 !.until = [c \in Addresses |-> IF c \in S THEN Unset ELSE @[c]]]]
  /\ UNCHANGED <<clock, cleanup>>

Arrives(h, headers) ==
  /\ handler[h].at = "resting"
  /\ handler' = [handler EXCEPT ![h].at = "loop", ![h].rest = headers,
                                ![h].listed = {}]
  /\ UNCHANGED <<clock, expiresAt, cleanup>>

\* The header is refused by contactExpires or parseQ: 400 or 423.
RejectContact(h) ==
  /\ handler[h].at = "loop" /\ handler[h].rest # <<>>
  /\ Fail(h)

\* The contacts an unregistering header names.
Named(header) == IF header.contact = "*" THEN Addresses ELSE {header.contact}

\* Mutant: DELETE without the condition on contact.
UnregisterAll(h) ==
  /\ handler[h].at = "loop" /\ handler[h].rest # <<>>
  /\ Head(handler[h].rest).expires = 0
  /\ expiresAt' = [c \in Addresses |-> 0]
  /\ NextContact(h, Named(Head(handler[h].rest)), 0)

\* Apply with Expires = 0: Delete, or DeleteAll for "*".
Unregister(h) ==
  /\ handler[h].at = "loop" /\ handler[h].rest # <<>>
  /\ Head(handler[h].rest).expires = 0
  /\ expiresAt' = [c \in Addresses |-> IF c \in Named(Head(handler[h].rest))
                                        THEN 0 ELSE expiresAt[c]]
  /\ NextContact(h, Named(Head(handler[h].rest)), 0)

\* Apply reads the clock.
ReadNow(h) ==
  /\ handler[h].at = "loop" /\ handler[h].rest # <<>>
  /\ Head(handler[h].rest).expires # 0
  /\ handler' = [handler EXCEPT ![h].at = "upsert", ![h].now = clock]
  /\ UNCHANGED <<clock, expiresAt, cleanup>>

\* Store.Upsert stores the binding.
Upsert(h) ==
  /\ handler[h].at = "upsert"
  /\ LET header == Head(handler[h].rest)
     IN  /\ ~LimitReached(header.contact, handler[h].now)
         /\ expiresAt' = [expiresAt EXCEPT ![header.contact] =
                            handler[h].now + header.expires]
         /\ NextContact(h, {header.contact}, handler[h].now + header.expires)

\* Store.Upsert returns ErrBindingLimit: 403.
UpsertRefuses(h) ==
  /\ handler[h].at = "upsert"
  /\ LimitReached(Head(handler[h].rest).contact, handler[h].now)
  /\ Fail(h)

\* The store fails, or the transaction context is done: 500.
StoreFails(h) ==
  /\ handler[h].at # "resting"
  /\ Fail(h)

\* respondBindings: List reads the clock,
ReadListNow(h) ==
  /\ handler[h].at = "loop" /\ handler[h].rest = <<>>
  /\ handler' = [handler EXCEPT ![h].at = "list", ![h].now = clock]
  /\ UNCHANGED <<clock, expiresAt, cleanup>>

\* and then the store; 200.
RespondBindings(h) ==
  /\ handler[h].at = "list"
  /\ handler' = [handler EXCEPT ![h] = Resting(ListActive(handler[h].now))]
  /\ UNCHANGED <<clock, expiresAt, cleanup>>

-----------------------------------------------------------------------------
(* Manager.Expire, on App.Run's ticker, and the clock.                     *)

ExpireReadsNow ==
  /\ cleanup = 0
  /\ cleanup' = clock
  /\ UNCHANGED <<clock, expiresAt, handler>>

\* Mutant: expires_at <= now + the interval until the next cleanup.
DeleteExpiredEarly ==
  /\ cleanup # 0
  /\ expiresAt' = [c \in Addresses |-> IF expiresAt[c] > cleanup + 1
                                        THEN expiresAt[c] ELSE 0]
  /\ cleanup' = 0
  /\ UNCHANGED <<clock, handler>>

DeleteExpired ==
  /\ cleanup # 0
  /\ expiresAt' = [c \in Addresses |-> IF expiresAt[c] > cleanup
                                        THEN expiresAt[c] ELSE 0]
  /\ cleanup' = 0
  /\ UNCHANGED <<clock, handler>>

Tick ==
  /\ clock < MaxClock
  /\ clock' = clock + 1
  /\ UNCHANGED <<expiresAt, handler, cleanup>>

-----------------------------------------------------------------------------
Next ==
  \/ ExpireReadsNow \/ DeleteExpired \/ Tick
  \/ \E h \in Handlers :
       \/ \E n \in 0..MaxContacts : \E s \in [1..n -> Headers] : Arrives(h, s)
       \/ RejectContact(h) \/ Unregister(h) \/ ReadNow(h) \/ Upsert(h)
       \/ UpsertRefuses(h) \/ StoreFails(h)
       \/ ReadListNow(h) \/ RespondBindings(h)

Spec == Init /\ [][Next]_vars

-----------------------------------------------------------------------------
(* Properties.                                                             *)

\* An address of record has at most MaxBindings active bindings.  The memory
\* store exempts a contact whose row has expired but is not yet cleaned up, so
\* there this does not hold.
BindingLimit == Cardinality(ListActive(clock)) <= MaxBindings

\* A store goes beyond the limit in one case only: it refreshes a contact that
\* was active when Apply read the clock and has expired since.  In particular
\* two requests for new contacts cannot both take the last place.
LimitExceededOnlyByLag ==
  [][ LET before == Cardinality(ListActive(clock))
          after == Cardinality(ListActive(clock)')
      IN  after > MaxBindings /\ after > before =>
            \E h \in Handlers :
              /\ handler[h].at = "upsert"
              /\ expiresAt[Head(handler[h].rest).contact] \in
                   (handler[h].now + 1)..clock ]_vars

\* An active binding disappears only when a request unregisters it: the cleanup
\* removes none, although it runs with a time it read earlier.
OnlyUnregisterRemoves ==
  [][ \A c \in Addresses :
        expiresAt[c] > clock /\ expiresAt'[c] = 0 =>
          \E h \in Handlers :
            /\ handler[h].at = "loop" /\ handler'[h].rest # handler[h].rest
            /\ c \in Named(Head(handler[h].rest)) ]_vars

\* The 200 shows the effect of the whole request: unless another request has
\* changed a contact meanwhile, it is listed only if this request registered it
\* beyond the time that List read, and always if beyond the current time.  A
\* contact that expires in between may have been cleaned up already.
ReplyShowsRequest ==
  [][ \A h \in Handlers :
        handler[h].at = "list" /\ RespondBindings(h) =>
          \A c \in Addresses :
            LET until == handler[h].until[c]
            IN  until # Unset =>
                  /\ c \in handler'[h].listed => until > handler[h].now
                  /\ until > clock => c \in handler'[h].listed ]_vars
=============================================================================
