------------------------- MODULE RegistrationProofs -------------------------
(***************************************************************************)
(* What holds of Registration for any number of concurrent REGISTERs,      *)
(* contacts and lifetimes, and for an unbounded clock.                     *)
(***************************************************************************)
EXTENDS Registration, FiniteSetTheorems, TLAPS

HandlerType ==
  [at : {"resting", "loop", "upsert", "list"}, rest : Seq(Headers), now : Nat,
   listed : SUBSET Addresses, until : [Addresses -> Nat \cup {Unset}]]

RTypeOK ==
  /\ clock \in Nat \ {0} /\ cleanup \in Nat
  /\ expiresAt \in [Addresses -> Nat]
  /\ handler \in [Handlers -> HandlerType]

\* The times that were read before are not later than the clock, and a request
\* that is about to store has an interval to store.
ReadBefore ==
  /\ cleanup <= clock
  /\ \A h \in Handlers :
       /\ handler[h].at \in {"upsert", "list"} => handler[h].now <= clock
       /\ handler[h].at = "upsert" =>
            handler[h].rest # <<>> /\ Head(handler[h].rest).expires # 0

\* The store has what a request set and no other changed, until it is cleaned up.
Tracks(until, stored, time) ==
  until # Unset => stored = until \/ (stored = 0 /\ until <= time)

UntilStored ==
  \A h \in Handlers, c \in Addresses :
    Tracks(handler[h].until[c], expiresAt[c], clock)

RInv == RTypeOK /\ ReadBefore /\ UntilStored

-----------------------------------------------------------------------------
\* A request between two REGISTERs is well-formed and remembers nothing.
LEMMA RestingOK ==
  ASSUME NEW S \in SUBSET Addresses
  PROVE  /\ Resting(S) \in HandlerType /\ Resting(S).at = "resting"
         /\ Resting(S).listed = S
         /\ \A c \in Addresses : Resting(S).until[c] = Unset
  BY DEF Resting, HandlerType

\* What a Contact header holds.
LEMMA HeaderTyped ==
  ASSUME NEW x \in Headers
  PROVE  x.contact \in Addresses /\ x.expires \in Nat
<1>1. x.contact \in Addresses /\ x.expires \in Lifetimes \cup {0}
  BY DEF Headers
<1>2. \A y \in Lifetimes \cup {0} : y \in Nat
  BY RegistrationAssumption
<1> QED
  BY <1>1, <1>2, Zenon

\* The invariant holds before the first REGISTER.
LEMMA RegistrationInit == Init => RInv
<1> SUFFICES ASSUME Init PROVE RInv
  OBVIOUS
<1>1. \A h \in Handlers : handler[h] = Resting({})
  BY DEF Init
<1>2. RTypeOK
  BY RestingOK DEF Init, RTypeOK
<1>3. ReadBefore
  BY <1>1, RestingOK DEF Init, ReadBefore
<1>4. UntilStored
  BY <1>1, RestingOK DEF UntilStored, Tracks
<1> QED
  BY <1>2, <1>3, <1>4 DEF RInv

\* A request that ends leaves the store and the other requests alone.
LEMMA RestingStep ==
  ASSUME RInv, NEW h \in Handlers, NEW S \in SUBSET Addresses,
         handler' = [handler EXCEPT ![h] = Resting(S)],
         UNCHANGED <<clock, expiresAt, cleanup>>
  PROVE  RInv'
<1>1. /\ handler'[h] = Resting(S)
      /\ \A g \in Handlers \ {h} : handler'[g] = handler[g]
  BY DEF RInv, RTypeOK
<1>2. RTypeOK'
  BY RestingOK DEF RInv, RTypeOK
<1>3. ReadBefore'
  BY <1>1, RestingOK DEF RInv, ReadBefore
<1>4. UntilStored'
  BY <1>1, RestingOK DEF RInv, UntilStored, Tracks
<1> QED
  BY <1>2, <1>3, <1>4 DEF RInv

\* A request arrives or reads the clock.
LEMMA ReadingStep ==
  ASSUME RInv, NEW h \in Handlers,
         \/ \E n \in 0..MaxContacts : \E s \in [1..n -> Headers] : Arrives(h, s)
         \/ ReadNow(h) \/ ReadListNow(h)
  PROVE  RInv'
<1>1. UNCHANGED <<clock, expiresAt, cleanup>> /\ handler[h] \in HandlerType
  BY Zenon DEF Arrives, ReadNow, ReadListNow, RInv, RTypeOK
<1>2. \A g \in Handlers \ {h} : handler'[g] = handler[g]
  BY Zenon DEF Arrives, ReadNow, ReadListNow, RInv, RTypeOK
<1>3. /\ handler'[h] \in HandlerType /\ handler'[h].until = handler[h].until
      /\ handler'[h].at \in {"upsert", "list"} => handler'[h].now = clock
      /\ handler'[h].at = "upsert" => /\ handler'[h].rest # <<>>
                                      /\ Head(handler'[h].rest).expires # 0
  <2>1. CASE \E n \in 0..MaxContacts : \E s \in [1..n -> Headers] : Arrives(h, s)
    <3>1. PICK n \in 0..MaxContacts : \E s \in [1..n -> Headers] : Arrives(h, s)
      BY <2>1
    <3>2. PICK s \in [1..n -> Headers] : Arrives(h, s)
      BY <3>1
    <3>3. s \in Seq(Headers)
      BY RegistrationAssumption
    <3> QED
      BY <1>1, <3>2, <3>3, Zenon DEF Arrives, HandlerType, RInv, RTypeOK
  <2>2. CASE ReadNow(h)
    BY <1>1, <2>2, Zenon DEF ReadNow, HandlerType, RInv, RTypeOK
  <2>3. CASE ReadListNow(h)
    BY <1>1, <2>3, Zenon DEF ReadListNow, HandlerType, RInv, RTypeOK
  <2> QED
    BY <2>1, <2>2, <2>3, Zenon
<1>4. DOMAIN handler' = Handlers /\ handler' \in [Handlers -> HandlerType]
  <2>1. handler' = [g \in Handlers |-> handler'[g]]
    BY Zenon DEF Arrives, ReadNow, ReadListNow, RInv, RTypeOK
  <2> QED
    BY <1>2, <1>3, <2>1 DEF RInv, RTypeOK
<1>5. RTypeOK'
  BY <1>1, <1>4 DEF RInv, RTypeOK
<1>6. ReadBefore'
  BY <1>1, <1>2, <1>3 DEF RInv, RTypeOK, ReadBefore
<1>7. UntilStored'
  BY <1>1, <1>2, <1>3, Zenon DEF RInv, UntilStored
<1> QED
  BY <1>5, <1>6, <1>7 DEF RInv

\* A header is applied: the store has the new times, this request remembers
\* them and every other one forgets those contacts.
LEMMA ContactStep ==
  ASSUME RInv, NEW h \in Handlers, NEW S \in SUBSET Addresses, NEW time \in Nat,
         handler[h].rest # <<>>, NextContact(h, S, time),
         expiresAt' = [c \in Addresses |-> IF c \in S THEN time ELSE expiresAt[c]]
  PROVE  RInv'
<1> DEFINE Until(g) == [c \in Addresses |->
              IF c \in S THEN IF g = h THEN time ELSE Unset ELSE handler[g].until[c]]
<1>0. /\ \A g \in Handlers : handler[g] \in HandlerType
      /\ UNCHANGED <<clock, cleanup>> /\ expiresAt \in [Addresses -> Nat]
  BY Zenon DEF RInv, RTypeOK, NextContact
<1>1. Tail(handler[h].rest) \in Seq(Headers)
  BY <1>0 DEF HandlerType
<1>2. /\ handler'[h] = [at |-> "loop", rest |-> Tail(handler[h].rest), now |-> 0,
                        listed |-> handler[h].listed, until |-> Until(h)]
      /\ handler'[h].until = Until(h) /\ handler'[h].at = "loop"
  BY <1>0, Zenon DEF NextContact, HandlerType
<1>3. \A g \in Handlers \ {h} :
        /\ handler'[g] = [at |-> handler[g].at, rest |-> handler[g].rest,
                          now |-> handler[g].now, listed |-> handler[g].listed,
                          until |-> Until(g)]
        /\ handler'[g].until = Until(g) /\ handler'[g].at = handler[g].at
        /\ handler'[g].now = handler[g].now /\ handler'[g].rest = handler[g].rest
  BY <1>0, Zenon DEF NextContact, HandlerType
<1>4. \A g \in Handlers : Until(g) \in [Addresses -> Nat \cup {Unset}]
  BY <1>0 DEF HandlerType
<1>5. \A g \in Handlers, c \in Addresses :
        Until(g)[c] = IF c \in S THEN IF g = h THEN time ELSE Unset
                                 ELSE handler[g].until[c]
  OBVIOUS
<1> HIDE DEF Until
<1>6. \A g \in Handlers : handler'[g] \in HandlerType
  <2>1. handler'[h] \in HandlerType
    BY <1>0, <1>1, <1>2, <1>4 DEF HandlerType
  <2>2. ASSUME NEW g \in Handlers \ {h} PROVE handler'[g] \in HandlerType
    <3>1. /\ handler[g].at \in {"resting", "loop", "upsert", "list"}
          /\ handler[g].rest \in Seq(Headers) /\ handler[g].now \in Nat
          /\ handler[g].listed \in SUBSET Addresses
      BY <1>0, <2>2, Zenon DEF HandlerType
    <3>2. Until(g) \in [Addresses -> Nat \cup {Unset}]
      BY <1>4, <2>2
    <3>3. handler'[g] = [at |-> handler[g].at, rest |-> handler[g].rest,
                         now |-> handler[g].now, listed |-> handler[g].listed,
                         until |-> Until(g)]
      BY <1>3, <2>2
    <3> QED
      BY <3>1, <3>2, <3>3 DEF HandlerType
  <2> QED
    BY <2>1, <2>2
<1>7. handler' \in [Handlers -> HandlerType]
  BY <1>6, Zenon DEF NextContact
<1>8. RTypeOK'
  BY <1>0, <1>7 DEF RInv, RTypeOK
<1>9. ReadBefore'
  BY <1>0, <1>2, <1>3, Zenon DEF RInv, ReadBefore
<1>10. UntilStored'
  <2> SUFFICES ASSUME NEW g \in Handlers, NEW c \in Addresses
               PROVE  Tracks(handler'[g].until[c], expiresAt'[c], clock)
    BY <1>0 DEF UntilStored
  <2>1. handler'[g].until[c] = Until(g)[c]
    BY <1>2, <1>3, Zenon
  <2>2. Tracks(handler[g].until[c], expiresAt[c], clock)
    BY DEF RInv, UntilStored
  <2> QED
    BY <1>5, <2>1, <2>2 DEF Tracks
<1> QED
  BY <1>8, <1>9, <1>10 DEF RInv

\* Unregister sets the times of the contacts it names to zero.
LEMMA UnregisterStep ==
  ASSUME RInv, NEW h \in Handlers, Unregister(h)
  PROVE  RInv'
<1>1. handler[h].rest \in Seq(Headers) /\ handler[h].rest # <<>>
  BY DEF RInv, RTypeOK, HandlerType, Unregister
<1>2. Named(Head(handler[h].rest)) \in SUBSET Addresses
  <2>1. Head(handler[h].rest) \in Headers
    BY <1>1
  <2>2. \A header \in Headers : Named(header) \in SUBSET Addresses
    BY DEF Named, Headers
  <2> QED
    BY <2>1, <2>2
<1> QED
  BY <1>1, <1>2, ContactStep DEF Unregister

\* Upsert sets the time of one contact to its expiry.
LEMMA UpsertStep ==
  ASSUME RInv, NEW h \in Handlers, Upsert(h)
  PROVE  RInv'
<1> DEFINE header == Head(handler[h].rest)
           time == handler[h].now + header.expires
<1>1. /\ handler[h].rest \in Seq(Headers) /\ handler[h].rest # <<>>
      /\ handler[h].now \in Nat /\ expiresAt \in [Addresses -> Nat]
  BY Zenon DEF RInv, RTypeOK, HandlerType, ReadBefore, Upsert
<1>2. header \in Headers
  BY <1>1
<1> HIDE DEF header
<1>3. header.contact \in Addresses /\ header.expires \in Nat
  BY <1>2, HeaderTyped
<1>4. time \in Nat /\ {header.contact} \in SUBSET Addresses
  BY <1>1, <1>3
<1>5. /\ expiresAt' = [expiresAt EXCEPT ![header.contact] = time]
      /\ NextContact(h, {header.contact}, time)
  BY Zenon DEF Upsert, header
<1> HIDE DEF time
<1>6. expiresAt' = [c \in Addresses |-> IF c \in {header.contact} THEN time ELSE expiresAt[c]]
  BY <1>1, <1>3, <1>5, Zenon
<1> QED
  BY <1>1, <1>4, <1>5, <1>6, ContactStep, Zenon

\* The cleanup and the clock: a contact that is removed had expired.
LEMMA ClockStep ==
  ASSUME RInv, ExpireReadsNow \/ DeleteExpired \/ Tick
  PROVE  RInv'
<1>0. /\ UNCHANGED handler /\ clock \in Nat /\ cleanup \in Nat
      /\ expiresAt \in [Addresses -> Nat] /\ cleanup <= clock
  BY DEF RInv, RTypeOK, ReadBefore, ExpireReadsNow, DeleteExpired, Tick
<1>1. /\ clock' \in Nat /\ clock' >= clock /\ cleanup' \in Nat /\ cleanup' <= clock'
      /\ expiresAt' \in [Addresses -> Nat]
      /\ \A c \in Addresses : expiresAt'[c] = expiresAt[c]
                               \/ (expiresAt'[c] = 0 /\ expiresAt[c] <= clock)
  BY <1>0 DEF ExpireReadsNow, DeleteExpired, Tick
<1>2. RTypeOK'
  BY <1>0, <1>1 DEF RInv, RTypeOK
<1>3. ReadBefore'
  BY <1>0, <1>1 DEF RInv, RTypeOK, HandlerType, ReadBefore
<1>4. UntilStored'
  <2> SUFFICES ASSUME NEW g \in Handlers, NEW c \in Addresses
               PROVE  Tracks(handler[g].until[c], expiresAt'[c], clock')
    BY <1>0 DEF UntilStored
  <2>1. Tracks(handler[g].until[c], expiresAt[c], clock)
    BY DEF RInv, UntilStored
  <2>2. handler[g].until[c] \in Nat \cup {Unset} /\ expiresAt[c] \in Nat
    BY <1>0 DEF RInv, RTypeOK, HandlerType
  <2> QED
    BY <1>0, <1>1, <2>1, <2>2 DEF Tracks, Unset
<1> QED
  BY <1>2, <1>3, <1>4 DEF RInv

\* Steps that answer an error or the list.
LEMMA EndStep ==
  ASSUME RInv, NEW h \in Handlers,
         \/ RejectContact(h) \/ UpsertRefuses(h) \/ StoreFails(h)
         \/ RespondBindings(h)
  PROVE  RInv'
<1>1. CASE RejectContact(h) \/ UpsertRefuses(h) \/ StoreFails(h)
  BY <1>1, RestingStep DEF RejectContact, UpsertRefuses, StoreFails, Fail
<1>2. CASE RespondBindings(h)
  <2>1. ListActive(handler[h].now) \in SUBSET Addresses
    BY DEF ListActive
  <2> QED
    BY <1>2, <2>1, RestingStep, Zenon DEF RespondBindings
<1> QED
  BY <1>1, <1>2

-----------------------------------------------------------------------------
\* The inductive invariant holds in every state.
THEOREM RegistrationInvariant == Spec => []RInv
<1>1. RInv /\ [Next]_vars => RInv'
  <2> SUFFICES ASSUME RInv, [Next]_vars PROVE RInv'
    OBVIOUS
  <2>1. CASE UNCHANGED vars
    BY <2>1 DEF RInv, RTypeOK, ReadBefore, UntilStored, vars
  <2> QED
    BY <2>1, ClockStep, ReadingStep, UnregisterStep, UpsertStep, EndStep, Zenon DEF Next
<1> QED
  BY <1>1, RegistrationInit, PTL DEF Spec

\* Of the steps that change the store, all but Upsert only take bindings away.
LEMMA ActiveShrinks ==
  ASSUME RInv, [Next]_vars, \A h \in Handlers : ~Upsert(h)
  PROVE  ListActive(clock)' \subseteq ListActive(clock)
<1>0. clock \in Nat /\ cleanup \in Nat /\ expiresAt \in [Addresses -> Nat]
  BY DEF RInv, RTypeOK
<1>1. /\ clock' \in Nat /\ clock' >= clock
      /\ \A c \in Addresses : expiresAt'[c] \in {0, expiresAt[c]}
  <2>1. CASE ExpireReadsNow \/ DeleteExpired \/ Tick
    BY <1>0, <2>1 DEF ExpireReadsNow, DeleteExpired, Tick
  <2>2. ASSUME NEW h \in Handlers, Unregister(h)
        PROVE /\ clock' \in Nat /\ clock' >= clock
              /\ \A c \in Addresses : expiresAt'[c] \in {0, expiresAt[c]}
    <3>1. clock' = clock
      BY <2>2, Zenon DEF Unregister, NextContact
    <3>2. \A c \in Addresses : expiresAt'[c] \in {0, expiresAt[c]}
      BY <2>2, Zenon DEF Unregister
    <3> QED
      BY <1>0, <3>1, <3>2
  <2>3. CASE UNCHANGED <<clock, expiresAt>>
    BY <1>0, <2>3
  <2>4. \/ ExpireReadsNow \/ DeleteExpired \/ Tick
        \/ \E h \in Handlers : Unregister(h)
        \/ UNCHANGED <<clock, expiresAt>>
    <3>1. ASSUME NEW h \in Handlers,
                 \/ \E n \in 0..MaxContacts : \E s \in [1..n -> Headers] : Arrives(h, s)
                 \/ RejectContact(h) \/ ReadNow(h) \/ UpsertRefuses(h)
                 \/ StoreFails(h) \/ ReadListNow(h) \/ RespondBindings(h)
          PROVE  UNCHANGED <<clock, expiresAt>>
      BY <3>1, Zenon DEF Arrives, RejectContact, ReadNow, UpsertRefuses,
                         StoreFails, Fail, ReadListNow, RespondBindings
    <3>2. CASE UNCHANGED vars
      BY <3>2 DEF vars
    <3> QED
      BY <3>1, <3>2, Zenon DEF Next
  <2> QED
    BY <2>1, <2>2, <2>3, <2>4
<1> QED
  BY <1>0, <1>1 DEF ListActive

\* The sets of bindings that Upsert counts are finite.
LEMMA ActiveFinite ==
  ASSUME NEW S \in SUBSET Addresses
  PROVE  IsFiniteSet(S)
<1>1. IsFiniteSet(Contacts)
  BY RegistrationAssumption
<1>2. IsFiniteSet(Addresses)
  BY <1>1, FS_AddElement DEF Addresses
<1> QED
  BY <1>2, FS_Subset

\* Upsert of the MySQL store counts the bindings that were active at a time not
\* later than now: a new contact is stored only when it has room among them.
LEMMA UpsertWithinLimit ==
  ASSUME RInv, Backend = "mysql", NEW h \in Handlers, Upsert(h),
         Cardinality(ListActive(clock)') > MaxBindings,
         Cardinality(ListActive(clock)') > Cardinality(ListActive(clock))
  PROVE  expiresAt[Head(handler[h].rest).contact] \in (handler[h].now + 1)..clock
<1> DEFINE c == Head(handler[h].rest).contact
           now == handler[h].now
           A == ListActive(clock)
           B == ListActive(clock)'
<1>1. /\ handler[h].rest \in Seq(Headers) /\ handler[h].rest # <<>>
      /\ now \in Nat /\ clock \in Nat /\ now <= clock
      /\ expiresAt \in [Addresses -> Nat] /\ clock' = clock
  BY Zenon DEF RInv, RTypeOK, HandlerType, ReadBefore, Upsert, NextContact
<1>2. Head(handler[h].rest) \in Headers
  BY <1>1
<1>3. c \in Addresses
  BY <1>2, HeaderTyped
<1>4. ~LimitReached(c, now) /\ \A d \in Addresses \ {c} : expiresAt'[d] = expiresAt[d]
  BY <1>1, Zenon DEF Upsert
<1> HIDE DEF c, now
<1>5. A \subseteq Addresses /\ B \subseteq Addresses /\ B \subseteq A \cup {c}
  BY <1>1, <1>4, Zenon DEF ListActive
<1>6. A \subseteq ListActive(now)
  BY <1>1 DEF ListActive
<1>7. /\ IsFiniteSet(A) /\ IsFiniteSet(B) /\ IsFiniteSet(ListActive(now))
      /\ ListActive(now) \subseteq Addresses
  BY <1>5, ActiveFinite DEF ListActive
<1> HIDE DEF A, B
<1>8. /\ Cardinality(A) \in Nat /\ Cardinality(B) \in Nat
      /\ Cardinality(ListActive(now)) \in Nat /\ MaxBindings \in Nat
      /\ Cardinality(A) <= Cardinality(ListActive(now))
  BY <1>6, <1>7, FS_CardinalityType, FS_Subset, RegistrationAssumption, Zenon
<1>9. c \notin A
  <2> SUFFICES ASSUME c \in A PROVE FALSE
    OBVIOUS
  <2>1. B \subseteq A
    BY <1>5
  <2>2. Cardinality(B) <= Cardinality(A)
    BY <1>7, <2>1, FS_Subset
  <2> QED
    BY <1>8, <2>2 DEF A, B
<1>10. Cardinality(B) <= Cardinality(A) + 1
  <2>1. Cardinality(A \cup {c}) = Cardinality(A) + 1 /\ IsFiniteSet(A \cup {c})
    BY <1>7, <1>9, FS_AddElement
  <2> QED
    BY <1>5, <1>7, <2>1, FS_Subset
<1>11. c \in ListActive(now)
  <2> SUFFICES ASSUME c \notin ListActive(now) PROVE FALSE
    OBVIOUS
  <2>1. ~(Cardinality(ListActive(now)) >= MaxBindings)
    BY <1>4 DEF LimitReached
  <2> QED
    BY <1>8, <1>10, <2>1 DEF B
<1>12. expiresAt[c] > now /\ ~(expiresAt[c] > clock) /\ expiresAt[c] \in Nat
  BY <1>1, <1>3, <1>9, <1>11, Zenon DEF ListActive, A
<1>13. expiresAt[c] \in (now + 1)..clock
  BY <1>1, <1>12
<1> QED
  BY <1>13, Zenon DEF c, now

\* With the MySQL store the bindings of a user go beyond the limit only when a
\* contact is refreshed that expired after Apply had read the clock.
THEOREM LimitKept == Backend = "mysql" /\ Spec => LimitExceededOnlyByLag
<1> SUFFICES ASSUME Backend = "mysql" PROVE Spec => LimitExceededOnlyByLag
  OBVIOUS
<1>1. ASSUME RInv, [Next]_vars,
             Cardinality(ListActive(clock)') > MaxBindings,
             Cardinality(ListActive(clock)') > Cardinality(ListActive(clock))
      PROVE  \E h \in Handlers :
               /\ handler[h].at = "upsert"
               /\ expiresAt[Head(handler[h].rest).contact] \in
                    (handler[h].now + 1)..clock
  <2>1. PICK h \in Handlers : Upsert(h)
    <3> SUFFICES ASSUME \A h \in Handlers : ~Upsert(h) PROVE FALSE
      OBVIOUS
    <3>1. ListActive(clock)' \subseteq ListActive(clock)
      BY <1>1, ActiveShrinks
    <3>2. ListActive(clock) \subseteq Addresses
      BY DEF ListActive
    <3>3. IsFiniteSet(ListActive(clock)) /\ IsFiniteSet(ListActive(clock)')
      BY <3>1, <3>2, ActiveFinite, FS_Subset
    <3>4. /\ Cardinality(ListActive(clock)') <= Cardinality(ListActive(clock))
          /\ Cardinality(ListActive(clock)') \in Nat
          /\ Cardinality(ListActive(clock)) \in Nat
      BY <3>1, <3>3, FS_Subset, FS_CardinalityType, Zenon
    <3> QED
      BY <1>1, <3>4
  <2>2. handler[h].at = "upsert"
    BY <2>1, Zenon DEF Upsert
  <2> QED
    BY <1>1, <2>1, <2>2, UpsertWithinLimit, Zenon
<1>2. RInv /\ [Next]_vars =>
        [ LET before == Cardinality(ListActive(clock))
              after == Cardinality(ListActive(clock)')
          IN  after > MaxBindings /\ after > before =>
                \E h \in Handlers :
                  /\ handler[h].at = "upsert"
                  /\ expiresAt[Head(handler[h].rest).contact] \in
                       (handler[h].now + 1)..clock ]_vars
  BY <1>1, Zenon
<1> QED
  BY <1>2, RegistrationInvariant, PTL DEF Spec, LimitExceededOnlyByLag

\* The loop over the headers makes progress.
LEMMA TailDiffers ==
  ASSUME NEW s \in Seq(Headers), s # <<>>
  PROVE  Tail(s) # s
<1>1. Len(s) \in Nat
  OBVIOUS
<1>2. Len(Tail(s)) # Len(s)
  <2>1. Len(Tail(s)) = Len(s) - 1
    OBVIOUS
  <2>2. \A n \in Nat : n - 1 # n
    OBVIOUS
  <2> QED
    BY <1>1, <2>1, <2>2, Zenon
<1> QED
  BY <1>2, Zenon

\* An active binding is removed only by a request that unregisters it: DeleteExpired
\* uses a time that is never later than the clock, and a refresh stores a time
\* that is not zero.
THEOREM RemovedByRequest == Spec => OnlyUnregisterRemoves
<1>1. ASSUME RInv, [Next]_vars, NEW c \in Addresses,
             expiresAt[c] > clock, expiresAt'[c] = 0
      PROVE  \E h \in Handlers :
               /\ handler[h].at = "loop" /\ handler'[h].rest # handler[h].rest
               /\ c \in Named(Head(handler[h].rest))
  <2>0. /\ clock \in Nat /\ cleanup \in Nat /\ cleanup <= clock
        /\ expiresAt \in [Addresses -> Nat]
    BY <1>1 DEF RInv, RTypeOK, ReadBefore
  <2>1. expiresAt'[c] # expiresAt[c]
    BY <1>1, <2>0
  <2>2. ~DeleteExpired
    BY <1>1, <2>0 DEF DeleteExpired
  <2>3. ASSUME NEW h \in Handlers, Upsert(h) PROVE FALSE
    <3> DEFINE header == Head(handler[h].rest)
    <3>1. /\ handler[h].rest \in Seq(Headers) /\ handler[h].rest # <<>>
          /\ handler[h].now \in Nat /\ header.expires # 0
      BY <1>1, <2>3, Zenon DEF RInv, RTypeOK, HandlerType, ReadBefore, Upsert
    <3>2. header \in Headers
      BY <3>1
    <3>3. expiresAt' = [expiresAt EXCEPT ![header.contact] = handler[h].now + header.expires]
      BY <2>3, Zenon DEF Upsert
    <3> HIDE DEF header
    <3>4. header.expires \in Nat /\ header.contact \in Addresses
      BY <3>2, HeaderTyped
    <3>5. handler[h].now + header.expires # 0
      BY <3>1, <3>4
    <3> QED
      BY <1>1, <2>0, <2>1, <3>3, <3>4, <3>5, Zenon
  <2>4. PICK h \in Handlers : Unregister(h)
    <3>1. ASSUME NEW h \in Handlers,
                 \/ \E n \in 0..MaxContacts : \E s \in [1..n -> Headers] : Arrives(h, s)
                 \/ RejectContact(h) \/ ReadNow(h) \/ UpsertRefuses(h)
                 \/ StoreFails(h) \/ ReadListNow(h) \/ RespondBindings(h)
          PROVE  expiresAt' = expiresAt
      BY <3>1, Zenon DEF Arrives, RejectContact, ReadNow, UpsertRefuses,
                         StoreFails, Fail, ReadListNow, RespondBindings
    <3>2. CASE ExpireReadsNow \/ Tick \/ UNCHANGED vars
      BY <2>1, <3>2 DEF ExpireReadsNow, Tick, vars
    <3> QED
      BY <1>1, <2>1, <2>2, <2>3, <3>1, <3>2, Zenon DEF Next
  <2>5. handler[h].rest \in Seq(Headers) /\ handler[h].rest # <<>>
    BY <1>1, <2>4, Zenon DEF RInv, RTypeOK, HandlerType, Unregister
  <2>6. handler'[h].rest = Tail(handler[h].rest)
    BY <1>1, <2>4, Zenon DEF RInv, RTypeOK, HandlerType, Unregister, NextContact
  <2>7. Tail(handler[h].rest) # handler[h].rest
    BY <2>5, TailDiffers, Zenon
  <2>8. c \in Named(Head(handler[h].rest))
    BY <1>1, <2>1, <2>4, Zenon DEF Unregister
  <2>9. handler[h].at = "loop"
    BY <2>4, Zenon DEF Unregister
  <2> QED
    BY <2>6, <2>7, <2>8, <2>9, Zenon
<1>2. RInv /\ [Next]_vars =>
        [ \A c \in Addresses :
            expiresAt[c] > clock /\ expiresAt'[c] = 0 =>
              \E h \in Handlers :
                /\ handler[h].at = "loop" /\ handler'[h].rest # handler[h].rest
                /\ c \in Named(Head(handler[h].rest)) ]_vars
  BY <1>1, Zenon
<1> QED
  BY <1>2, RegistrationInvariant, PTL DEF Spec, OnlyUnregisterRemoves

\* The list in the 200 shows what the request did, except for what another
\* request or the expiry changed since.
THEOREM RepliesShowRequest == Spec => ReplyShowsRequest
<1>1. ASSUME RInv, NEW h \in Handlers, handler[h].at = "list", RespondBindings(h),
             NEW c \in Addresses, handler[h].until[c] # Unset
      PROVE  /\ c \in handler'[h].listed => handler[h].until[c] > handler[h].now
             /\ handler[h].until[c] > clock => c \in handler'[h].listed
  <2>1. /\ handler[h].now \in Nat /\ handler[h].now <= clock /\ clock \in Nat
        /\ expiresAt[c] \in Nat /\ handler[h].until[c] \in Nat \cup {Unset}
    BY <1>1 DEF RInv, RTypeOK, HandlerType, ReadBefore
  <2>2. Tracks(handler[h].until[c], expiresAt[c], clock)
    BY <1>1, Zenon DEF RInv, UntilStored
  <2>3. handler'[h].listed = ListActive(handler[h].now)
    <3>1. handler'[h] = Resting(ListActive(handler[h].now))
      BY <1>1 DEF RespondBindings, RInv, RTypeOK
    <3> QED
      BY <3>1 DEF Resting
  <2>4. c \in handler'[h].listed <=> expiresAt[c] > handler[h].now
    BY <1>1, <2>3, Zenon DEF ListActive
  <2> QED
    BY <1>1, <2>1, <2>2, <2>4 DEF Tracks, Unset
<1>2. RInv /\ [Next]_vars =>
        [ \A h \in Handlers :
            handler[h].at = "list" /\ RespondBindings(h) =>
              \A c \in Addresses :
                LET until == handler[h].until[c]
                IN  until # Unset =>
                      /\ c \in handler'[h].listed => until > handler[h].now
                      /\ until > clock => c \in handler'[h].listed ]_vars
  BY <1>1, Zenon
<1> QED
  BY <1>2, RegistrationInvariant, PTL DEF Spec, ReplyShowsRequest
=============================================================================
