--------------------------- MODULE CallLifecycle ----------------------------
(***************************************************************************)
(* What a call actor promises to those who only read its event stream, its *)
(* snapshots and the event table.  The log opens with the "created" record *)
(* and then is a path of the transition table, in strictly increasing      *)
(* sequence order, and nothing in it is ever taken back.  Snapshots and    *)
(* the table follow the log independently: a transition is accepted only   *)
(* when the snapshot shows all the earlier ones, while the table may be    *)
(* any number of events behind, and either may show an event first.  How   *)
(* commands, mailboxes, failed publications and shutdown produce that path *)
(* is the business of CallActor, which implements this specification.      *)
(***************************************************************************)
EXTENDS CallStates, Naturals, Sequences

VARIABLES
  visible,   \* the state in the latest snapshot
  log,       \* the events accepted by the publisher, oldest first
  stored     \* the events in the table, oldest first

lvars == <<visible, log, stored>>

LInit ==
  /\ visible = "new"
  /\ log = <<>>
  /\ stored = <<>>

\* The creation record: it names the state the call already has.
Created(e) ==
  /\ log = <<>>
  /\ e.old = visible /\ e.new = NoState

\* One transition, from the state that every reader of snapshots sees.
Moved(e) ==
  /\ log # <<>>
  /\ e.seq > log[Len(log)].seq
  /\ Len(log) > 1 => visible = log[Len(log)].new
  /\ e.old = visible /\ allowedTransition(visible, e.new)

\* The log only ever grows, by one event at a time.
Accepted ==
  /\ log' # <<>>
  /\ log' = Append(log, log'[Len(log')])
  /\ Created(log'[Len(log')]) \/ Moved(log'[Len(log')])
  /\ UNCHANGED <<visible, stored>>

\* The snapshot catches up with the log.
Shown ==
  /\ Len(log) > 1
  /\ visible' = log[Len(log)].new
  /\ UNCHANGED <<log, stored>>

\* The next event of the log is stored.
Stored ==
  /\ Len(stored) < Len(log)
  /\ stored' = Append(stored, log[Len(stored) + 1])
  /\ UNCHANGED <<visible, log>>

LNext == Accepted \/ Shown \/ Stored

LSpec == LInit /\ [][LNext]_lvars
=============================================================================
