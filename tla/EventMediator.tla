--------------------------- MODULE EventMediator ---------------------------
(***************************************************************************)
(* SyncEventMediator and the EventSources bound to it.  raise copies the   *)
(* senders of its event under the mutex, sends to the copies without it    *)
(* and takes it again to drop the senders that turned out disconnected; so *)
(* raises, binds, closes and drops interleave between those steps.         *)
(***************************************************************************)
EXTENDS Naturals, Sequences, FiniteSets, Functions

CONSTANTS
  Subs,    \* XStackIds of EventSources: every bind makes a new one
  Raises,  \* calls of raise, each with an event of its own
  Names,   \* event names
  NameOf,  \* E::name() of a source
  KindOf   \* event.to_name() of a raise

ASSUME NameOfAssumption == NameOf \in [Subs -> Names]
ASSUME KindOfAssumption == KindOf \in [Raises -> Names]

VARIABLES
  senders,  \* the ids in the maps of all names: a source is in that of NameOf
  rx,       \* the receiving end of a source
  chan,     \* its channel
  seen,     \* history: what poll_next returned, in order
  pc,       \* where a raise is
  todo,     \* the copied senders it has not sent to
  gone,     \* the ids it found disconnected
  after     \* history: the raises that had returned when it was called

vars == <<senders, rx, chan, seen, pc, todo, gone, after>>

TypeOK ==
  /\ senders \subseteq Subs
  /\ rx \in [Subs -> {"new", "open", "ended", "dropped"}]
  /\ chan \in [Subs -> Seq(Raises)]
  /\ seen \in [Subs -> Seq(Raises)]
  /\ pc \in [Raises -> {"idle", "sending", "done"}]
  /\ todo \in [Raises -> SUBSET Subs]
  /\ gone \in [Raises -> SUBSET Subs]
  /\ after \in [Raises -> SUBSET Raises]

Init ==
  /\ senders = {}
  /\ rx = [s \in Subs |-> "new"]
  /\ chan = [s \in Subs |-> <<>>]
  /\ seen = [s \in Subs |-> <<>>]
  /\ pc = [r \in Raises |-> "idle"]
  /\ todo = [r \in Raises |-> {}]
  /\ gone = [r \in Raises |-> {}]
  /\ after = [r \in Raises |-> {}]

\* Some task still owns a clone of the sender of s.
Cloned(s) == \E r \in Raises : s \in todo[r]

-----------------------------------------------------------------------------
(* Faulty variants of operations below; no specification uses them.        *)

\* raise sends through the sender it shares with other raises, which is full
\* after one unread event.
SendIfRoom(r, s) ==
  /\ s \in todo[r]
  /\ todo' = [todo EXCEPT ![r] = @ \ {s}]
  /\ IF chan[s] = <<>>
     THEN chan' = [chan EXCEPT ![s] = Append(@, r)]
     ELSE UNCHANGED chan
  /\ UNCHANGED <<senders, rx, seen, pc, gone, after>>

\* the stream ends as soon as the mediator has forgotten it.
EndEarly(s) ==
  /\ rx[s] = "open"
  /\ chan[s] = <<>>
  /\ s \notin senders
  /\ rx' = [rx EXCEPT ![s] = "ended"]
  /\ UNCHANGED <<senders, chan, seen, pc, todo, gone, after>>

-----------------------------------------------------------------------------
(* The sources.                                                            *)

\* EventSource::bind_with.
Bind(s) ==
  /\ rx[s] = "new"
  /\ senders' = senders \cup {s}
  /\ rx' = [rx EXCEPT ![s] = "open"]
  /\ UNCHANGED <<chan, seen, pc, todo, gone, after>>

\* poll_next returns an event.
Poll(s) ==
  /\ rx[s] = "open"
  /\ chan[s] # <<>>
  /\ seen' = [seen EXCEPT ![s] = Append(@, Head(chan[s]))]
  /\ chan' = [chan EXCEPT ![s] = Tail(@)]
  /\ UNCHANGED <<senders, rx, pc, todo, gone, after>>

\* poll_next returns None: the channel is empty and no sender is left.
End(s) ==
  /\ rx[s] = "open"
  /\ chan[s] = <<>>
  /\ s \notin senders
  /\ ~Cloned(s)
  /\ rx' = [rx EXCEPT ![s] = "ended"]
  /\ UNCHANGED <<senders, chan, seen, pc, todo, gone, after>>

\* The source is dropped; the receiver goes, the close it spawns comes later.
DropSource(s) ==
  /\ rx[s] \in {"open", "ended"}
  /\ rx' = [rx EXCEPT ![s] = "dropped"]
  /\ UNCHANGED <<senders, chan, seen, pc, todo, gone, after>>

\* SyncEventMediator::close, by a closer or by the task that a drop spawned.
Close(s) ==
  /\ rx[s] # "new"
  /\ senders' = senders \ {s}
  /\ UNCHANGED <<rx, chan, seen, pc, todo, gone, after>>

-----------------------------------------------------------------------------
(* SyncEventMediator::raise.                                               *)

\* First critical section: copy the senders of the event's name.
Raise(r) ==
  /\ pc[r] = "idle"
  /\ pc' = [pc EXCEPT ![r] = "sending"]
  /\ todo' = [todo EXCEPT ![r] = {s \in senders : NameOf[s] = KindOf[r]}]
  /\ after' = [after EXCEPT ![r] = {q \in Raises : pc[q] = "done"}]
  /\ UNCHANGED <<senders, rx, chan, seen, gone>>

\* try_send on one of the copies, in any order.  A clone has a slot of its own
\* and sends once, so it is never full; it fails when the receiver is gone.
Send(r, s) ==
  /\ s \in todo[r]
  /\ todo' = [todo EXCEPT ![r] = @ \ {s}]
  /\ chan' = IF rx[s] = "dropped" THEN chan ELSE [chan EXCEPT ![s] = Append(@, r)]
  /\ gone' = IF rx[s] = "dropped" THEN [gone EXCEPT ![r] = @ \cup {s}] ELSE gone
  /\ UNCHANGED <<senders, rx, seen, pc, after>>

\* Second critical section: drop the disconnected senders, and return.
Sweep(r) ==
  /\ pc[r] = "sending"
  /\ todo[r] = {}
  /\ senders' = senders \ gone[r]
  /\ pc' = [pc EXCEPT ![r] = "done"]
  /\ UNCHANGED <<rx, chan, seen, todo, gone, after>>

-----------------------------------------------------------------------------
SourceStep(s) == Bind(s) \/ Poll(s) \/ End(s) \/ DropSource(s) \/ Close(s)
RaiseStep(r)  == Raise(r) \/ Sweep(r) \/ \E s \in Subs : Send(r, s)

Next == \/ \E s \in Subs : SourceStep(s)
        \/ \E r \in Raises : RaiseStep(r)

Spec == Init /\ [][Next]_vars

\* A task that is ready runs: a raise that began, and the close of a drop.
Fairness ==
  /\ \A r \in Raises : WF_vars(Sweep(r) \/ \E s \in Subs : Send(r, s))
  /\ \A s \in Subs : WF_vars(rx[s] = "dropped" /\ Close(s))

FairSpec == Spec /\ Fairness

-----------------------------------------------------------------------------
(* Properties.                                                             *)

\* Everything that was sent to a source, read or not.
Inbox(s) == seen[s] \o chan[s]

\* Raises that follow one another arrive in that order: an event whose raise
\* returned before another was called precedes it at every source.
InOrder ==
  \A s \in Subs : \A i, j \in DOMAIN Inbox(s) :
    i < j => Inbox(s)[j] \notin after[Inbox(s)[i]]

\* None is final: after poll_next returned None no event arrives, although
\* a raise may still have held a copy of the sender when close removed it.
NothingAfterEnd ==
  \A s \in Subs : rx[s] = "ended" => chan[s] = <<>> /\ s \notin senders /\ ~Cloned(s)

\* The mediator forgets a dropped source, whether its close or a raise that
\* saw it disconnected comes first.
DroppedForgotten ==
  \A s \in Subs : rx[s] = "dropped" ~> [](s \notin senders)

\* The promise of EventBus: the source listens while it is bound and not
\* dropped, and a raise owes its event to the copies it has not served.
Bus == INSTANCE EventBus WITH
  listening <- {s \in senders : rx[s] # "dropped"},
  owed      <- {o \in Raises \X Subs : o[2] \in todo[o[1]] /\ rx[o[2]] # "dropped"},
  inbox     <- [s \in Subs |-> Inbox(s)],
  raised    <- {r \in Raises : pc[r] # "idle"}

BusSpec == Bus!Spec
=============================================================================
