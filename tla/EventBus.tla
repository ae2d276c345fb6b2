------------------------------ MODULE EventBus ------------------------------
(***************************************************************************)
(* What an event mediator promises ("it guarantees that event messages     *)
(* will not be lost"): whoever listens when an event is raised gets it,    *)
(* exactly once, unless it walks away first.  How subscribers are found,   *)
(* in which order they are served and when they are forgotten is left open.*)
(***************************************************************************)
EXTENDS Sequences

CONSTANTS
  Subs,    \* subscribers
  Raises,  \* events: every call of raise is one of its own
  NameOf,  \* the event name a subscriber listens to
  KindOf   \* the event name of an event

VARIABLES
  listening,  \* subscribers that the next event will reach
  owed,       \* <<event, subscriber>>: raised and not delivered yet
  inbox,      \* what a subscriber got, in order
  raised      \* the events raised

busVars == <<listening, owed, inbox, raised>>

Init ==
  /\ listening = {}
  /\ owed = {}
  /\ inbox = [s \in Subs |-> <<>>]
  /\ raised = {}

Subscribe(s) ==
  /\ listening' = listening \cup {s}
  /\ UNCHANGED <<owed, inbox, raised>>

\* The stream is closed: nothing new, but what is owed still comes.
Unsubscribe(s) ==
  /\ listening' = listening \ {s}
  /\ UNCHANGED <<owed, inbox, raised>>

\* The subscriber is gone.
Abandon(s) ==
  /\ listening' = listening \ {s}
  /\ owed' = {o \in owed : o[2] # s}
  /\ UNCHANGED <<inbox, raised>>

Publish(r) ==
  /\ r \notin raised
  /\ raised' = raised \cup {r}
  /\ owed' = owed \cup {<<r, s>> : s \in {s \in listening : NameOf[s] = KindOf[r]}}
  /\ UNCHANGED <<listening, inbox>>

Deliver(r, s) ==
  /\ <<r, s>> \in owed
  /\ owed' = owed \ {<<r, s>>}
  /\ inbox' = [inbox EXCEPT ![s] = Append(@, r)]
  /\ UNCHANGED <<listening, raised>>

Next ==
  \/ \E s \in Subs : Subscribe(s) \/ Unsubscribe(s) \/ Abandon(s)
  \/ \E r \in Raises : Publish(r) \/ \E s \in Subs : Deliver(r, s)

Spec == Init /\ [][Next]_busVars
=============================================================================
