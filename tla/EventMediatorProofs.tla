------------------------ MODULE EventMediatorProofs ------------------------
(***************************************************************************)
(* What EventMediator guarantees for any sources, raises and event names;  *)
(* above all that it implements EventBus.                                  *)
(***************************************************************************)
EXTENDS EventMediator, TLAPS

-----------------------------------------------------------------------------
(* Type correctness.                                                       *)

\* The mediator's variables always have their types.
THEOREM TypeCorrect == Spec => []TypeOK
<1>1. Init => TypeOK
  BY DEF Init, TypeOK
<1>2. TypeOK /\ [Next]_vars => TypeOK'
  <2> SUFFICES ASSUME TypeOK, [Next]_vars
               PROVE  TypeOK'
    OBVIOUS
  <2>1. ASSUME NEW s \in Subs, SourceStep(s)
        PROVE  TypeOK'
    <3>1. CASE Poll(s)
      <4>1. /\ Append(seen[s], Head(chan[s])) \in Seq(Raises)
            /\ Tail(chan[s]) \in Seq(Raises)
        <5>1. chan[s] \in Seq(Raises) /\ seen[s] \in Seq(Raises) /\ chan[s] # <<>>
          BY <3>1 DEF TypeOK, Poll
        <5> QED
          BY <5>1
      <4> QED
        BY <3>1, <4>1 DEF TypeOK, Poll
    <3>2. CASE Bind(s) \/ End(s) \/ DropSource(s) \/ Close(s)
      BY <3>2 DEF TypeOK, Bind, End, DropSource, Close
    <3> QED
      BY <2>1, <3>1, <3>2 DEF SourceStep
  <2>2. ASSUME NEW r \in Raises, RaiseStep(r)
        PROVE  TypeOK'
    <3>1. ASSUME NEW s \in Subs, Send(r, s)
          PROVE  TypeOK'
      <4>1. chan[s] \in Seq(Raises)
        BY DEF TypeOK
      <4>2. Append(chan[s], r) \in Seq(Raises)
        BY <4>1
      <4>3. chan' \in [Subs -> Seq(Raises)]
        BY <3>1, <4>2 DEF TypeOK, Send
      <4>4. /\ todo' \in [Raises -> SUBSET Subs] /\ gone' \in [Raises -> SUBSET Subs]
            /\ UNCHANGED <<senders, rx, seen, pc, after>>
        BY <3>1 DEF TypeOK, Send
      <4> QED
        BY <4>3, <4>4 DEF TypeOK
    <3>2. CASE Raise(r)
      <4>1. /\ {s \in senders : NameOf[s] = KindOf[r]} \in SUBSET Subs
            /\ {q \in Raises : pc[q] = "done"} \in SUBSET Raises
        BY DEF TypeOK
      <4> QED
        BY <3>2, <4>1 DEF TypeOK, Raise
    <3>3. CASE Sweep(r)
      BY <3>3 DEF TypeOK, Sweep
    <3> QED
      BY <2>2, <3>1, <3>2, <3>3 DEF RaiseStep
  <2>3. CASE UNCHANGED vars
    BY <2>3 DEF TypeOK, vars
  <2> QED
    BY <2>1, <2>2, <2>3 DEF Next
<1> QED
  BY <1>1, <1>2, PTL DEF Spec

-----------------------------------------------------------------------------
(* The inbox of a source.                                                  *)

\* poll_next moves an event from the channel to its reader.
LEMMA ReadingKeepsInbox ==
  ASSUME NEW S, NEW p \in Seq(S), NEW q \in Seq(S), q # <<>>
  PROVE  Append(p, Head(q)) \o Tail(q) = p \o q
OBVIOUS

\* try_send puts an event at the end.
LEMMA SendingAppends ==
  ASSUME NEW p \in Seq(Raises), NEW q \in Seq(Raises), NEW x \in Raises
  PROVE  p \o Append(q, x) = Append(p \o q, x)
OBVIOUS

\* A send to a source that is there appends to its inbox and to no other.
LEMMA SendStep ==
  ASSUME TypeOK, NEW r \in Raises, NEW s \in Subs, Send(r, s), rx[s] # "dropped"
  PROVE  /\ Inbox(s)' = Append(Inbox(s), r)
         /\ \A u \in Subs \ {s} : Inbox(u)' = Inbox(u)
<1>1. chan[s] \in Seq(Raises) /\ seen[s] \in Seq(Raises)
  BY DEF TypeOK
<1>2. /\ chan'[s] = Append(chan[s], r) /\ seen' = seen
      /\ \A u \in Subs \ {s} : chan'[u] = chan[u]
  BY DEF TypeOK, Send
<1>3. seen[s] \o Append(chan[s], r) = Append(seen[s] \o chan[s], r)
  BY <1>1, SendingAppends
<1>4. seen'[s] \o chan'[s] = seen[s] \o Append(chan[s], r)
  BY <1>2
<1>5. \A u \in Subs \ {s} : seen'[u] \o chan'[u] = seen[u] \o chan[u]
  BY <1>2
<1>6. Inbox(s)' = seen'[s] \o chan'[s] /\ Inbox(s) = seen[s] \o chan[s]
  BY DEF Inbox
<1>7. Inbox(s)' = Append(Inbox(s), r)
  BY <1>3, <1>4, <1>6
<1>8. \A u \in Subs \ {s} : Inbox(u)' = Inbox(u)
  BY <1>5 DEF Inbox
<1> QED
  BY <1>7, <1>8

\* Only a send changes what a source was sent.
LEMMA InboxStep ==
  ASSUME TypeOK, [Next]_vars
  PROVE  \/ \A s \in Subs : Inbox(s)' = Inbox(s)
         \/ \E r \in Raises, s \in Subs :
              /\ Send(r, s) /\ rx[s] # "dropped"
              /\ Inbox(s)' = Append(Inbox(s), r)
              /\ \A u \in Subs \ {s} : Inbox(u)' = Inbox(u)
<1>1. CASE UNCHANGED <<chan, seen>>
  BY <1>1 DEF Inbox
<1>2. ASSUME NEW s \in Subs, Poll(s)
      PROVE  \A u \in Subs : Inbox(u)' = Inbox(u)
  <2>1. chan[s] \in Seq(Raises) /\ seen[s] \in Seq(Raises) /\ chan[s] # <<>>
    BY <1>2 DEF TypeOK, Poll
  <2>2. /\ seen'[s] = Append(seen[s], Head(chan[s])) /\ chan'[s] = Tail(chan[s])
        /\ \A u \in Subs \ {s} : seen'[u] = seen[u] /\ chan'[u] = chan[u]
    BY <1>2 DEF TypeOK, Poll
  <2>3. Append(seen[s], Head(chan[s])) \o Tail(chan[s]) = seen[s] \o chan[s]
    BY <2>1, ReadingKeepsInbox
  <2>4. seen'[s] \o chan'[s] = seen[s] \o chan[s]
    BY <2>2, <2>3
  <2>5. \A u \in Subs : seen'[u] \o chan'[u] = seen[u] \o chan[u]
    BY <2>2, <2>4
  <2> QED
    BY <2>5 DEF Inbox
<1>3. ASSUME NEW r \in Raises, NEW s \in Subs, Send(r, s), rx[s] # "dropped"
      PROVE  /\ Inbox(s)' = Append(Inbox(s), r)
             /\ \A u \in Subs \ {s} : Inbox(u)' = Inbox(u)
  BY <1>3, SendStep
<1>4. ASSUME ~(\E s \in Subs : Poll(s)),
             ~(\E r \in Raises, s \in Subs : Send(r, s) /\ rx[s] # "dropped")
      PROVE  UNCHANGED <<chan, seen>>
  BY <1>4 DEF Next, vars, SourceStep, RaiseStep, Bind, End, DropSource, Close,
     Raise, Sweep, Send
<1> QED
  BY <1>1, <1>2, <1>3, <1>4

-----------------------------------------------------------------------------
(* Order.                                                                  *)

\* Who is in an inbox was raised; a raise that returned has sent to every copy;
\* the raises that had returned when another was called still have.
OrderInv ==
  /\ \A r \in Raises : pc[r] # "sending" => todo[r] = {}
  /\ \A r \in Raises : \A q \in after[r] : pc[q] = "done"
  /\ \A s \in Subs : \A i \in DOMAIN Inbox(s) : pc[Inbox(s)[i]] # "idle"
  /\ InOrder

\* An event whose raise returned before another was called precedes it at
\* every source that gets both (event.rs, raise sends before it returns).
THEOREM AlwaysInOrder == Spec => []InOrder
<1>1. Init => OrderInv
  BY DEF Init, OrderInv, InOrder, Inbox
<1>2. TypeOK /\ OrderInv /\ [Next]_vars => OrderInv'
  <2> SUFFICES ASSUME TypeOK, OrderInv, [Next]_vars
               PROVE  OrderInv'
    OBVIOUS
  <2>1. \A r \in Raises : pc'[r] # "sending" => todo'[r] = {}
    <3>1. ASSUME NEW s \in Subs, SourceStep(s)
          PROVE  UNCHANGED <<pc, todo>>
      BY <3>1 DEF SourceStep, Bind, Poll, End, DropSource, Close
    <3>2. ASSUME NEW q \in Raises, RaiseStep(q)
          PROVE  \A r \in Raises : pc'[r] # "sending" => todo'[r] = {}
      BY <3>2 DEF RaiseStep, Raise, Sweep, Send, OrderInv, TypeOK
    <3>3. CASE UNCHANGED <<pc, todo>>
      BY <3>3 DEF OrderInv
    <3> QED
      BY <3>1, <3>2, <3>3 DEF Next, vars
  <2>2. \A r \in Raises : \A q \in after'[r] : pc'[q] = "done"
    <3>1. ASSUME NEW s \in Subs, SourceStep(s)
          PROVE  UNCHANGED <<pc, after>>
      BY <3>1 DEF SourceStep, Bind, Poll, End, DropSource, Close
    <3>2. ASSUME NEW q \in Raises, RaiseStep(q)
          PROVE  \A r \in Raises : \A k \in after'[r] : pc'[k] = "done"
      <4>1. ASSUME NEW k \in Raises, pc[k] = "done"
            PROVE  pc'[k] = "done"
        BY <3>2, <4>1 DEF RaiseStep, Raise, Sweep, Send, OrderInv, TypeOK
      <4>2. ASSUME NEW r \in Raises, NEW k \in after'[r]
            PROVE  k \in Raises /\ pc[k] = "done"
        <5>1. after'[r] = after[r] \/ after'[r] = {p \in Raises : pc[p] = "done"}
          BY <3>2, <4>2 DEF RaiseStep, Raise, Sweep, Send, TypeOK
        <5>2. after[r] \subseteq Raises
          BY DEF TypeOK
        <5>3. CASE after'[r] = after[r]
          BY <4>2, <5>2, <5>3 DEF OrderInv
        <5>4. CASE after'[r] = {p \in Raises : pc[p] = "done"}
          BY <4>2, <5>4
        <5> QED
          BY <5>1, <5>3, <5>4
      <4> QED
        BY <4>1, <4>2
    <3>3. CASE UNCHANGED <<pc, after>>
      BY <3>3 DEF OrderInv
    <3> QED
      BY <3>1, <3>2, <3>3 DEF Next, vars
  <2>3. ASSUME NEW s \in Subs
        PROVE  /\ \A i \in DOMAIN Inbox(s)' : pc'[Inbox(s)'[i]] # "idle"
               /\ \A i, j \in DOMAIN Inbox(s)' :
                    i < j => Inbox(s)'[j] \notin after'[Inbox(s)'[i]]
    <3>1. Inbox(s) \in Seq(Raises)
      <4>1. seen[s] \in Seq(Raises) /\ chan[s] \in Seq(Raises)
        BY DEF TypeOK
      <4> QED
        BY <4>1 DEF Inbox
    <3>2. \A i \in DOMAIN Inbox(s) : Inbox(s)[i] \in Raises
      BY <3>1
    <3>3. \A r \in Raises : pc[r] # "idle" => pc'[r] # "idle" /\ after'[r] = after[r]
      <4>1. ASSUME NEW q \in Raises, RaiseStep(q)
            PROVE  \A r \in Raises : pc[r] # "idle" => pc'[r] # "idle" /\ after'[r] = after[r]
        BY <4>1 DEF RaiseStep, Raise, Sweep, Send, TypeOK
      <4>2. ASSUME ~(\E q \in Raises : RaiseStep(q))
            PROVE  UNCHANGED <<pc, after>>
        BY <4>2 DEF Next, vars, SourceStep, Bind, Poll, End, DropSource, Close
      <4> QED
        BY <4>1, <4>2
    <3>4. CASE Inbox(s)' = Inbox(s)
      BY <3>2, <3>3, <3>4 DEF OrderInv, InOrder
    <3>5. ASSUME NEW r \in Raises, Send(r, s), Inbox(s)' = Append(Inbox(s), r)
          PROVE  /\ \A i \in DOMAIN Inbox(s)' : pc'[Inbox(s)'[i]] # "idle"
                 /\ \A i, j \in DOMAIN Inbox(s)' :
                      i < j => Inbox(s)'[j] \notin after'[Inbox(s)'[i]]
      <4>1. pc[r] = "sending"
        BY <3>5 DEF Send, OrderInv
      <4>2. /\ DOMAIN Inbox(s) = 1..Len(Inbox(s)) /\ Len(Inbox(s)) \in Nat
            /\ DOMAIN Inbox(s)' = 1..(Len(Inbox(s)) + 1)
            /\ \A i \in 1..Len(Inbox(s)) : Inbox(s)'[i] = Inbox(s)[i]
            /\ Inbox(s)'[Len(Inbox(s)) + 1] = r
        BY <3>1, <3>5
      <4>3. \A i \in 1..Len(Inbox(s)) : r \notin after'[Inbox(s)'[i]]
        BY <3>2, <3>3, <4>1, <4>2 DEF OrderInv
      <4>4. ASSUME NEW i \in DOMAIN Inbox(s)'
            PROVE  pc'[Inbox(s)'[i]] # "idle"
        BY <3>2, <3>3, <4>1, <4>2 DEF OrderInv
      <4>5. ASSUME NEW i \in DOMAIN Inbox(s)', NEW j \in DOMAIN Inbox(s)', i < j
            PROVE  Inbox(s)'[j] \notin after'[Inbox(s)'[i]]
        <5>1. i \in 1..Len(Inbox(s))
          BY <4>2, <4>5
        <5>2. CASE j \in 1..Len(Inbox(s))
          BY <3>2, <3>3, <4>2, <4>5, <5>1, <5>2 DEF OrderInv, InOrder
        <5>3. CASE j = Len(Inbox(s)) + 1
          BY <4>2, <4>3, <5>1, <5>3
        <5> QED
          BY <4>2, <5>2, <5>3
      <4> QED
        BY <4>4, <4>5
    <3> QED
      BY <3>4, <3>5, InboxStep
  <2> QED
    BY <2>1, <2>2, <2>3 DEF OrderInv, InOrder
<1>3. OrderInv => InOrder
  BY DEF OrderInv
<1> QED
  BY <1>1, <1>2, <1>3, TypeCorrect, PTL DEF Spec

-----------------------------------------------------------------------------
(* The end of a stream.                                                    *)

\* Nothing arrives at a source after its poll_next returned None (event.rs).
THEOREM NoneIsFinal == Spec => []NothingAfterEnd
<1>1. Init => NothingAfterEnd
  BY DEF Init, NothingAfterEnd
<1>2. TypeOK /\ NothingAfterEnd /\ [Next]_vars => NothingAfterEnd'
  <2> SUFFICES ASSUME TypeOK, NothingAfterEnd, [Next]_vars, NEW s \in Subs, rx'[s] = "ended"
               PROVE  chan'[s] = <<>> /\ s \notin senders' /\ \A r \in Raises : s \notin todo'[r]
    BY DEF NothingAfterEnd, Cloned
  <2>1. CASE rx[s] = "ended"
    <3>1. chan[s] = <<>> /\ s \notin senders /\ \A r \in Raises : s \notin todo[r]
      BY <2>1 DEF NothingAfterEnd, Cloned
    <3>2. ASSUME NEW u \in Subs, SourceStep(u)
          PROVE  chan'[s] = <<>> /\ s \notin senders' /\ todo' = todo
      BY <2>1, <3>1, <3>2 DEF SourceStep, Bind, Poll, End, DropSource, Close, TypeOK
    <3>3. ASSUME NEW r \in Raises, Raise(r) \/ Sweep(r)
          PROVE  chan'[s] = <<>> /\ s \notin senders' /\ \A q \in Raises : s \notin todo'[q]
      BY <3>1, <3>3 DEF Raise, Sweep, TypeOK
    <3>4. ASSUME NEW r \in Raises, NEW u \in Subs, Send(r, u)
          PROVE  chan'[s] = <<>> /\ s \notin senders' /\ \A q \in Raises : s \notin todo'[q]
      BY <3>1, <3>4 DEF Send, TypeOK
    <3>5. CASE UNCHANGED vars
      BY <3>1, <3>5 DEF vars
    <3> QED
      BY <3>1, <3>2, <3>3, <3>4, <3>5 DEF Next, RaiseStep
  <2>2. CASE rx[s] # "ended"
    <3>1. End(s)
      BY <2>2 DEF Next, vars, SourceStep, RaiseStep, Bind, Poll, End, DropSource, Close,
         Raise, Sweep, Send, TypeOK
    <3> QED
      BY <3>1 DEF End, Cloned
  <2> QED
    BY <2>1, <2>2
<1> QED
  BY <1>1, <1>2, TypeCorrect, PTL DEF Spec

-----------------------------------------------------------------------------
(* The mediator implements EventBus.                                       *)

Listening == {s \in senders : rx[s] # "dropped"}
Owed      == {o \in Raises \X Subs : o[2] \in todo[o[1]] /\ rx[o[2]] # "dropped"}
Inboxes   == [s \in Subs |-> Inbox(s)]
Raised    == {r \in Raises : pc[r] # "idle"}

\* What a raise found disconnected is; a raise that is not sending has no copies.
DebtInv ==
  /\ \A r \in Raises : \A s \in gone[r] : rx[s] = "dropped"
  /\ \A r \in Raises : pc[r] # "sending" => todo[r] = {}

\* A source that is dropped stays so.
LEMMA DebtAlways == Spec => []DebtInv
<1>1. Init => DebtInv
  BY DEF Init, DebtInv
<1>2. TypeOK /\ DebtInv /\ [Next]_vars => DebtInv'
  <2> SUFFICES ASSUME TypeOK, DebtInv, [Next]_vars
               PROVE  DebtInv'
    OBVIOUS
  <2>1. ASSUME NEW s \in Subs, SourceStep(s)
        PROVE  DebtInv'
    <3>1. UNCHANGED <<pc, todo, gone>>
      BY <2>1 DEF SourceStep, Bind, Poll, End, DropSource, Close
    <3>2. \A u \in Subs : rx[u] = "dropped" => rx'[u] = "dropped"
      BY <2>1 DEF SourceStep, Bind, Poll, End, DropSource, Close, TypeOK
    <3> QED
      BY <3>1, <3>2 DEF DebtInv, TypeOK
  <2>2. ASSUME NEW r \in Raises, Raise(r) \/ Sweep(r)
        PROVE  DebtInv'
    BY <2>2 DEF DebtInv, TypeOK, Raise, Sweep
  <2>3. ASSUME NEW r \in Raises, NEW s \in Subs, Send(r, s)
        PROVE  DebtInv'
    BY <2>3 DEF DebtInv, TypeOK, Send
  <2>4. CASE UNCHANGED vars
    BY <2>4 DEF DebtInv, vars
  <2> QED
    BY <2>1, <2>2, <2>3, <2>4 DEF Next, RaiseStep
<1> QED
  BY <1>1, <1>2, TypeCorrect, PTL DEF Spec

\* "it guarantees that event messages will not be lost" (event.rs): a source
\* bound when an event is raised gets it exactly once, unless it is dropped
\* first, and gets nothing else.
THEOREM Implements == Spec => BusSpec
<1>1. Init => Bus!Init
  BY DEF Init, Bus!Init, Inbox
<1>2. TypeOK /\ DebtInv /\ [Next]_vars => [Bus!Next]_(Bus!busVars)
  <2> SUFFICES ASSUME TypeOK, DebtInv, [Next]_vars
               PROVE  [Bus!Next]_(Bus!busVars)
    OBVIOUS
  <2>a. ASSUME NEW s \in Subs, Listening' = Listening \cup {s},
               UNCHANGED <<Owed, Inboxes, Raised>>
        PROVE  Bus!Next
    BY <2>a DEF Bus!Next, Bus!Subscribe, Listening, Owed, Inboxes, Raised
  <2>b. ASSUME NEW s \in Subs, Listening' = Listening \ {s},
               UNCHANGED <<Owed, Inboxes, Raised>>
        PROVE  Bus!Next
    BY <2>b DEF Bus!Next, Bus!Unsubscribe, Listening, Owed, Inboxes, Raised
  <2>c. ASSUME NEW s \in Subs, Listening' = Listening \ {s},
               Owed' = {o \in Owed : o[2] # s}, UNCHANGED <<Inboxes, Raised>>
        PROVE  Bus!Next
    BY <2>c DEF Bus!Next, Bus!Abandon, Listening, Owed, Inboxes, Raised
  <2>d. ASSUME NEW r \in Raises, r \notin Raised, Raised' = Raised \cup {r},
               Owed' = Owed \cup {<<r, s>> : s \in {s \in Listening : NameOf[s] = KindOf[r]}},
               UNCHANGED <<Listening, Inboxes>>
        PROVE  Bus!Next
    BY <2>d DEF Bus!Next, Bus!Publish, Listening, Owed, Inboxes, Raised
  <2>e. ASSUME NEW r \in Raises, NEW s \in Subs, <<r, s>> \in Owed,
               Owed' = Owed \ {<<r, s>>},
               Inboxes' = [Inboxes EXCEPT ![s] = Append(@, r)],
               UNCHANGED <<Listening, Raised>>
        PROVE  Bus!Next
    BY <2>e DEF Bus!Next, Bus!Deliver, Listening, Owed, Inboxes, Raised
  <2>f. ASSUME UNCHANGED <<Listening, Owed, Inboxes, Raised>>
        PROVE  UNCHANGED Bus!busVars
    BY <2>f DEF Bus!busVars, Listening, Owed, Inboxes, Raised
  <2>1. ASSUME ~(\E r \in Raises, s \in Subs : Send(r, s) /\ rx[s] # "dropped")
        PROVE  UNCHANGED Inboxes
    BY <2>1, InboxStep DEF Inboxes
  <2>2. ASSUME NEW s \in Subs, SourceStep(s)
        PROVE  [Bus!Next]_(Bus!busVars)
    <3>1. UNCHANGED <<Inboxes, pc, todo, Raised>>
      <4>1. UNCHANGED <<pc, todo, gone>>
        BY <2>2 DEF SourceStep, Bind, Poll, End, DropSource, Close
      <4>2. ASSUME NEW q \in Raises, NEW u \in Subs, Send(q, u)
            PROVE  FALSE
        BY <4>1, <4>2 DEF Send, TypeOK
      <4> QED
        BY <2>1, <4>1, <4>2 DEF Raised
    <3>2. CASE Bind(s)
      <4>1. Listening' = Listening \cup {s}
        BY <3>2 DEF Listening, Bind, TypeOK
      <4>2. Owed' = Owed
        BY <3>1, <3>2 DEF Owed, Bind, TypeOK
      <4> QED
        BY <2>a, <3>1, <4>1, <4>2
    <3>3. CASE Poll(s)
      BY <2>f, <3>1, <3>3 DEF Poll, Listening, Owed
    <3>4. CASE End(s)
      <4>1. \A u \in Subs : rx'[u] = "dropped" <=> rx[u] = "dropped"
        BY <3>4 DEF End, TypeOK
      <4>2. Listening' = Listening /\ Owed' = Owed
        BY <3>1, <3>4, <4>1 DEF End, Listening, Owed, TypeOK
      <4> QED
        BY <2>f, <3>1, <4>2
    <3>5. CASE DropSource(s)
      <4>1. \A u \in Subs : rx'[u] = "dropped" <=> (u = s \/ rx[u] = "dropped")
        BY <3>5 DEF DropSource, TypeOK
      <4>2. Listening' = Listening \ {s}
        BY <3>5, <4>1 DEF DropSource, Listening, TypeOK
      <4>3. Owed' = {o \in Owed : o[2] # s}
        BY <3>1, <4>1 DEF Owed, TypeOK
      <4> QED
        BY <2>c, <3>1, <4>2, <4>3
    <3>6. CASE Close(s)
      <4>1. Listening' = Listening \ {s} /\ Owed' = Owed
        BY <3>1, <3>6 DEF Close, Listening, Owed
      <4> QED
        BY <2>b, <3>1, <4>1
    <3> QED
      BY <2>2, <3>2, <3>3, <3>4, <3>5, <3>6 DEF SourceStep
  <2>3. ASSUME NEW r \in Raises, Raise(r)
        PROVE  [Bus!Next]_(Bus!busVars)
    <3>1. r \notin Raised /\ Raised' = Raised \cup {r}
      BY <2>3 DEF Raise, Raised, TypeOK
    <3>2. UNCHANGED <<Listening, Inboxes>>
      BY <2>3 DEF Raise, Listening, Inboxes, Inbox
    <3>3. todo[r] = {}
      BY <2>3 DEF Raise, DebtInv
    <3>4. /\ todo'[r] = {s \in senders : NameOf[s] = KindOf[r]}
          /\ \A q \in Raises \ {r} : todo'[q] = todo[q]
          /\ rx' = rx /\ senders \subseteq Subs
      BY <2>3 DEF Raise, TypeOK
    <3>5. Owed' = Owed \cup {<<r, s>> : s \in {s \in Listening : NameOf[s] = KindOf[r]}}
      BY <3>3, <3>4 DEF Owed, Listening
    <3> QED
      BY <2>d, <3>1, <3>2, <3>5
  <2>4. ASSUME NEW r \in Raises, Sweep(r)
        PROVE  [Bus!Next]_(Bus!busVars)
    <3>1. UNCHANGED <<Inboxes, Owed>>
      BY <2>4 DEF Sweep, Inboxes, Inbox, Owed
    <3>2. Raised' = Raised
      BY <2>4 DEF Sweep, Raised, TypeOK
    <3>3. Listening' = Listening
      BY <2>4 DEF Sweep, Listening, DebtInv
    <3> QED
      BY <2>f, <3>1, <3>2, <3>3
  <2>5. ASSUME NEW r \in Raises, NEW s \in Subs, Send(r, s)
        PROVE  [Bus!Next]_(Bus!busVars)
    <3>1. UNCHANGED <<Listening, Raised>>
      BY <2>5 DEF Send, Listening, Raised
    <3>2. /\ s \in todo[r] /\ todo'[r] = todo[r] \ {s}
          /\ \A q \in Raises \ {r} : todo'[q] = todo[q]
          /\ rx' = rx
      BY <2>5 DEF Send, TypeOK
    <3>3. Owed' = Owed \ {<<r, s>>}
      BY <3>2 DEF Owed
    <3>4. CASE rx[s] = "dropped"
      <4>1. Inboxes' = Inboxes
        BY <2>5, <3>4 DEF Send, Inboxes, Inbox
      <4>2. Owed' = Owed
        BY <3>3, <3>4 DEF Owed
      <4> QED
        BY <2>f, <3>1, <4>1, <4>2
    <3>5. CASE rx[s] # "dropped"
      <4>1. <<r, s>> \in Owed
        BY <3>2, <3>5 DEF Owed
      <4>2. Inboxes' = [Inboxes EXCEPT ![s] = Append(@, r)]
        BY <2>5, <3>5, SendStep DEF Inboxes
      <4> QED
        BY <2>e, <3>1, <3>3, <4>1, <4>2
    <3> QED
      BY <3>4, <3>5
  <2>6. CASE UNCHANGED vars
    BY <2>f, <2>6 DEF vars, Listening, Owed, Inboxes, Raised, Inbox
  <2> QED
    BY <2>2, <2>3, <2>4, <2>5, <2>6 DEF Next, RaiseStep
<1> QED
  BY <1>1, <1>2, TypeCorrect, DebtAlways, PTL DEF Spec, BusSpec, Bus!Spec
=============================================================================
