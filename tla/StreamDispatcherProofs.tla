----------------------- MODULE StreamDispatcherProofs -----------------------
(***************************************************************************)
(* What StreamDispatcher guarantees for any number of connections,         *)
(* streams, protocols and listeners.                                       *)
(***************************************************************************)
EXTENDS StreamDispatcher, FiniteSetTheorems, TLAPS

-----------------------------------------------------------------------------
(* Facts about the queues and the tables.                                  *)

\* push_back adds one stream to what a queue holds.
LEMMA RangeAppend ==
  ASSUME NEW S, NEW q \in Seq(S), NEW x \in S
  PROVE  /\ Append(q, x) \in Seq(S)
         /\ Append(q, x) # <<>>
         /\ Range(Append(q, x)) = Range(q) \cup {x}
<1>1. /\ Append(q, x) \in Seq(S)
      /\ Len(Append(q, x)) = Len(q) + 1
      /\ DOMAIN q = 1..Len(q)
      /\ DOMAIN Append(q, x) = 1..(Len(q) + 1)
      /\ Len(q) \in Nat
  OBVIOUS
<1>2. \A i \in 1..Len(q) : Append(q, x)[i] = q[i]
  OBVIOUS
<1>3. Append(q, x)[Len(q) + 1] = x
  OBVIOUS
<1>4. 1..(Len(q) + 1) = 1..Len(q) \cup {Len(q) + 1}
  BY <1>1
<1>5. Range(Append(q, x)) = Range(q) \cup {x}
  BY <1>1, <1>2, <1>3, <1>4 DEF Range
<1> QED
  BY <1>1, <1>5

\* pop_front takes the head out and keeps the rest.
LEMMA RangeTail ==
  ASSUME NEW S, NEW q \in Seq(S), q # <<>>
  PROVE  /\ Head(q) \in S
         /\ Head(q) \in Range(q)
         /\ Tail(q) \in Seq(S)
         /\ Range(Tail(q)) \subseteq Range(q)
<1>1. /\ Len(q) \in Nat \ {0}
      /\ DOMAIN q = 1..Len(q)
      /\ Head(q) = q[1]
      /\ Tail(q) \in Seq(S)
      /\ DOMAIN Tail(q) = 1..(Len(q) - 1)
  OBVIOUS
<1>2. \A i \in 1..(Len(q) - 1) : Tail(q)[i] = q[i + 1]
  OBVIOUS
<1> QED
  BY <1>1, <1>2 DEF Range

\* An empty queue holds nothing.
LEMMA RangeEmpty == Range(<<>>) = {}
BY DEF Range

-----------------------------------------------------------------------------
(* Type correctness.                                                       *)

\* dispatch keeps the types of the tables it works on.
LEMMA RouteTypes ==
  ASSUME TypeOK, NEW s \in Streams, NEW t \in Tasks, Route(s, t)
  PROVE  /\ DOMAIN unauth' = DOMAIN unauth
         /\ \A c \in DOMAIN unauth : unauth'[c] \in Seq(Streams)
         /\ DOMAIN inbound' = DOMAIN inbound
         /\ \A l \in DOMAIN inbound : inbound'[l] \in Seq(Streams)
         /\ notify' \subseteq Tasks \X Listeners
<1>1. CASE Cache(s)
  BY <1>1, RangeAppend DEF TypeOK, Cache
<1>2. CASE Enqueue(s, t)
  BY <1>2, RangeAppend DEF TypeOK, Enqueue
<1>3. CASE Discard(s)
  BY <1>3 DEF TypeOK, Discard
<1> QED
  BY <1>1, <1>2, <1>3 DEF Route

\* The specification's variables always have their types.
THEOREM TypeCorrect == Spec => []TypeOK
<1>1. Init => TypeOK
  BY DEF Init, TypeOK, EmptyMap, SetupStates, StreamStates, ListenerStates, AcceptorStates
<1>2. TypeOK /\ [Next]_vars => TypeOK'
  <2> SUFFICES ASSUME TypeOK, [Next]_vars
               PROVE  TypeOK'
    OBVIOUS
  <2> USE DEF SetupStates, StreamStates, ListenerStates, AcceptorStates,
              dispatcher, events, setup, streams, listeners
  <2>1. ASSUME NEW c \in Conns, SetupStep(c)
        PROVE  TypeOK'
    <3>1. CASE Handshake(c)
      <4>1. setups[c] \in 0..2 /\ setups[c] < 2
        BY <3>1 DEF TypeOK, Handshake
      <4>2. setups' \in [Conns -> 0..2]
        BY <3>1, <4>1 DEF TypeOK, Handshake
      <4>3. /\ DOMAIN unauth' \subseteq Conns
            /\ \A d \in DOMAIN unauth' : unauth'[d] \in Seq(Streams)
        BY <3>1 DEF TypeOK, Handshake, Put
      <4> QED
        BY <3>1, <4>2, <4>3 DEF TypeOK, Handshake
    <3>2. CASE IdentityOk(c)
      BY <3>2 DEF TypeOK, IdentityOk, Without, Lookup, Restrict
    <3>3. CASE FlushNext(c)
      <4>1. /\ Head(flushing[c]) \in Streams
            /\ Tail(flushing[c]) \in Seq(Streams)
        BY <3>3, RangeTail DEF TypeOK, FlushNext
      <4>2. Route(Head(flushing[c]), c) /\ c \in Tasks
        BY <3>3 DEF FlushNext, Tasks
      <4> QED
        BY <3>3, <4>1, <4>2, RouteTypes DEF TypeOK, FlushNext
    <3>4. CASE HandshakeDone(c)
      BY <3>4 DEF TypeOK, HandshakeDone
    <3>5. CASE IdentityFails(c)
      BY <3>5 DEF TypeOK, IdentityFails, Without, Restrict
    <3>6. CASE HandshakeAborts(c)
      BY <3>6 DEF TypeOK, HandshakeAborts
    <3>7. CASE CloseConn(c)
      BY <3>7 DEF TypeOK, CloseConn
    <3> QED
      BY <2>1, <3>1, <3>2, <3>3, <3>4, <3>5, <3>6, <3>7 DEF SetupStep
  <2>2. ASSUME NEW s \in Streams, StreamStep(s)
        PROVE  TypeOK'
    <3>1. CASE AcceptStream(s)
      BY <3>1 DEF TypeOK, AcceptStream
    <3>2. CASE Negotiate(s)
      BY <3>2 DEF TypeOK, Negotiate
    <3>3. CASE Bypass(s)
      BY <3>3 DEF TypeOK, Bypass
    <3>4. CASE Dispatch(s)
      <4>1. s \in Tasks /\ Route(s, s)
        BY <3>4 DEF Dispatch, Tasks
      <4> QED
        BY <3>4, <4>1, RouteTypes DEF TypeOK, Dispatch
    <3> QED
      BY <2>2, <3>1, <3>2, <3>3, <3>4 DEF StreamStep
  <2>3. ASSUME NEW l \in Listeners, ListenerStep(l)
        PROVE  TypeOK'
    <3>1. ASSUME NEW P \in SUBSET Protos, Bind(l, P)
          PROVE  TypeOK'
      BY <3>1 DEF TypeOK, Bind, Put, PutAll
    <3>2. CASE Close(l)
      BY <3>2 DEF TypeOK, Close, Without, Restrict, Tasks
    <3>3. CASE AcceptPops(l)
      <4>1. /\ Head(inbound[l]) \in Streams
            /\ Tail(inbound[l]) \in Seq(Streams)
            /\ Append(delivered[l], Head(inbound[l])) \in Seq(Streams)
        BY <3>3, RangeTail, RangeAppend DEF TypeOK, AcceptPops
      <4> QED
        BY <3>3, <4>1 DEF TypeOK, AcceptPops
    <3>4. CASE Accept(l) \/ AcceptFails(l) \/ AcceptWaits(l) \/ AcceptWakes(l)
      BY <3>4 DEF TypeOK, Accept, AcceptFails, AcceptWaits, AcceptWakes
    <3>5. CASE DropListener(l)
      BY <3>5 DEF TypeOK, DropListener
    <3> QED
      BY <2>3, <3>1, <3>2, <3>3, <3>4, <3>5 DEF ListenerStep, AcceptStep
  <2>4. ASSUME NEW t \in Tasks, NEW l \in Listeners, RaiseEvent(t, l)
        PROVE  TypeOK'
    BY <2>4 DEF TypeOK, RaiseEvent
  <2>5. CASE UNCHANGED vars
    BY <2>5 DEF TypeOK, vars
  <2> QED
    BY <2>1, <2>2, <2>3, <2>4, <2>5 DEF Next
<1> QED
  BY <1>1, <1>2, PTL DEF Spec
-----------------------------------------------------------------------------
(* The tables of the dispatcher.                                           *)

\* dispatch touches the contents of queues and caches only.
LEMMA RouteFrame ==
  ASSUME TypeOK, NEW s \in Streams, NEW t \in Tasks, Route(s, t)
  PROVE  DOMAIN unauth' = DOMAIN unauth /\ DOMAIN inbound' = DOMAIN inbound
BY RouteTypes

\* bind and close always leave a bound listener with exactly its protocols and
\* a queue, and every other listener with nothing (stream.rs, bind and close).
THEOREM BindingsAlwaysIntact == Spec => []BindingsIntact
<1>1. Init => BindingsIntact
  BY DEF Init, BindingsIntact, KeysOf, EmptyMap
<1>2. TypeOK /\ BindingsIntact /\ [Next]_vars => BindingsIntact'
  <2> SUFFICES ASSUME TypeOK, BindingsIntact, [Next]_vars
               PROVE  BindingsIntact'
    OBVIOUS
  <2> USE DEF dispatcher, events, setup, streams, listeners
  <2>1. ASSUME UNCHANGED <<protos, listener, wants>>, DOMAIN inbound' = DOMAIN inbound
        PROVE  BindingsIntact'
    BY <2>1 DEF BindingsIntact, KeysOf
  <2>2. ASSUME NEW c \in Conns, SetupStep(c)
        PROVE  BindingsIntact'
    <3>1. CASE FlushNext(c)
      <4>1. Head(flushing[c]) \in Streams /\ c \in Tasks
        BY <3>1, RangeTail DEF TypeOK, FlushNext, Tasks
      <4> QED
        BY <3>1, <4>1, <2>1, RouteFrame DEF FlushNext
    <3>2. CASE ~FlushNext(c)
      BY <2>1, <2>2, <3>2 DEF SetupStep, Handshake, IdentityOk, HandshakeDone,
         IdentityFails, HandshakeAborts, CloseConn
    <3> QED
      BY <3>1, <3>2
  <2>3. ASSUME NEW s \in Streams, StreamStep(s)
        PROVE  BindingsIntact'
    <3>1. CASE Dispatch(s)
      <4>1. s \in Tasks
        BY DEF Tasks
      <4> QED
        BY <3>1, <4>1, <2>1, RouteFrame DEF Dispatch
    <3>2. CASE ~Dispatch(s)
      BY <2>1, <2>3, <3>2 DEF StreamStep, AcceptStream, Negotiate, Bypass
    <3> QED
      BY <3>1, <3>2
  <2>4. ASSUME NEW l \in Listeners, NEW P \in SUBSET Protos, Bind(l, P)
        PROVE  BindingsIntact'
    <3>1. KeysOf(protos, l) = {}
      BY <2>4 DEF BindingsIntact, Bind
    <3>2. ASSUME NEW k \in Listeners
          PROVE  KeysOf(protos, k)' = IF k = l THEN P ELSE KeysOf(protos, k)
      BY <2>4, <3>1 DEF Bind, KeysOf, PutAll
    <3>3. DOMAIN inbound' = DOMAIN inbound \cup {l}
      BY <2>4 DEF Bind, Put
    <3> QED
      BY <2>4, <3>2, <3>3 DEF Bind, BindingsIntact, TypeOK
  <2>5. ASSUME NEW l \in Listeners, Close(l)
        PROVE  BindingsIntact'
    <3>1. ASSUME NEW k \in Listeners
          PROVE  KeysOf(protos, k)' = IF k = l THEN {} ELSE KeysOf(protos, k)
      BY <2>5 DEF Close, KeysOf, Without, Restrict
    <3>2. DOMAIN inbound' = DOMAIN inbound \ {l}
      BY <2>5 DEF Close, Without, Restrict
    <3> QED
      BY <2>5, <3>1, <3>2 DEF Close, BindingsIntact, TypeOK
  <2>6. ASSUME NEW l \in Listeners, AcceptStep(l) \/ DropListener(l)
        PROVE  BindingsIntact'
    BY <2>1, <2>6 DEF AcceptStep, Accept, AcceptPops, AcceptFails, AcceptWaits,
       AcceptWakes, DropListener
  <2>7. ASSUME NEW t \in Tasks, NEW l \in Listeners, RaiseEvent(t, l)
        PROVE  BindingsIntact'
    BY <2>1, <2>7 DEF RaiseEvent
  <2>8. CASE UNCHANGED vars
    BY <2>1, <2>8 DEF vars
  <2> QED
    BY <2>2, <2>3, <2>4, <2>5, <2>6, <2>7, <2>8 DEF Next, ListenerStep
<1> QED
  BY <1>1, <1>2, TypeCorrect, PTL DEF Spec

\* The expect("Consistency Guarantee") of dispatch never fails: the listener a
\* protocol is bound to has a queue.
THEOREM ConsistencyGuaranteed == Spec => []ConsistencyGuarantee
<1>1. TypeOK /\ BindingsIntact => ConsistencyGuarantee
  BY DEF TypeOK, BindingsIntact, ConsistencyGuarantee, KeysOf
<1> QED
  BY <1>1, TypeCorrect, BindingsAlwaysIntact, PTL

\* bind refuses a protocol that is bound: only close takes a protocol from a
\* listener, so no step moves one from a listener to another.
THEOREM NoTakeoverEver == Spec => NoTakeover
<1>1. [Next]_vars =>
        [\A p \in DOMAIN protos \cap DOMAIN protos' : protos'[p] = protos[p]]_protos
  <2> SUFFICES ASSUME [Next]_vars, protos' # protos
               PROVE  \A p \in DOMAIN protos \cap DOMAIN protos' : protos'[p] = protos[p]
    OBVIOUS
  <2> USE DEF dispatcher, events, setup, streams, listeners
  <2>1. ASSUME NEW l \in Listeners, NEW P \in SUBSET Protos, Bind(l, P)
        PROVE  \A p \in DOMAIN protos \cap DOMAIN protos' : protos'[p] = protos[p]
    BY <2>1 DEF Bind, PutAll
  <2>2. ASSUME NEW l \in Listeners, Close(l)
        PROVE  \A p \in DOMAIN protos \cap DOMAIN protos' : protos'[p] = protos[p]
    BY <2>2 DEF Close, Without, Restrict
  <2>3. (\E l \in Listeners : Close(l) \/ \E P \in SUBSET Protos : Bind(l, P))
    BY DEF Next, SetupStep, StreamStep, ListenerStep, AcceptStep, vars,
       Handshake, IdentityOk, FlushNext, HandshakeDone, IdentityFails,
       HandshakeAborts, CloseConn, AcceptStream, Negotiate, Bypass, Dispatch,
       Accept, AcceptPops, AcceptFails, AcceptWaits, AcceptWakes,
       DropListener, RaiseEvent
  <2> QED
    BY <2>1, <2>2, <2>3
<1> QED
  BY <1>1, PTL DEF Spec, NoTakeover

-----------------------------------------------------------------------------
(* Wakeups.                                                                *)

\* An acceptor never sleeps on a listener that has a stream or was closed
\* unless its event is stored or about to be raised (accept registers with
\* KeyWaitMap before it frees the mutex, dispatch and close raise after it).
THEOREM NoWakeupIsLost == Spec => []NoLostWakeup
<1>1. Init => NoLostWakeup
  BY DEF Init, NoLostWakeup
<1>2. TypeOK /\ NoLostWakeup /\ [Next]_vars => NoLostWakeup'
  <2> SUFFICES ASSUME TypeOK, NoLostWakeup, [Next]_vars,
                      NEW l \in Listeners, (acceptor[l] = "waiting" /\ Ready(l))'
               PROVE  (l \in stored \/ \E t \in Tasks : <<t, l>> \in notify)'
    BY DEF NoLostWakeup
  <2> USE DEF dispatcher, events, setup, streams, listeners
  <2>1. ASSUME UNCHANGED <<inbound, acceptor>>, notify \subseteq notify',
               stored \subseteq stored'
        PROVE  (l \in stored \/ \E t \in Tasks : <<t, l>> \in notify)'
    BY <2>1 DEF NoLostWakeup, Ready
  <2>2. ASSUME NEW s \in Streams, NEW t \in Tasks, Route(s, t),
               UNCHANGED <<stored, acceptor>>
        PROVE  (l \in stored \/ \E u \in Tasks : <<u, l>> \in notify)'
    <3>1. CASE Cache(s) \/ Discard(s)
      BY <2>1, <2>2, <3>1 DEF Cache, Discard
    <3>2. CASE Enqueue(s, t)
      <4>1. CASE l = protos[proto[s]]
        BY <3>2, <4>1 DEF Enqueue
      <4>2. CASE l # protos[proto[s]]
        BY <2>2, <3>2, <4>2 DEF Enqueue, NoLostWakeup, Ready, TypeOK
      <4> QED
        BY <4>1, <4>2
    <3> QED
      BY <2>2, <3>1, <3>2 DEF Route
  <2>3. ASSUME NEW c \in Conns, SetupStep(c)
        PROVE  (l \in stored \/ \E t \in Tasks : <<t, l>> \in notify)'
    <3>1. CASE FlushNext(c)
      <4>1. Head(flushing[c]) \in Streams /\ c \in Tasks
        BY <3>1, RangeTail DEF TypeOK, FlushNext, Tasks
      <4> QED
        BY <3>1, <4>1, <2>2 DEF FlushNext
    <3>2. CASE ~FlushNext(c)
      BY <2>1, <2>3, <3>2 DEF SetupStep, Handshake, IdentityOk, HandshakeDone,
         IdentityFails, HandshakeAborts, CloseConn
    <3> QED
      BY <3>1, <3>2
  <2>4. ASSUME NEW s \in Streams, StreamStep(s)
        PROVE  (l \in stored \/ \E t \in Tasks : <<t, l>> \in notify)'
    <3>1. CASE Dispatch(s)
      <4>1. s \in Tasks
        BY DEF Tasks
      <4> QED
        BY <3>1, <4>1, <2>2 DEF Dispatch
    <3>2. CASE ~Dispatch(s)
      BY <2>1, <2>4, <3>2 DEF StreamStep, AcceptStream, Negotiate, Bypass
    <3> QED
      BY <3>1, <3>2
  <2>5. ASSUME NEW k \in Listeners, NEW P \in SUBSET Protos, Bind(k, P)
        PROVE  (l \in stored \/ \E t \in Tasks : <<t, l>> \in notify)'
    BY <2>5 DEF Bind, Put, NoLostWakeup, Ready
  <2>6. ASSUME NEW k \in Listeners, Close(k)
        PROVE  (l \in stored \/ \E t \in Tasks : <<t, l>> \in notify)'
    <3>1. CASE l = k
      BY <2>6, <3>1 DEF Close, Tasks
    <3>2. CASE l # k
      BY <2>6, <3>2 DEF Close, Without, Restrict, NoLostWakeup, Ready
    <3> QED
      BY <3>1, <3>2
  <2>7. ASSUME NEW k \in Listeners, AcceptStep(k) \/ DropListener(k)
        PROVE  (l \in stored \/ \E t \in Tasks : <<t, l>> \in notify)'
    <3>1. CASE l = k
      BY <2>7, <3>1 DEF AcceptStep, Accept, AcceptPops, AcceptFails,
         AcceptWaits, AcceptWakes, DropListener, TypeOK, Ready, NoLostWakeup
    <3>2. CASE l # k
      BY <2>7, <3>2 DEF AcceptStep, Accept, AcceptPops, AcceptFails,
         AcceptWaits, AcceptWakes, DropListener, TypeOK, Ready, NoLostWakeup
    <3> QED
      BY <3>1, <3>2
  <2>8. ASSUME NEW t \in Tasks, NEW k \in Listeners, RaiseEvent(t, k)
        PROVE  (l \in stored \/ \E u \in Tasks : <<u, l>> \in notify)'
    BY <2>8 DEF RaiseEvent, NoLostWakeup, Ready
  <2>9. CASE UNCHANGED vars
    BY <2>1, <2>9 DEF vars
  <2> QED
    BY <2>3, <2>4, <2>5, <2>6, <2>7, <2>8, <2>9 DEF Next, ListenerStep
<1> QED
  BY <1>1, <1>2, TypeCorrect, PTL DEF Spec

-----------------------------------------------------------------------------
(* Deliveries.                                                             *)

\* The streams whose task is over: dispatch was called for them.
Dispatched == {s \in Streams : pc[s] = "done"}

\* What a delivery can be traced back to: only dispatched streams are held
\* anywhere, a listener that was never bound got none, a connection has been
\* registered before its accept loop yields a stream, it stays registered
\* while its identity request is pending, and one that came up passed it.
DeliveryInv ==
  /\ \A c \in DOMAIN unauth : Range(unauth[c]) \subseteq Dispatched
  /\ \A c \in Conns : Range(flushing[c]) \subseteq Dispatched
  /\ \A l \in Listeners : Reached(l) \subseteq Dispatched
  /\ \A l \in Listeners : listener[l] = "new" => delivered[l] = <<>>
  /\ \A s \in Streams : pc[s] # "none" => hs[ConnOf[s]] # "idle"
  /\ \A c \in Conns : hs[c] = "identify" => c \in DOMAIN unauth
  /\ \A c \in Conns : hs[c] \in {"flush", "up"} => c \in authed

\* Only the push of dispatch gives a listener a stream it did not have.
LEMMA ReachedByDispatch ==
  ASSUME TypeOK, [Next]_vars, NEW l \in Listeners, NEW x \in Reached(l)'
  PROVE  \/ x \in Reached(l)
         \/ /\ x \in Streams
            /\ \E t \in Tasks : Enqueue(x, t)
            /\ l = protos[proto[x]]
            /\ \/ Dispatch(x)
               \/ \E c \in Conns : FlushNext(c) /\ x \in Range(flushing[c])
<1> USE DEF dispatcher, events, setup, streams, listeners
<1>1. ASSUME UNCHANGED <<inbound, delivered>>
      PROVE  x \in Reached(l)
  BY <1>1 DEF Reached, Lookup
<1>2. ASSUME NEW s \in Streams, NEW t \in Tasks, Route(s, t), UNCHANGED delivered
      PROVE  x \in Reached(l) \/ (x = s /\ Enqueue(s, t) /\ l = protos[proto[s]])
  <2>1. CASE Cache(s) \/ Discard(s)
    BY <1>1, <1>2, <2>1 DEF Cache, Discard
  <2>2. CASE Enqueue(s, t)
    <3>1. CASE l = protos[proto[s]] /\ l \in DOMAIN inbound
      <4>1. Range(inbound'[l]) = Range(inbound[l]) \cup {s}
        BY <2>2, <3>1, RangeAppend DEF Enqueue, TypeOK
      <4> QED
        BY <1>2, <2>2, <3>1, <4>1 DEF Enqueue, Reached, Lookup
    <3>2. CASE ~(l = protos[proto[s]] /\ l \in DOMAIN inbound)
      BY <1>2, <2>2, <3>2 DEF Enqueue, Reached, Lookup, TypeOK
    <3> QED
      BY <3>1, <3>2
  <2> QED
    BY <1>2, <2>1, <2>2 DEF Route
<1>3. ASSUME NEW c \in Conns, SetupStep(c), x \notin Reached(l)
      PROVE  /\ FlushNext(c)
             /\ x = Head(flushing[c]) /\ x \in Streams /\ x \in Range(flushing[c])
             /\ c \in Tasks /\ Enqueue(x, c) /\ l = protos[proto[x]]
  <2>1. FlushNext(c)
    BY <1>1, <1>3 DEF SetupStep, Handshake, IdentityOk, HandshakeDone,
       IdentityFails, HandshakeAborts, CloseConn
  <2>2. /\ Head(flushing[c]) \in Streams /\ c \in Tasks
        /\ Head(flushing[c]) \in Range(flushing[c])
    BY <2>1, RangeTail DEF TypeOK, FlushNext, Tasks
  <2> QED
    BY <1>2, <1>3, <2>1, <2>2 DEF FlushNext
<1>4. ASSUME NEW s \in Streams, StreamStep(s), x \notin Reached(l)
      PROVE  Dispatch(s) /\ x = s /\ s \in Tasks /\ Enqueue(s, s) /\ l = protos[proto[s]]
  <2>1. Dispatch(s)
    BY <1>1, <1>4 DEF StreamStep, AcceptStream, Negotiate, Bypass
  <2> QED
    BY <1>2, <1>4, <2>1 DEF Dispatch, Tasks
<1>5. ASSUME NEW k \in Listeners, ListenerStep(k)
      PROVE  x \in Reached(l)
  <2>1. ASSUME NEW P \in SUBSET Protos, Bind(k, P)
        PROVE  x \in Reached(l)
    BY <2>1, RangeEmpty DEF Bind, Put, Reached, Lookup
  <2>2. CASE Close(k)
    BY <2>2, RangeEmpty DEF Close, Without, Restrict, Reached, Lookup
  <2>3. CASE AcceptPops(k)
    <3>1. CASE l = k
      <4>1. Range(delivered'[l]) = Range(delivered[l]) \cup {Head(inbound[l])}
        BY <2>3, <3>1, RangeTail, RangeAppend DEF AcceptPops, TypeOK
      <4>2. /\ Range(Tail(inbound[l])) \subseteq Range(inbound[l])
            /\ Head(inbound[l]) \in Range(inbound[l])
        BY <2>3, <3>1, RangeTail DEF AcceptPops, TypeOK
      <4>3. /\ l \in DOMAIN inbound /\ l \in DOMAIN inbound'
            /\ inbound'[l] = Tail(inbound[l])
        BY <2>3, <3>1 DEF AcceptPops, TypeOK
      <4> QED
        BY <4>1, <4>2, <4>3 DEF Reached, Lookup
    <3>2. CASE l # k
      BY <2>3, <3>2 DEF AcceptPops, Reached, Lookup, TypeOK
    <3> QED
      BY <3>1, <3>2
  <2>4. CASE ~AcceptPops(k) /\ (AcceptStep(k) \/ DropListener(k))
    BY <1>1, <2>4 DEF AcceptStep, Accept, AcceptFails, AcceptWaits, AcceptWakes, DropListener
  <2> QED
    BY <1>5, <2>1, <2>2, <2>3, <2>4 DEF ListenerStep, AcceptStep
<1>6. ASSUME NEW t \in Tasks, NEW k \in Listeners, RaiseEvent(t, k)
      PROVE  x \in Reached(l)
  BY <1>1, <1>6 DEF RaiseEvent
<1>7. CASE UNCHANGED vars
  BY <1>1, <1>7 DEF vars
<1> QED
  BY <1>3, <1>4, <1>5, <1>6, <1>7 DEF Next

\* A dispatched stream stays dispatched, on the protocol it negotiated.
LEMMA DispatchedStays ==
  ASSUME TypeOK, [Next]_vars, NEW s \in Dispatched
  PROVE  s \in Dispatched' /\ proto'[s] = proto[s]
<1> USE DEF dispatcher, events, setup, streams, listeners
<1>1. CASE UNCHANGED <<pc, proto>>
  BY <1>1 DEF Dispatched
<1>2. ASSUME NEW u \in Streams, StreamStep(u)
      PROVE  s \in Dispatched' /\ proto'[s] = proto[s]
  BY <1>2 DEF StreamStep, AcceptStream, Negotiate, Bypass, Dispatch, Dispatched, TypeOK
<1>3. ASSUME ~(\E u \in Streams : StreamStep(u))
      PROVE  UNCHANGED <<pc, proto>>
  BY <1>3 DEF Next, vars, SetupStep, ListenerStep, AcceptStep,
     Handshake, IdentityOk, FlushNext, HandshakeDone, IdentityFails,
     HandshakeAborts, CloseConn, Bind, Close, Accept, AcceptPops, AcceptFails,
     AcceptWaits, AcceptWakes, DropListener, RaiseEvent
<1> QED
  BY <1>1, <1>2, <1>3

\* dispatch, wherever it is called, is given a dispatched stream.
LEMMA RouteOfDispatched ==
  ASSUME TypeOK, DeliveryInv, [Next]_vars,
         NEW s \in Streams, NEW t \in Tasks, Route(s, t), s \in Dispatched',
         NEW c \in DOMAIN unauth'
  PROVE  c \in DOMAIN unauth /\ Range(unauth'[c]) \subseteq Dispatched'
<1>1. c \in DOMAIN unauth /\ Range(unauth[c]) \subseteq Dispatched'
  BY RouteTypes, DispatchedStays DEF DeliveryInv
<1>2. CASE Cache(s)
  <2>1. Range(Append(unauth[ConnOf[s]], s)) = Range(unauth[ConnOf[s]]) \cup {s}
    BY <1>2, RangeAppend DEF Cache, TypeOK
  <2> QED
    BY <1>1, <1>2, <2>1 DEF Cache
<1>3. CASE Enqueue(s, t) \/ Discard(s)
  BY <1>1, <1>3 DEF Enqueue, Discard
<1> QED
  BY <1>2, <1>3 DEF Route

\* The caches of connections that are being set up hold dispatched streams.
LEMMA CachedDispatched ==
  ASSUME TypeOK, DeliveryInv, [Next]_vars, NEW c \in DOMAIN unauth'
  PROVE  Range(unauth'[c]) \subseteq Dispatched'
<1> USE DEF dispatcher, events, setup, streams, listeners
<1>1. CASE c \in DOMAIN unauth /\ unauth'[c] = unauth[c]
  BY <1>1, DispatchedStays DEF DeliveryInv
<1>2. ASSUME NEW d \in Conns, SetupStep(d)
      PROVE  Range(unauth'[c]) \subseteq Dispatched'
  <2>1. CASE FlushNext(d)
    <3>1. /\ Head(flushing[d]) \in Streams /\ d \in Tasks
          /\ Head(flushing[d]) \in Range(flushing[d])
      BY <2>1, RangeTail DEF TypeOK, FlushNext, Tasks
    <3>2. Head(flushing[d]) \in Dispatched'
      BY <3>1, DispatchedStays DEF DeliveryInv
    <3> QED
      BY <2>1, <3>1, <3>2, RouteOfDispatched DEF FlushNext
  <2>2. CASE Handshake(d)
    BY <1>1, <2>2, RangeEmpty DEF Handshake, Put
  <2>3. CASE IdentityOk(d) \/ IdentityFails(d)
    BY <1>1, <2>3 DEF IdentityOk, IdentityFails, Without, Restrict
  <2>4. CASE HandshakeDone(d) \/ HandshakeAborts(d) \/ CloseConn(d)
    BY <1>1, <2>4 DEF HandshakeDone, HandshakeAborts, CloseConn
  <2> QED
    BY <1>2, <2>1, <2>2, <2>3, <2>4 DEF SetupStep
<1>3. ASSUME NEW s \in Streams, StreamStep(s)
      PROVE  Range(unauth'[c]) \subseteq Dispatched'
  <2>1. CASE Dispatch(s)
    <3>1. s \in Dispatched' /\ s \in Tasks
      BY <2>1 DEF Dispatch, Dispatched, Tasks, TypeOK
    <3> QED
      BY <2>1, <3>1, RouteOfDispatched DEF Dispatch
  <2>2. CASE ~Dispatch(s)
    BY <1>1, <1>3, <2>2 DEF StreamStep, AcceptStream, Negotiate, Bypass
  <2> QED
    BY <2>1, <2>2
<1>4. ASSUME ~(\E d \in Conns : SetupStep(d)), ~(\E s \in Streams : StreamStep(s))
      PROVE  UNCHANGED unauth
  BY <1>4 DEF Next, vars, ListenerStep, AcceptStep, Bind, Close, Accept, AcceptPops,
     AcceptFails, AcceptWaits, AcceptWakes, DropListener, RaiseEvent
<1> QED
  BY <1>1, <1>2, <1>3, <1>4

\* handshake_success dispatches streams that were dispatched before.
LEMMA FlushingDispatched ==
  ASSUME TypeOK, DeliveryInv, [Next]_vars, NEW c \in Conns
  PROVE  Range(flushing'[c]) \subseteq Dispatched'
<1> USE DEF dispatcher, events, setup, streams, listeners
<1>1. CASE flushing'[c] = flushing[c]
  BY <1>1, DispatchedStays DEF DeliveryInv
<1>2. ASSUME NEW d \in Conns, SetupStep(d)
      PROVE  Range(flushing'[c]) \subseteq Dispatched'
  <2>1. CASE c # d
    BY <1>1, <1>2, <2>1 DEF SetupStep, Handshake, IdentityOk, FlushNext,
       HandshakeDone, IdentityFails, HandshakeAborts, CloseConn, TypeOK
  <2>2. CASE IdentityOk(c)
    <3>1. flushing'[c] = Lookup(unauth, c, <<>>)
      BY <2>2 DEF IdentityOk, TypeOK
    <3> QED
      BY <3>1, RangeEmpty, DispatchedStays DEF Lookup, DeliveryInv
  <2>3. CASE FlushNext(c)
    <3>1. flushing'[c] = Tail(flushing[c])
      BY <2>3 DEF FlushNext, TypeOK
    <3>2. Range(Tail(flushing[c])) \subseteq Range(flushing[c])
      BY <2>3, RangeTail DEF FlushNext, TypeOK
    <3> QED
      BY <3>1, <3>2, DispatchedStays DEF DeliveryInv
  <2>4. CASE HandshakeAborts(c)
    BY <2>4, RangeEmpty DEF HandshakeAborts, TypeOK
  <2>5. CASE Handshake(c) \/ HandshakeDone(c) \/ IdentityFails(c) \/ CloseConn(c)
    BY <1>1, <2>5 DEF Handshake, HandshakeDone, IdentityFails, CloseConn
  <2> QED
    BY <1>2, <2>1, <2>2, <2>3, <2>4, <2>5 DEF SetupStep
<1>3. ASSUME ~(\E d \in Conns : SetupStep(d))
      PROVE  UNCHANGED flushing
  BY <1>3 DEF Next, vars, StreamStep, ListenerStep, AcceptStep, AcceptStream,
     Negotiate, Bypass, Dispatch, Bind, Close, Accept, AcceptPops,
     AcceptFails, AcceptWaits, AcceptWakes, DropListener, RaiseEvent
<1> QED
  BY <1>1, <1>2, <1>3

\* A connection is registered before its accept loop starts, stays registered
\* until its request is decided, and comes up only when it passed.
LEMMA SetupOrder ==
  ASSUME TypeOK, DeliveryInv, [Next]_vars
  PROVE  /\ \A s \in Streams : pc'[s] # "none" => hs'[ConnOf[s]] # "idle"
         /\ \A c \in Conns : hs'[c] = "identify" => c \in DOMAIN unauth'
         /\ \A c \in Conns : hs'[c] \in {"flush", "up"} => c \in authed'
<1> USE DEF dispatcher, events, setup, streams, listeners
<1>1. CASE UNCHANGED <<hs, authed, pc>> /\ DOMAIN unauth' = DOMAIN unauth
  BY <1>1 DEF DeliveryInv
<1>2. ASSUME NEW d \in Conns, SetupStep(d)
      PROVE  /\ \A s \in Streams : pc'[s] # "none" => hs'[ConnOf[s]] # "idle"
             /\ \A c \in Conns : hs'[c] = "identify" => c \in DOMAIN unauth'
             /\ \A c \in Conns : hs'[c] \in {"flush", "up"} => c \in authed'
  <2>1. CASE FlushNext(d)
    <3>1. Head(flushing[d]) \in Streams /\ d \in Tasks
      BY <2>1, RangeTail DEF TypeOK, FlushNext, Tasks
    <3> QED
      BY <1>1, <2>1, <3>1, RouteFrame DEF FlushNext
  <2>2. CASE Handshake(d)
    BY <2>2, ConnOfAssumption DEF Handshake, Put, DeliveryInv, TypeOK
  <2>3. CASE IdentityOk(d)
    BY <2>3, ConnOfAssumption DEF IdentityOk, Without, Restrict, DeliveryInv, TypeOK
  <2>4. CASE IdentityFails(d)
    BY <2>4, ConnOfAssumption DEF IdentityFails, Without, Restrict, DeliveryInv, TypeOK
  <2>5. CASE HandshakeDone(d) \/ HandshakeAborts(d) \/ CloseConn(d)
    BY <2>5, ConnOfAssumption DEF HandshakeDone, HandshakeAborts, CloseConn, DeliveryInv, TypeOK
  <2> QED
    BY <1>2, <2>1, <2>2, <2>3, <2>4, <2>5 DEF SetupStep
<1>3. ASSUME NEW u \in Streams, StreamStep(u)
      PROVE  /\ \A s \in Streams : pc'[s] # "none" => hs'[ConnOf[s]] # "idle"
             /\ UNCHANGED <<hs, authed>> /\ DOMAIN unauth' = DOMAIN unauth
  <2>1. CASE AcceptStream(u)
    BY <2>1 DEF AcceptStream, DeliveryInv, TypeOK
  <2>2. CASE Dispatch(u)
    BY <2>2, RouteFrame DEF Dispatch, DeliveryInv, TypeOK, Tasks
  <2>3. CASE Negotiate(u) \/ Bypass(u)
    BY <2>3 DEF Negotiate, Bypass, DeliveryInv, TypeOK
  <2> QED
    BY <1>3, <2>1, <2>2, <2>3 DEF StreamStep
<1>4. ASSUME ~(\E d \in Conns : SetupStep(d)), ~(\E s \in Streams : StreamStep(s))
      PROVE  UNCHANGED <<hs, authed, pc, unauth>>
  BY <1>4 DEF Next, vars, ListenerStep, AcceptStep, Bind, Close, Accept, AcceptPops,
     AcceptFails, AcceptWaits, AcceptWakes, DropListener, RaiseEvent
<1>5. ASSUME NEW u \in Streams, StreamStep(u)
      PROVE  /\ \A c \in Conns : hs'[c] = "identify" => c \in DOMAIN unauth'
             /\ \A c \in Conns : hs'[c] \in {"flush", "up"} => c \in authed'
  BY <1>3, <1>5 DEF DeliveryInv
<1> QED
  BY <1>1, <1>2, <1>3, <1>4, <1>5

\* DeliveryInv is an invariant.
THEOREM DeliveriesTraced == Spec => []DeliveryInv
<1>1. Init => DeliveryInv
  BY RangeEmpty DEF Init, DeliveryInv, Reached, Lookup, EmptyMap
<1>2. TypeOK /\ BindingsIntact /\ DeliveryInv /\ [Next]_vars => DeliveryInv'
  <2> SUFFICES ASSUME TypeOK, BindingsIntact, DeliveryInv, [Next]_vars
               PROVE  DeliveryInv'
    OBVIOUS
  <2> USE DEF dispatcher, events, setup, streams, listeners
  <2>1. ASSUME NEW l \in Listeners, NEW x \in Reached(l)'
        PROVE  x \in Dispatched'
    <3>1. CASE x \in Reached(l)
      BY <3>1, DispatchedStays DEF DeliveryInv
    <3>2. ASSUME NEW c \in Conns, x \in Range(flushing[c])
          PROVE  x \in Dispatched'
      BY <3>2, DispatchedStays DEF DeliveryInv
    <3>3. CASE x \in Streams /\ Dispatch(x)
      BY <3>3 DEF Dispatch, Dispatched, TypeOK
    <3> QED
      BY <2>1, <3>1, <3>2, <3>3, ReachedByDispatch
  <2>2. ASSUME NEW l \in Listeners, listener'[l] = "new"
        PROVE  delivered'[l] = <<>>
    <3>1. CASE UNCHANGED <<listener, delivered>>
      BY <2>2, <3>1 DEF DeliveryInv
    <3>2. ASSUME NEW k \in Listeners, ListenerStep(k)
          PROVE  delivered'[l] = <<>>
      BY <2>2, <3>1, <3>2 DEF ListenerStep, AcceptStep, Bind, Close, Accept, AcceptPops,
         AcceptFails, AcceptWaits, AcceptWakes, DropListener, DeliveryInv, TypeOK,
         BindingsIntact
    <3>3. ASSUME ~(\E k \in Listeners : ListenerStep(k))
          PROVE  UNCHANGED <<listener, delivered>>
      BY <3>3 DEF Next, vars, SetupStep, StreamStep, Handshake, IdentityOk, FlushNext,
         HandshakeDone, IdentityFails, HandshakeAborts, CloseConn, AcceptStream,
         Negotiate, Bypass, Dispatch, RaiseEvent
    <3> QED
      BY <3>1, <3>2, <3>3
  <2> QED
    BY <2>1, <2>2, CachedDispatched, FlushingDispatched, SetupOrder DEF DeliveryInv
<1> QED
  BY <1>1, <1>2, TypeCorrect, BindingsAlwaysIntact, PTL DEF Spec

\* No listener is given a stream of a connection whose first identity request
\* is still pending: dispatch caches it (stream.rs, handshake and dispatch).
THEOREM AlwaysHeldUntilDecided == Spec => []HeldUntilDecided
<1>1. Init => HeldUntilDecided
  BY RangeEmpty DEF Init, HeldUntilDecided, Reached, Lookup, EmptyMap
<1>2. TypeOK /\ DeliveryInv /\ HeldUntilDecided /\ [Next]_vars => HeldUntilDecided'
  <2> SUFFICES ASSUME TypeOK, DeliveryInv, HeldUntilDecided, [Next]_vars,
                      NEW l \in Listeners, NEW x \in Reached(l)'
               PROVE  (ConnOf[x] \in authed \/ hs[ConnOf[x]] \in {"failed", "down"})'
    BY DEF HeldUntilDecided
  <2> USE DEF dispatcher, events, setup, streams, listeners
  <2>1. ConnOf[x] \in authed \/ hs[ConnOf[x]] \in {"failed", "down"}
    <3>1. CASE x \in Reached(l)
      BY <3>1 DEF HeldUntilDecided
    <3>2. CASE x \notin Reached(l)
      <4>1. x \in Streams /\ ConnOf[x] \in Conns /\ ConnOf[x] \notin DOMAIN unauth
        BY <3>2, ReachedByDispatch, ConnOfAssumption DEF Enqueue
      <4>2. pc[x] # "none"
        BY <3>2, ReachedByDispatch DEF Dispatch, DeliveryInv, Dispatched
      <4> QED
        BY <4>1, <4>2 DEF DeliveryInv, TypeOK, SetupStates
    <3> QED
      BY <3>1, <3>2
  <2>2. ASSUME NEW c \in Conns, c \in authed \/ hs[c] \in {"failed", "down"}
        PROVE  c \in authed' \/ hs'[c] \in {"failed", "down"}
    <3>1. CASE \E d \in Conns : SetupStep(d)
      BY <2>2, <3>1 DEF SetupStep, Handshake, IdentityOk, FlushNext, HandshakeDone,
         IdentityFails, HandshakeAborts, CloseConn, TypeOK
    <3>2. CASE ~(\E d \in Conns : SetupStep(d))
      BY <2>2, <3>2 DEF Next, vars, StreamStep, ListenerStep, AcceptStep, AcceptStream,
         Negotiate, Bypass, Dispatch, Bind, Close, Accept, AcceptPops, AcceptFails,
         AcceptWaits, AcceptWakes, DropListener, RaiseEvent
    <3> QED
      BY <3>1, <3>2
  <2>3. ConnOf[x] \in Conns
    BY <2>1, ReachedByDispatch, ConnOfAssumption DEF DeliveryInv, Dispatched
  <2> QED
    BY <2>1, <2>2, <2>3
<1> QED
  BY <1>1, <1>2, TypeCorrect, DeliveriesTraced, PTL DEF Spec

\* A stream reaches only a listener that bound the protocol it negotiated, even
\* when that listener bound it after the negotiation began or another had it.
THEOREM AlwaysReachesItsBinder == Spec => []ReachesItsBinder
<1>1. Init => ReachesItsBinder
  BY RangeEmpty DEF Init, ReachesItsBinder, Reached, Lookup, EmptyMap
<1>2. TypeOK /\ BindingsIntact /\ DeliveryInv /\ ReachesItsBinder /\ [Next]_vars
        => ReachesItsBinder'
  <2> SUFFICES ASSUME TypeOK, BindingsIntact, DeliveryInv, ReachesItsBinder, [Next]_vars,
                      NEW l \in Listeners, NEW x \in Reached(l)'
               PROVE  proto'[x] \in wants'[l]
    BY DEF ReachesItsBinder
  <2> USE DEF dispatcher, events, setup, streams, listeners
  <2>1. CASE x \in Reached(l)
    <3>1. proto'[x] = proto[x] /\ proto[x] \in wants[l]
      BY <2>1, DispatchedStays DEF DeliveryInv, ReachesItsBinder
    <3>2. listener[l] # "new"
      BY <2>1, RangeEmpty DEF Reached, Lookup, DeliveryInv, BindingsIntact
    <3>3. wants'[l] = wants[l]
      <4>1. CASE \E k \in Listeners : ListenerStep(k)
        BY <3>2, <4>1 DEF ListenerStep, AcceptStep, Bind, Close, Accept, AcceptPops,
           AcceptFails, AcceptWaits, AcceptWakes, DropListener, TypeOK
      <4>2. CASE ~(\E k \in Listeners : ListenerStep(k))
        BY <4>2 DEF Next, vars, SetupStep, StreamStep, Handshake, IdentityOk, FlushNext,
           HandshakeDone, IdentityFails, HandshakeAborts, CloseConn, AcceptStream,
           Negotiate, Bypass, Dispatch, RaiseEvent
      <4> QED
        BY <4>1, <4>2
    <3> QED
      BY <3>1, <3>3
  <2>2. CASE x \notin Reached(l)
    <3>1. proto[x] \in DOMAIN protos /\ protos[proto[x]] = l
      BY <2>2, ReachedByDispatch DEF Enqueue
    <3>2. proto[x] \in wants[l]
      BY <3>1 DEF BindingsIntact, KeysOf
    <3>3. UNCHANGED <<proto, wants>>
      BY <2>2, ReachedByDispatch DEF Dispatch, FlushNext
    <3> QED
      BY <3>2, <3>3
  <2> QED
    BY <2>1, <2>2
<1> QED
  BY <1>1, <1>2, TypeCorrect, BindingsAlwaysIntact, DeliveriesTraced, PTL DEF Spec

-----------------------------------------------------------------------------
(* Where a stream is.                                                      *)

\* Taking the head out of a queue without repetitions leaves none of it.
LEMMA NoRepeatsTail ==
  ASSUME NEW S, NEW q \in Seq(S), q # <<>>, NoRepeats(q)
  PROVE  NoRepeats(Tail(q)) /\ Range(Tail(q)) \subseteq Range(q) \ {Head(q)}
<1>1. /\ Len(q) \in Nat \ {0}
      /\ DOMAIN q = 1..Len(q)
      /\ Head(q) = q[1]
      /\ DOMAIN Tail(q) = 1..(Len(q) - 1)
      /\ \A i \in 1..(Len(q) - 1) : Tail(q)[i] = q[i + 1]
  OBVIOUS
<1>2. \A i, j \in 1..Len(q) : q[i] = q[j] => i = j
  BY <1>1 DEF NoRepeats
<1>3. NoRepeats(Tail(q))
  BY <1>1, <1>2 DEF NoRepeats
<1>4. ASSUME NEW i \in 1..(Len(q) - 1)
      PROVE  Tail(q)[i] # Head(q)
  BY <1>1, <1>2
<1> QED
  BY <1>1, <1>3, <1>4, RangeTail DEF Range

\* Adding a stream that is not there leaves a queue without repetitions.
LEMMA NoRepeatsAppend ==
  ASSUME NEW S, NEW q \in Seq(S), NEW x \in S, NoRepeats(q), x \notin Range(q)
  PROVE  NoRepeats(Append(q, x))
<1>1. /\ Len(q) \in Nat
      /\ DOMAIN q = 1..Len(q)
      /\ DOMAIN Append(q, x) = 1..(Len(q) + 1)
      /\ \A i \in 1..Len(q) : Append(q, x)[i] = q[i]
      /\ Append(q, x)[Len(q) + 1] = x
  OBVIOUS
<1>2. \A i \in 1..Len(q) : q[i] # x
  BY <1>1 DEF Range
<1> QED
  BY <1>1, <1>2 DEF NoRepeats

\* The queues of F hold each element at most once.
OnePlace(F) ==
  /\ \A h \in DOMAIN F : NoRepeats(F[h])
  /\ \A g, h \in DOMAIN F : \A x \in Range(F[g]) : x \in Range(F[h]) => g = h

\* Queues may lose elements.
LEMMA OnePlaceLoses ==
  ASSUME NEW F, OnePlace(F), NEW G, DOMAIN G = DOMAIN F,
         \A h \in DOMAIN F : NoRepeats(G[h]) /\ Range(G[h]) \subseteq Range(F[h])
  PROVE  OnePlace(G)
BY DEF OnePlace

\* One queue may gain an element that all others lose, or never had.
LEMMA OnePlaceGains ==
  ASSUME NEW S, NEW F, OnePlace(F), NEW G, DOMAIN G = DOMAIN F,
         NEW h \in DOMAIN F, NEW x \in S, F[h] \in Seq(S), x \notin Range(F[h]),
         G[h] = Append(F[h], x),
         \A g \in DOMAIN F \ {h} : NoRepeats(G[g]) /\ Range(G[g]) \subseteq Range(F[g]) \ {x}
  PROVE  OnePlace(G)
<1>1. NoRepeats(G[h])
  BY NoRepeatsAppend DEF OnePlace
<1>2. Range(G[h]) = Range(F[h]) \cup {x}
  BY RangeAppend
<1> QED
  BY <1>1, <1>2 DEF OnePlace

\* One queue may be moved to where another was.
LEMMA OnePlaceMoves ==
  ASSUME NEW F, OnePlace(F), NEW G, DOMAIN G = DOMAIN F,
         NEW a \in DOMAIN F, NEW b \in DOMAIN F, a # b,
         G[a] = <<>>, G[b] = F[a],
         \A h \in DOMAIN F \ {a, b} : G[h] = F[h]
  PROVE  OnePlace(G)
<1>1. NoRepeats(<<>>) /\ Range(<<>>) = {}
  BY DEF NoRepeats, Range
<1> QED
  BY <1>1 DEF OnePlace

\* The queues streams may be in.
Places ==
  ({"unauth", "flushing"} \X Conns) \cup ({"queued", "accepted"} \X Listeners)

\* What is in each of them.
Contents ==
  [h \in Places |->
    IF h[1] = "unauth" THEN Lookup(unauth, h[2], <<>>)
    ELSE IF h[1] = "flushing" THEN flushing[h[2]]
    ELSE IF h[1] = "queued" THEN Lookup(inbound, h[2], <<>>)
    ELSE delivered[h[2]]]

\* OneHolder, queue by queue.
HolderInv == OnePlace(Contents)

\* The queues by name.
LEMMA PlacesSplit ==
  /\ \A c \in Conns : <<"unauth", c>> \in Places /\ <<"flushing", c>> \in Places
  /\ \A l \in Listeners : <<"queued", l>> \in Places /\ <<"accepted", l>> \in Places
  /\ \A h \in Places :
       \/ \E c \in Conns : h = <<"unauth", c>> \/ h = <<"flushing", c>>
       \/ \E l \in Listeners : h = <<"queued", l>> \/ h = <<"accepted", l>>
BY DEF Places

\* What is in them, before and after a step.
LEMMA ContentsSplit ==
  /\ DOMAIN Contents = Places /\ DOMAIN Contents' = Places
  /\ \A c \in Conns :
       /\ Contents[<<"unauth", c>>] = Lookup(unauth, c, <<>>)
       /\ Contents[<<"flushing", c>>] = flushing[c]
       /\ Contents'[<<"unauth", c>>] = Lookup(unauth', c, <<>>)
       /\ Contents'[<<"flushing", c>>] = flushing'[c]
  /\ \A l \in Listeners :
       /\ Contents[<<"queued", l>>] = Lookup(inbound, l, <<>>)
       /\ Contents[<<"accepted", l>>] = delivered[l]
       /\ Contents'[<<"queued", l>>] = Lookup(inbound', l, <<>>)
       /\ Contents'[<<"accepted", l>>] = delivered'[l]
BY DEF Contents, Places

\* dispatch puts a stream that no cache and no listener holds into one queue,
\* while the setup task that dispatches it takes it out of its own.
LEMMA RouteHolds ==
  ASSUME TypeOK, ConsistencyGuarantee, HolderInv,
         NEW s \in Streams, NEW t \in Tasks, Route(s, t), UNCHANGED delivered,
         \A c \in Conns : s \notin Range(Lookup(unauth, c, <<>>)),
         \A l \in Listeners : s \notin Reached(l),
         \A c \in Conns : /\ NoRepeats(flushing'[c])
                          /\ Range(flushing'[c]) \subseteq Range(flushing[c]) \ {s}
  PROVE  HolderInv'
<1> DEFINE F == Contents
           G == Contents'
<1>1. DOMAIN F = Places /\ DOMAIN G = Places /\ OnePlace(F)
  BY ContentsSplit DEF HolderInv
<1>2. \A h \in Places : NoRepeats(F[h])
  BY <1>1 DEF OnePlace
<1>3. ASSUME NEW c \in Conns
      PROVE  LET h == <<"flushing", c>> IN
             NoRepeats(G[h]) /\ Range(G[h]) \subseteq Range(F[h]) \ {s}
  BY ContentsSplit
<1>4. ASSUME NEW l \in Listeners
      PROVE  LET h == <<"accepted", l>> IN
             NoRepeats(G[h]) /\ Range(G[h]) \subseteq Range(F[h]) \ {s}
  BY <1>2, ContentsSplit, PlacesSplit DEF Reached
<1>5. ASSUME NEW c \in Conns, Lookup(unauth', c, <<>>) = Lookup(unauth, c, <<>>)
      PROVE  LET h == <<"unauth", c>> IN
             NoRepeats(G[h]) /\ Range(G[h]) \subseteq Range(F[h]) \ {s}
  <2> DEFINE h == <<"unauth", c>>
  <2>1. h \in Places
    BY PlacesSplit
  <2>2. F[h] = Lookup(unauth, c, <<>>)
    BY ContentsSplit
  <2>3. G[h] = F[h]
    BY <1>5, <2>2, ContentsSplit
  <2>4. s \notin Range(F[h])
    BY <2>2
  <2> QED
    BY <1>2, <2>1, <2>3, <2>4
<1>6. ASSUME NEW l \in Listeners, Lookup(inbound', l, <<>>) = Lookup(inbound, l, <<>>)
      PROVE  LET h == <<"queued", l>> IN
             NoRepeats(G[h]) /\ Range(G[h]) \subseteq Range(F[h]) \ {s}
  <2> DEFINE h == <<"queued", l>>
  <2>1. h \in Places
    BY PlacesSplit
  <2>2. F[h] = Lookup(inbound, l, <<>>)
    BY ContentsSplit
  <2>3. G[h] = F[h]
    BY <1>6, <2>2, ContentsSplit
  <2>4. s \notin Range(F[h])
    BY <2>2 DEF Reached
  <2> QED
    BY <1>2, <2>1, <2>3, <2>4
<1> HIDE DEF F, G
<1>7. CASE Cache(s)
  <2> DEFINE d == ConnOf[s]
             h == <<"unauth", d>>
  <2>1. /\ d \in DOMAIN unauth /\ d \in Conns /\ h \in Places
        /\ unauth' = [unauth EXCEPT ![d] = Append(@, s)] /\ inbound' = inbound
    BY <1>7, PlacesSplit DEF Cache, TypeOK
  <2>2. F[h] = unauth[d] /\ G[h] = Append(unauth[d], s) /\ unauth[d] \in Seq(Streams)
    BY <2>1, ContentsSplit DEF Lookup, TypeOK, F, G
  <2>3. s \notin Range(F[h])
    BY <2>1, <2>2 DEF Lookup
  <2>4. \A c \in Conns \ {d} : Lookup(unauth', c, <<>>) = Lookup(unauth, c, <<>>)
    BY <2>1 DEF Lookup
  <2>5. \A l \in Listeners : Lookup(inbound', l, <<>>) = Lookup(inbound, l, <<>>)
    BY <2>1
  <2>6. \A g \in Places \ {h} : NoRepeats(G[g]) /\ Range(G[g]) \subseteq Range(F[g]) \ {s}
    BY <1>3, <1>4, <1>5, <1>6, <2>4, <2>5, PlacesSplit
  <2> HIDE DEF h, d
  <2>7. OnePlace(G)
    BY <1>1, <2>1, <2>2, <2>3, <2>6, OnePlaceGains
  <2> QED
    BY <2>7 DEF HolderInv, G
<1>8. CASE Enqueue(s, t)
  <2> DEFINE k == protos[proto[s]]
             h == <<"queued", k>>
  <2>1. /\ k \in DOMAIN inbound /\ k \in Listeners /\ h \in Places
        /\ inbound' = [inbound EXCEPT ![k] = Append(@, s)] /\ unauth' = unauth
    BY <1>8, PlacesSplit DEF Enqueue, TypeOK, ConsistencyGuarantee
  <2>2. F[h] = inbound[k] /\ G[h] = Append(inbound[k], s) /\ inbound[k] \in Seq(Streams)
    BY <2>1, ContentsSplit DEF Lookup, TypeOK, F, G
  <2>3. s \notin Range(F[h])
    BY <2>1, <2>2 DEF Lookup, Reached
  <2>4. \A l \in Listeners \ {k} : Lookup(inbound', l, <<>>) = Lookup(inbound, l, <<>>)
    BY <2>1 DEF Lookup
  <2>5. \A c \in Conns : Lookup(unauth', c, <<>>) = Lookup(unauth, c, <<>>)
    BY <2>1
  <2>6. \A g \in Places \ {h} : NoRepeats(G[g]) /\ Range(G[g]) \subseteq Range(F[g]) \ {s}
    BY <1>3, <1>4, <1>5, <1>6, <2>4, <2>5, PlacesSplit
  <2> HIDE DEF h, k
  <2>7. OnePlace(G)
    BY <1>1, <2>1, <2>2, <2>3, <2>6, OnePlaceGains
  <2> QED
    BY <2>7 DEF HolderInv, G
<1>9. CASE Discard(s)
  <2>1. inbound' = inbound /\ unauth' = unauth
    BY <1>9 DEF Discard
  <2>2. \A g \in Places : NoRepeats(G[g]) /\ Range(G[g]) \subseteq Range(F[g])
    BY <1>3, <1>4, <1>5, <1>6, <2>1, PlacesSplit
  <2>3. OnePlace(G)
    BY <1>1, <2>2, OnePlaceLoses
  <2> QED
    BY <2>3 DEF HolderInv, G
<1> QED
  BY <1>7, <1>8, <1>9 DEF Route

\* Steps that only let queues lose streams.
LEMMA LosesHolds ==
  ASSUME TypeOK, HolderInv,
         \A c \in Conns :
           /\ NoRepeats(Lookup(unauth', c, <<>>)) /\ NoRepeats(flushing'[c])
           /\ Range(Lookup(unauth', c, <<>>)) \subseteq Range(Lookup(unauth, c, <<>>))
           /\ Range(flushing'[c]) \subseteq Range(flushing[c]),
         \A l \in Listeners :
           /\ NoRepeats(Lookup(inbound', l, <<>>)) /\ NoRepeats(delivered'[l])
           /\ Range(Lookup(inbound', l, <<>>)) \subseteq Range(Lookup(inbound, l, <<>>))
           /\ Range(delivered'[l]) \subseteq Range(delivered[l])
  PROVE  HolderInv'
<1>1. DOMAIN Contents = Places /\ DOMAIN Contents' = Places /\ OnePlace(Contents)
  BY ContentsSplit DEF HolderInv
<1>2. \A h \in Places :
        NoRepeats(Contents'[h]) /\ Range(Contents'[h]) \subseteq Range(Contents[h])
  <2>1. ASSUME NEW c \in Conns
        PROVE  LET h == <<"unauth", c>> IN
               NoRepeats(Contents'[h]) /\ Range(Contents'[h]) \subseteq Range(Contents[h])
    BY ContentsSplit
  <2>2. ASSUME NEW c \in Conns
        PROVE  LET h == <<"flushing", c>> IN
               NoRepeats(Contents'[h]) /\ Range(Contents'[h]) \subseteq Range(Contents[h])
    BY ContentsSplit
  <2>3. ASSUME NEW l \in Listeners
        PROVE  LET h == <<"queued", l>> IN
               NoRepeats(Contents'[h]) /\ Range(Contents'[h]) \subseteq Range(Contents[h])
    BY ContentsSplit
  <2>4. ASSUME NEW l \in Listeners
        PROVE  LET h == <<"accepted", l>> IN
               NoRepeats(Contents'[h]) /\ Range(Contents'[h]) \subseteq Range(Contents[h])
    BY ContentsSplit
  <2> QED
    BY <2>1, <2>2, <2>3, <2>4, PlacesSplit
<1>3. OnePlace(Contents')
  BY <1>1, <1>2, OnePlaceLoses
<1> QED
  BY <1>3 DEF HolderInv

\* The parts of HolderInv by name.
LEMMA NoRepeatsSplit ==
  ASSUME HolderInv
  PROVE  /\ \A c \in Conns : NoRepeats(Lookup(unauth, c, <<>>)) /\ NoRepeats(flushing[c])
         /\ \A l \in Listeners : NoRepeats(Lookup(inbound, l, <<>>)) /\ NoRepeats(delivered[l])
<1>1. \A h \in Places : NoRepeats(Contents[h])
  BY ContentsSplit DEF HolderInv, OnePlace
<1> QED
  BY <1>1, ContentsSplit, PlacesSplit

\* A stream that is being flushed is nowhere else, nor is one that was not
\* dispatched yet.
LEMMA HeldOnce ==
  ASSUME TypeOK, HolderInv, NEW d \in Conns, NEW x \in Range(flushing[d])
  PROVE  /\ \A c \in Conns : x \notin Range(Lookup(unauth, c, <<>>))
         /\ \A l \in Listeners : x \notin Reached(l)
         /\ \A c \in Conns \ {d} : x \notin Range(flushing[c])
<1> DEFINE h == <<"flushing", d>>
<1>1. h \in Places /\ Contents[h] = flushing[d]
  BY ContentsSplit, PlacesSplit
<1>2. \A g \in Places : x \in Range(Contents[g]) => g = h
  BY <1>1, ContentsSplit DEF HolderInv, OnePlace
<1>3. ASSUME NEW c \in Conns
      PROVE  x \notin Range(Lookup(unauth, c, <<>>)) /\ (c # d => x \notin Range(flushing[c]))
  <2>1. /\ <<"unauth", c>> \in Places /\ <<"flushing", c>> \in Places
        /\ <<"unauth", c>> # h /\ (c # d => <<"flushing", c>> # h)
    BY PlacesSplit
  <2>2. /\ Contents[<<"unauth", c>>] = Lookup(unauth, c, <<>>)
        /\ Contents[<<"flushing", c>>] = flushing[c]
    BY ContentsSplit
  <2> QED
    BY <1>2, <2>1, <2>2
<1>4. ASSUME NEW l \in Listeners
      PROVE  x \notin Reached(l)
  <2>1. /\ <<"queued", l>> \in Places /\ <<"accepted", l>> \in Places
        /\ <<"queued", l>> # h /\ <<"accepted", l>> # h
    BY PlacesSplit
  <2>2. /\ Contents[<<"queued", l>>] = Lookup(inbound, l, <<>>)
        /\ Contents[<<"accepted", l>>] = delivered[l]
    BY ContentsSplit
  <2> QED
    BY <1>2, <2>1, <2>2 DEF Reached
<1> QED
  BY <1>3, <1>4

\* A step leaves what is at the place h.
UnchangedAt(h) == Contents'[h] = Contents[h]

\* The queues of a connection that a step leaves alone.
LEMMA SetupUnchanged ==
  ASSUME NEW c \in Conns, Lookup(unauth', c, <<>>) = Lookup(unauth, c, <<>>),
         flushing'[c] = flushing[c]
  PROVE  UnchangedAt(<<"unauth", c>>) /\ UnchangedAt(<<"flushing", c>>)
BY ContentsSplit DEF UnchangedAt

\* The queues of a listener that a step leaves alone.
LEMMA ListenerUnchanged ==
  ASSUME NEW l \in Listeners, Lookup(inbound', l, <<>>) = Lookup(inbound, l, <<>>),
         delivered'[l] = delivered[l]
  PROVE  UnchangedAt(<<"queued", l>>) /\ UnchangedAt(<<"accepted", l>>)
BY ContentsSplit DEF UnchangedAt

\* handshake_success moves the whole cache of its connection.
LEMMA IdentityOkHolds ==
  ASSUME TypeOK, HolderInv, NEW d \in Conns, IdentityOk(d)
  PROVE  HolderInv'
<1> USE DEF dispatcher, events, setup, streams, listeners
<1> DEFINE a == <<"unauth", d>>
           b == <<"flushing", d>>
<1>1. a \in Places /\ b \in Places /\ a # b
  BY PlacesSplit
<1>2. /\ unauth' = Without(unauth, {d}) /\ UNCHANGED <<inbound, delivered>>
      /\ flushing' = [flushing EXCEPT ![d] = Lookup(unauth, d, <<>>)]
      /\ flushing \in [Conns -> Seq(Streams)]
  BY DEF IdentityOk, TypeOK
<1>3. /\ Lookup(unauth', d, <<>>) = <<>> /\ flushing'[d] = Lookup(unauth, d, <<>>)
      /\ \A c \in Conns \ {d} :
           Lookup(unauth', c, <<>>) = Lookup(unauth, c, <<>>) /\ flushing'[c] = flushing[c]
  BY <1>2 DEF Lookup, Without, Restrict
<1>4. Contents'[a] = <<>> /\ Contents'[b] = Contents[a]
  BY <1>3, ContentsSplit
<1>5. ASSUME NEW h \in Places \ {a, b}
      PROVE  Contents'[h] = Contents[h]
  <2>1. ASSUME NEW c \in Conns, c # d
        PROVE  UnchangedAt(<<"unauth", c>>) /\ UnchangedAt(<<"flushing", c>>)
    BY <1>3, <2>1, SetupUnchanged
  <2>2. ASSUME NEW l \in Listeners
        PROVE  UnchangedAt(<<"queued", l>>) /\ UnchangedAt(<<"accepted", l>>)
    BY <1>2, ListenerUnchanged
  <2>3. ASSUME NEW c \in Conns, h = <<"unauth", c>> \/ h = <<"flushing", c>>
        PROVE  UnchangedAt(h)
    <3>1. c # d
      BY <2>3
    <3> QED
      BY <2>1, <2>3, <3>1
  <2>4. UnchangedAt(h)
    BY <2>2, <2>3, PlacesSplit
  <2> QED
    BY <2>4 DEF UnchangedAt
<1> HIDE DEF a, b
<1>6. OnePlace(Contents')
  BY <1>1, <1>4, <1>5, ContentsSplit, OnePlaceMoves DEF HolderInv
<1> QED
  BY <1>6 DEF HolderInv

\* accept moves the head of a queue to its caller.
LEMMA AcceptPopsHolds ==
  ASSUME TypeOK, HolderInv, NEW k \in Listeners, AcceptPops(k)
  PROVE  HolderInv'
<1> USE DEF dispatcher, events, setup, streams, listeners
<1> DEFINE a == <<"queued", k>>
           b == <<"accepted", k>>
           x == Head(inbound[k])
<1>1. a \in Places /\ b \in Places /\ a # b
  BY PlacesSplit
<1>2. /\ k \in DOMAIN inbound /\ inbound[k] \in Seq(Streams) /\ inbound[k] # <<>>
      /\ inbound' = [inbound EXCEPT ![k] = Tail(@)]
      /\ delivered' = [delivered EXCEPT ![k] = Append(@, x)]
      /\ delivered \in [Listeners -> Seq(Streams)]
      /\ UNCHANGED <<unauth, flushing>>
  BY DEF AcceptPops, TypeOK
<1>3. /\ Lookup(inbound, k, <<>>) = inbound[k] /\ Lookup(inbound', k, <<>>) = Tail(inbound[k])
      /\ delivered'[k] = Append(delivered[k], x)
      /\ \A l \in Listeners \ {k} :
           Lookup(inbound', l, <<>>) = Lookup(inbound, l, <<>>) /\ delivered'[l] = delivered[l]
  BY <1>2 DEF Lookup
<1>4. /\ Contents[a] = inbound[k] /\ Contents'[a] = Tail(inbound[k])
      /\ Contents[b] = delivered[k] /\ Contents'[b] = Append(delivered[k], x)
  BY <1>3, ContentsSplit
<1>5. x \in Streams /\ x \in Range(inbound[k]) /\ delivered[k] \in Seq(Streams)
  BY <1>2, RangeTail
<1>6. \A h \in Places : NoRepeats(Contents[h])
  BY ContentsSplit DEF HolderInv, OnePlace
<1>7. \A h \in Places : x \in Range(Contents[h]) => h = a
  BY <1>1, <1>4, <1>5, ContentsSplit DEF HolderInv, OnePlace
<1>8. NoRepeats(Contents'[a]) /\ Range(Contents'[a]) \subseteq Range(Contents[a]) \ {x}
  BY <1>1, <1>2, <1>4, <1>6, NoRepeatsTail
<1>9. ASSUME NEW h \in Places \ {a, b}
      PROVE  Contents'[h] = Contents[h]
  <2>1. ASSUME NEW l \in Listeners, l # k
        PROVE  UnchangedAt(<<"queued", l>>) /\ UnchangedAt(<<"accepted", l>>)
    BY <1>3, <2>1, ListenerUnchanged
  <2>2. ASSUME NEW c \in Conns
        PROVE  UnchangedAt(<<"unauth", c>>) /\ UnchangedAt(<<"flushing", c>>)
    BY <1>2, SetupUnchanged
  <2>3. ASSUME NEW l \in Listeners, h = <<"queued", l>> \/ h = <<"accepted", l>>
        PROVE  UnchangedAt(h)
    <3>1. l # k
      BY <2>3
    <3> QED
      BY <2>1, <2>3, <3>1
  <2>4. UnchangedAt(h)
    BY <2>2, <2>3, PlacesSplit
  <2> QED
    BY <2>4 DEF UnchangedAt
<1> HIDE DEF a, b, x
<1>10. \A h \in Places \ {b} :
         NoRepeats(Contents'[h]) /\ Range(Contents'[h]) \subseteq Range(Contents[h]) \ {x}
  BY <1>6, <1>7, <1>8, <1>9
<1>11. OnePlace(Contents')
  BY <1>1, <1>4, <1>5, <1>7, <1>10, ContentsSplit, OnePlaceGains DEF HolderInv
<1> QED
  BY <1>11 DEF HolderInv

\* HolderInv says what OneHolder says.
LEMMA HolderInvSuffices ==
  ASSUME TypeOK, HolderInv
  PROVE  OneHolder
<1>1. ASSUME NEW s \in Streams
      PROVE  Cardinality(Holders(s)) <= 1
  <2> DEFINE Holds(h) == h \in Places /\ s \in Range(Contents[h])
  <2>1. ASSUME NEW c \in DOMAIN unauth, s \in Range(unauth[c])
        PROVE  Holds(<<"unauth", c>>)
    <3>1. c \in Conns /\ Lookup(unauth, c, <<>>) = unauth[c]
      BY DEF TypeOK, Lookup
    <3>2. Contents[<<"unauth", c>>] = unauth[c]
      BY <3>1, ContentsSplit
    <3> QED
      BY <2>1, <3>1, <3>2, PlacesSplit
  <2>2. ASSUME NEW c \in Conns, s \in Range(flushing[c])
        PROVE  Holds(<<"flushing", c>>)
    <3>1. Contents[<<"flushing", c>>] = flushing[c]
      BY ContentsSplit
    <3> QED
      BY <2>2, <3>1, PlacesSplit
  <2>3. ASSUME NEW l \in DOMAIN inbound, s \in Range(inbound[l])
        PROVE  Holds(<<"queued", l>>)
    <3>1. l \in Listeners /\ Lookup(inbound, l, <<>>) = inbound[l]
      BY DEF TypeOK, Lookup
    <3>2. Contents[<<"queued", l>>] = inbound[l]
      BY <3>1, ContentsSplit
    <3> QED
      BY <2>3, <3>1, <3>2, PlacesSplit
  <2>4. ASSUME NEW l \in Listeners, s \in Range(delivered[l])
        PROVE  Holds(<<"accepted", l>>)
    <3>1. Contents[<<"accepted", l>>] = delivered[l]
      BY ContentsSplit
    <3> QED
      BY <2>4, <3>1, PlacesSplit
  <2> HIDE DEF Holds
  <2>5. \A h \in Holders(s) : Holds(h)
    BY <2>1, <2>2, <2>3, <2>4 DEF Holders
  <2>6. \A h \in Holders(s) : h \in Places /\ s \in Range(Contents[h])
    BY <2>5 DEF Holds
  <2>7. \A g, h \in Holders(s) : g = h
    BY <2>6, ContentsSplit DEF HolderInv, OnePlace
  <2>8. CASE Holders(s) = {}
    BY <2>8, FS_EmptySet
  <2>9. CASE Holders(s) # {}
    <3>1. PICK h : Holders(s) = {h}
      BY <2>7, <2>9
    <3>2. Cardinality({h}) = 1
      BY FS_Singleton
    <3> QED
      BY <3>1, <3>2
  <2> QED
    BY <2>8, <2>9
<1> QED
  BY <1>1, NoRepeatsSplit DEF OneHolder

\* Wherever a stream is, on its way from dispatch to the caller of accept, it
\* is there once and nowhere else: dispatch, the flush of handshake_success and
\* accept move it, through repeated handshakes, aborts and closes.
THEOREM AlwaysOneHolder == Spec => []OneHolder
<1>1. Init => HolderInv
  <2> SUFFICES ASSUME Init PROVE HolderInv
    OBVIOUS
  <2>1. ASSUME NEW c \in Conns
        PROVE  Contents[<<"unauth", c>>] = <<>> /\ Contents[<<"flushing", c>>] = <<>>
    <3>1. Lookup(unauth, c, <<>>) = <<>> /\ flushing[c] = <<>>
      BY DEF Init, Lookup, EmptyMap
    <3> QED
      BY <3>1, ContentsSplit
  <2>2. ASSUME NEW l \in Listeners
        PROVE  Contents[<<"queued", l>>] = <<>> /\ Contents[<<"accepted", l>>] = <<>>
    <3>1. Lookup(inbound, l, <<>>) = <<>> /\ delivered[l] = <<>>
      BY DEF Init, Lookup, EmptyMap
    <3> QED
      BY <3>1, ContentsSplit
  <2>3. \A h \in Places : Contents[h] = <<>>
    BY <2>1, <2>2, PlacesSplit
  <2>4. NoRepeats(<<>>)
    BY DEF NoRepeats
  <2> QED
    BY <2>3, <2>4, RangeEmpty, ContentsSplit DEF HolderInv, OnePlace
<1>2. TypeOK /\ ConsistencyGuarantee /\ DeliveryInv /\ HolderInv /\ [Next]_vars => HolderInv'
  <2> SUFFICES ASSUME TypeOK, ConsistencyGuarantee, DeliveryInv, HolderInv, [Next]_vars
               PROVE  HolderInv'
    OBVIOUS
  <2> USE DEF dispatcher, events, setup, streams, listeners
  <2>1. /\ NoRepeats(<<>>) /\ Range(<<>>) = {}
        /\ \A c \in Conns : NoRepeats(Lookup(unauth, c, <<>>)) /\ NoRepeats(flushing[c])
        /\ \A l \in Listeners : NoRepeats(Lookup(inbound, l, <<>>)) /\ NoRepeats(delivered[l])
    BY RangeEmpty, NoRepeatsSplit DEF NoRepeats
  <2>2. ASSUME UNCHANGED <<unauth, inbound, flushing, delivered>>
        PROVE  HolderInv'
    BY <2>1, <2>2, LosesHolds
  <2>3. ASSUME NEW c \in Conns, SetupStep(c)
        PROVE  HolderInv'
    <3>1. CASE FlushNext(c)
      <4> DEFINE x == Head(flushing[c])
      <4>1. /\ x \in Streams /\ x \in Range(flushing[c]) /\ c \in Tasks
            /\ NoRepeats(Tail(flushing[c]))
            /\ Range(Tail(flushing[c])) \subseteq Range(flushing[c]) \ {x}
        BY <2>1, <3>1, RangeTail, NoRepeatsTail DEF FlushNext, TypeOK, Tasks
      <4>2. /\ Route(x, c) /\ UNCHANGED delivered
            /\ flushing'[c] = Tail(flushing[c])
            /\ \A d \in Conns \ {c} : flushing'[d] = flushing[d]
        BY <3>1 DEF FlushNext, TypeOK
      <4>3. /\ \A d \in Conns : x \notin Range(Lookup(unauth, d, <<>>))
            /\ \A l \in Listeners : x \notin Reached(l)
            /\ \A d \in Conns \ {c} : x \notin Range(flushing[d])
        BY <4>1, HeldOnce
      <4> HIDE DEF x
      <4>4. \A d \in Conns : /\ NoRepeats(flushing'[d])
                             /\ Range(flushing'[d]) \subseteq Range(flushing[d]) \ {x}
        BY <2>1, <4>1, <4>2, <4>3
      <4> QED
        BY <4>1, <4>2, <4>3, <4>4, RouteHolds
    <3>2. CASE Handshake(c)
      <4>1. /\ \A d \in Conns : Lookup(unauth', d, <<>>) = IF d = c THEN <<>> ELSE Lookup(unauth, d, <<>>)
            /\ UNCHANGED <<inbound, flushing, delivered>>
        BY <3>2 DEF Handshake, Put, Lookup
      <4> QED
        BY <2>1, <4>1, LosesHolds
    <3>3. CASE IdentityOk(c)
      BY <3>3, IdentityOkHolds
    <3>4. CASE IdentityFails(c)
      <4>1. /\ \A d \in Conns : Lookup(unauth', d, <<>>) = IF d = c THEN <<>> ELSE Lookup(unauth, d, <<>>)
            /\ UNCHANGED <<inbound, flushing, delivered>>
        BY <3>4 DEF IdentityFails, Without, Restrict, Lookup
      <4> QED
        BY <2>1, <4>1, LosesHolds
    <3>5. CASE HandshakeAborts(c)
      <4>1. /\ \A d \in Conns : flushing'[d] = IF d = c THEN <<>> ELSE flushing[d]
            /\ UNCHANGED <<unauth, inbound, delivered>>
        BY <3>5 DEF HandshakeAborts, TypeOK
      <4> QED
        BY <2>1, <4>1, LosesHolds
    <3>6. CASE HandshakeDone(c) \/ CloseConn(c)
      BY <2>2, <3>6 DEF HandshakeDone, CloseConn
    <3> QED
      BY <2>3, <3>1, <3>2, <3>3, <3>4, <3>5, <3>6 DEF SetupStep
  <2>4. ASSUME NEW s \in Streams, StreamStep(s)
        PROVE  HolderInv'
    <3>1. CASE Dispatch(s)
      <4>1. s \in Tasks /\ Route(s, s) /\ UNCHANGED <<flushing, delivered>> /\ s \notin Dispatched
        BY <3>1 DEF Dispatch, Dispatched, Tasks
      <4>2. /\ \A c \in Conns : s \notin Range(Lookup(unauth, c, <<>>))
            /\ \A l \in Listeners : s \notin Reached(l)
            /\ \A c \in Conns : s \notin Range(flushing[c])
        BY <2>1, <4>1 DEF DeliveryInv, Lookup
      <4>3. \A c \in Conns : /\ NoRepeats(flushing'[c])
                             /\ Range(flushing'[c]) \subseteq Range(flushing[c]) \ {s}
        BY <2>1, <4>1, <4>2
      <4> QED
        BY <4>1, <4>2, <4>3, RouteHolds
    <3>2. CASE ~Dispatch(s)
      BY <2>2, <2>4, <3>2 DEF StreamStep, AcceptStream, Negotiate, Bypass
    <3> QED
      BY <3>1, <3>2
  <2>5. ASSUME NEW k \in Listeners, ListenerStep(k)
        PROVE  HolderInv'
    <3>1. ASSUME NEW P \in SUBSET Protos, Bind(k, P)
          PROVE  HolderInv'
      <4>1. /\ \A l \in Listeners : Lookup(inbound', l, <<>>) = IF l = k THEN <<>> ELSE Lookup(inbound, l, <<>>)
            /\ UNCHANGED <<unauth, flushing, delivered>>
        BY <3>1 DEF Bind, Put, Lookup
      <4> QED
        BY <2>1, <4>1, LosesHolds
    <3>2. CASE Close(k)
      <4>1. /\ \A l \in Listeners : Lookup(inbound', l, <<>>) = IF l = k THEN <<>> ELSE Lookup(inbound, l, <<>>)
            /\ UNCHANGED <<unauth, flushing, delivered>>
        BY <3>2 DEF Close, Without, Restrict, Lookup
      <4> QED
        BY <2>1, <4>1, LosesHolds
    <3>3. CASE AcceptPops(k)
      BY <3>3, AcceptPopsHolds
    <3>4. CASE ~AcceptPops(k) /\ (AcceptStep(k) \/ DropListener(k))
      BY <2>2, <3>4 DEF AcceptStep, Accept, AcceptFails, AcceptWaits, AcceptWakes, DropListener
    <3> QED
      BY <2>5, <3>1, <3>2, <3>3, <3>4 DEF ListenerStep, AcceptStep
  <2>6. ASSUME NEW t \in Tasks, NEW l \in Listeners, RaiseEvent(t, l)
        PROVE  HolderInv'
    BY <2>2, <2>6 DEF RaiseEvent
  <2>7. CASE UNCHANGED vars
    BY <2>2, <2>7 DEF vars
  <2> QED
    BY <2>3, <2>4, <2>5, <2>6, <2>7 DEF Next
<1>3. TypeOK /\ HolderInv => OneHolder
  BY HolderInvSuffices
<1> QED
  BY <1>1, <1>2, <1>3, TypeCorrect, ConsistencyGuaranteed, DeliveriesTraced, PTL DEF Spec
=============================================================================
