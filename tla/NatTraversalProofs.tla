------------------------- MODULE NatTraversalProofs -------------------------
(***************************************************************************)
(* Proofs about NatTraversal: types, the single decision, the reservations *)
(* counter, the listed addresses and the wakeup of the hop client.         *)
(***************************************************************************)
EXTENDS NatTraversal, FiniteSetTheorems, TLAPS

\* What the counter really is: the reservations that are held and all that ever
\* expired, which stay in it.
CounterSums == reservations = Cardinality(Valid) + expired

\* The counters decide exactly when a decision was made; while the application
\* stays out, that decision is all that set_nat is or was called with.
DecisionInv ==
  /\ Len(decisions) <= 1
  /\ decisions = <<>> <=> state(dial_succ, dial_failed) = "Unknown"
  /\ calls = 0 => nat = "Unknown" \/ decisions = <<nat>>
  /\ calls = 0 => \A s \in AutoNAT : toSet[s] > 0 => decisions = <<s>>

\* Slots run inside the reservation client, which runs while the node is behind
\* a NAT or has left it.
SlotsInv ==
  /\ hop # "reserving" => \A c \in Channels : chan[c] = "free"
  /\ hop = "reserving" => nat = "NAT" \/ lost
  /\ \A c \in Channels : chan[c] \in Counting \cup Listing => relay[c] \in Relays

-----------------------------------------------------------------------------
(* The counter of reservations.                                            *)

\* A slot that counts makes the counter positive, so no fetch_sub wraps.
LEMMA CountedPositive ==
  ASSUME TypeOK, CounterSums, NEW c \in Channels, chan[c] \in Counting
  PROVE  reservations \in Nat /\ reservations > 0
<1>1. IsFiniteSet(Valid) /\ c \in Valid
  BY ChannelsAssumption, FS_Subset DEF Valid
<1>2. Cardinality(Valid) \in Nat /\ Cardinality(Valid) # 0
  BY <1>1, FS_CardinalityType, FS_EmptySet
<1> QED
  BY <1>2 DEF CounterSums, Valid, TypeOK

\* Steps that leave every slot counted or not as it was keep the balance.
LEMMA SameCounted ==
  ASSUME CounterSums, UNCHANGED <<reservations, expired>>,
         \A c \in Channels : chan'[c] \in Counting <=> chan[c] \in Counting
  PROVE  CounterSums'
<1>1. {c \in Channels : chan'[c] \in Counting} = {c \in Channels : chan[c] \in Counting}
  OBVIOUS
<1> QED
  BY <1>1 DEF CounterSums, Valid

\* A slot that comes to count adds one, one that ceases to count takes one off
\* or stays for ever as expired.
LEMMA OneCounted ==
  ASSUME TypeOK, CounterSums, NEW c \in Channels, NEW s,
         chan' = [chan EXCEPT ![c] = s],
         \/ /\ chan[c] \notin Counting /\ s \in Counting
            /\ reservations' = reservations + 1 /\ expired' = expired
         \/ /\ chan[c] \in Counting /\ s \notin Counting
            /\ \/ reservations' = reservations - 1 /\ expired' = expired
               \/ reservations' = reservations /\ expired' = expired + 1
  PROVE  CounterSums'
<1> DEFINE New == {d \in Channels : chan'[d] \in Counting}
<1>1. IsFiniteSet(Valid) /\ Cardinality(Valid) \in Nat
  BY ChannelsAssumption, FS_Subset, FS_CardinalityType DEF Valid
<1>2. chan \in [Channels -> {"free", "choosing", "ended"} \cup Counting \cup Listing]
  BY DEF TypeOK
<1>3. reservations = Cardinality(Valid) + expired /\ expired \in Nat
  BY DEF CounterSums, Valid, TypeOK
<1>4. CASE chan[c] \notin Counting /\ s \in Counting
  <2>1. New = Valid \cup {c} /\ c \notin Valid
    BY <1>2, <1>4 DEF Valid
  <2>2. Cardinality(New) = Cardinality(Valid) + 1
    BY <1>1, <2>1, FS_AddElement
  <2> QED
    BY <1>1, <1>3, <1>4, <2>2 DEF CounterSums, Valid
<1>5. CASE chan[c] \in Counting /\ s \notin Counting
  <2>1. New = Valid \ {c} /\ c \in Valid
    BY <1>2, <1>5 DEF Valid
  <2>2. Cardinality(New) = Cardinality(Valid) - 1
    BY <1>1, <2>1, FS_RemoveElement
  <2> QED
    BY <1>1, <1>3, <1>5, <2>2 DEF CounterSums, Valid
<1> QED
  BY <1>4, <1>5

\* Every step keeps the balance.
LEMMA CounterStep ==
  ASSUME TypeOK, SlotsInv, CounterSums, [Next]_vars, TypeOK'
  PROVE  CounterSums'
<1> USE DEF slots
<1>1. ASSUME UNCHANGED <<chan, reservations, expired>>
      PROVE  CounterSums'
  BY <1>1 DEF CounterSums, Valid
<1>2. CASE AutoNatStep \/ SetNatStep \/ HopBind \/ HopWake \/ HopReturn \/ UNCHANGED vars
  BY <1>1, <1>2 DEF AutoNatStep, SetNatStep, Hear, AskOrSkip, AnswerSuccess, AnswerFailed,
     Answer, AnswerLost, AppSetNat, SetNat, RaiseNetwork, SendNetwork, HopBind, HopWake,
     HopReturn, vars
<1>3. ASSUME NEW c \in Channels, SlotStep(c)
      PROVE  CounterSums'
  <2>1. CASE NoReservation(c) \/ Publish(c) \/ Withdraw(c)
    BY <2>1, SameCounted DEF NoReservation, Publish, Withdraw, RemoveAddr, TypeOK, Counting
  <2>2. CASE \E r \in Relays : Reserve(c, r)
    BY <2>2, OneCounted DEF Reserve, Counting
  <2>3. CASE OpenPingFails(c) \/ PingFails(c) \/ Leave(c)
    BY <2>3, OneCounted DEF OpenPingFails, PingFails, Leave, Counting
  <2>4. CASE Expire(c)
    BY <2>4, OneCounted DEF Expire, RemoveAddr, Counting
  <2> QED
    BY <1>3, <2>1, <2>2, <2>3, <2>4 DEF SlotStep
<1>4. CASE HopCheck
  BY <1>4, <1>1, SameCounted DEF HopCheck, SlotsInv, TypeOK, Counting
<1>5. ASSUME NEW c \in Channels, HopReap(c)
      PROVE  CounterSums'
  BY <1>5, SameCounted DEF HopReap, TypeOK, Counting
<1> QED
  BY <1>2, <1>3, <1>4, <1>5 DEF Next, HopStep

-----------------------------------------------------------------------------
(* Types.                                                                  *)

\* Every step keeps the types.
LEMMA TypeStep ==
  ASSUME TypeOK, SlotsInv, CounterSums, [Next]_vars
  PROVE  TypeOK'
<1> USE DEF autonat, raising, slots
<1>1. ASSUME NEW succ \in Nat, NEW failed \in Nat, Answer(succ, failed)
      PROVE  TypeOK'
  <2>1. dial_succ' \in Nat /\ dial_failed' \in Nat
    <3>1. dial_succ \in Nat /\ dial_failed \in Nat
      BY DEF TypeOK
    <3> QED
      BY <1>1, <3>1 DEF Answer, Count
  <2>2. state(dial_succ', dial_failed') \in AutoNAT
    BY DEF state, AutoNAT
  <2>3. \/ UNCHANGED <<toSet, decisions>>
        \/ \E s \in AutoNAT : /\ toSet' = [toSet EXCEPT ![s] = @ + 1]
                             /\ decisions' = Append(decisions, s)
    BY <1>1, <2>2 DEF Answer
  <2>4. toSet' \in [AutoNAT -> Nat] /\ decisions' \in Seq(AutoNAT)
    <3>1. toSet \in [AutoNAT -> Nat] /\ decisions \in Seq(AutoNAT)
      BY DEF TypeOK
    <3>2. ASSUME NEW s \in AutoNAT, toSet' = [toSet EXCEPT ![s] = @ + 1],
                 decisions' = Append(decisions, s)
          PROVE  toSet' \in [AutoNAT -> Nat] /\ decisions' \in Seq(AutoNAT)
      <4>1. toSet' \in [AutoNAT -> Nat]
        BY <3>1, <3>2
      <4>2. decisions' \in Seq(AutoNAT)
        BY <3>1, <3>2
      <4> QED
        BY <4>1, <4>2
    <3> QED
      BY <2>3, <3>1, <3>2
  <2>5. /\ asking > 0 /\ asking' = asking - 1
        /\ UNCHANGED <<nat, nat_addrs, heard, toRaise, calls, owed, events, hop, slots, lost>>
    BY <1>1 DEF Answer
  <2> QED
    BY <2>1, <2>4, <2>5 DEF TypeOK
<1>2. CASE AutoNatStep
  <2>1. CASE Hear \/ AskOrSkip \/ AnswerLost
    <3>1. heard' \in {heard, TRUE, FALSE}
      BY <2>1 DEF Hear, AskOrSkip, AnswerLost
    <3>2. \/ asking' \in {asking, asking + 1}
          \/ asking > 0 /\ asking' = asking - 1
      BY <2>1 DEF Hear, AskOrSkip, AnswerLost
    <3>3. UNCHANGED <<nat, nat_addrs, dial_succ, dial_failed, decisions, raising, owed,
                      events, hop, slots, lost>>
      BY <2>1 DEF Hear, AskOrSkip, AnswerLost
    <3>4. heard' \in BOOLEAN
      BY <3>1, Zenon DEF TypeOK
    <3>5. asking' \in Nat
      BY <3>2 DEF TypeOK
    <3> QED
      BY <3>3, <3>4, <3>5 DEF TypeOK
  <2> QED
    BY <1>1, <1>2, <2>1 DEF AutoNatStep, AnswerSuccess, AnswerFailed
<1>3. CASE SetNatStep
  <2>1. ASSUME NEW s \in AutoNAT, AppSetNat(s) \/ SetNat(s) \/ RaiseNetwork(s)
        PROVE  TypeOK'
    <3>1. /\ nat' \in {nat, s} /\ calls' \in {calls, calls + 1} /\ owed' \in {owed, owed + 1}
          /\ UNCHANGED <<nat_addrs, autonat, events, hop, slots>>
      BY <2>1 DEF AppSetNat, SetNat, RaiseNetwork
    <3>2. toSet' \in [AutoNAT -> Nat] /\ toRaise' \in [AutoNAT -> Nat]
      <4>1. toSet \in [AutoNAT -> Nat] /\ toRaise \in [AutoNAT -> Nat]
        BY DEF TypeOK
      <4> QED
        BY <2>1, <4>1 DEF AppSetNat, SetNat, RaiseNetwork
    <3>3. lost' \in BOOLEAN
      BY <2>1, Zenon DEF TypeOK, AppSetNat, SetNat, RaiseNetwork
    <3> QED
      BY <3>1, <3>2, <3>3 DEF TypeOK
  <2>2. CASE SendNetwork
    BY <2>2 DEF SendNetwork, TypeOK
  <2> QED
    BY <1>3, <2>1, <2>2 DEF SetNatStep
<1>4. CASE HopStep
  <2>1. hop' \in {"unbound", "check", "wait", "reserving"} /\ events' \in Nat
    BY <1>4 DEF TypeOK, HopStep, HopBind, HopCheck, HopWake, HopReap, HopReturn
  <2>2. chan' \in [Channels -> {"free", "choosing", "ended"} \cup Counting \cup Listing]
    <3>1. CASE HopCheck \/ \E c \in Channels : HopReap(c)
      BY <3>1 DEF TypeOK, HopCheck, HopReap
    <3>2. CASE HopBind \/ HopWake \/ HopReturn
      BY <3>2 DEF TypeOK, HopBind, HopWake, HopReturn
    <3> QED
      BY <1>4, <3>1, <3>2 DEF HopStep
  <2>3. UNCHANGED <<nat, nat_addrs, autonat, raising, owed, relay, reservations, expired,
                    robbed, lost>>
    BY <1>4 DEF HopStep, HopBind, HopCheck, HopWake, HopReap, HopReturn
  <2> QED
    BY <2>1, <2>2, <2>3 DEF TypeOK
<1>5. ASSUME NEW c \in Channels, SlotStep(c)
      PROVE  TypeOK'
  <2>1. chan' \in [Channels -> {"free", "choosing", "ended"} \cup Counting \cup Listing]
    <3>1. chan \in [Channels -> {"free", "choosing", "ended"} \cup Counting \cup Listing]
      BY DEF TypeOK
    <3> QED
      BY <1>5, <3>1 DEF SlotStep, NoReservation, Reserve, OpenPingFails, Publish, PingFails,
         Withdraw, Leave, Expire, RemoveAddr, Counting, Listing
  <2>2. relay' \in [Channels -> Relays \cup {NoRelay}]
    <3>1. relay \in [Channels -> Relays \cup {NoRelay}]
      BY DEF TypeOK
    <3> QED
      BY <1>5, <3>1 DEF SlotStep, NoReservation, Reserve, OpenPingFails, Publish, PingFails,
         Withdraw, Leave, Expire, RemoveAddr
  <2>3. reservations' \in Nat /\ expired' \in Nat
    <3>1. \/ reservations' \in {reservations, reservations + 1}
          \/ chan[c] \in Counting /\ reservations' = reservations - 1
      BY <1>5 DEF SlotStep, NoReservation, Reserve, OpenPingFails, Publish, PingFails,
         Withdraw, Leave, Expire, Counting
    <3>2. expired' \in {expired, expired + 1}
      BY <1>5 DEF SlotStep, NoReservation, Reserve, OpenPingFails, Publish, PingFails,
         Withdraw, Leave, Expire
    <3>3. reservations \in Nat /\ expired \in Nat
      BY DEF TypeOK
    <3> QED
      BY <3>1, <3>2, <3>3, CountedPositive
  <2>4. nat_addrs' \subseteq Relays /\ robbed' \subseteq Channels
    <3>1. nat_addrs \subseteq Relays /\ robbed \subseteq Channels
      BY DEF TypeOK
    <3>2. CASE Publish(c)
      BY <3>1, <3>2 DEF Publish, SlotsInv, Counting
    <3>3. CASE Withdraw(c) \/ Expire(c)
      BY <3>1, <3>3 DEF Withdraw, Expire, RemoveAddr, Sharing
    <3>4. CASE NoReservation(c) \/ (\E r \in Relays : Reserve(c, r)) \/ OpenPingFails(c)
               \/ PingFails(c) \/ Leave(c)
      BY <3>1, <3>4 DEF NoReservation, Reserve, OpenPingFails, PingFails, Leave
    <3> QED
      BY <1>5, <3>2, <3>3, <3>4 DEF SlotStep
  <2>5. UNCHANGED <<nat, autonat, raising, owed, events, hop, lost>>
    BY <1>5 DEF SlotStep, NoReservation, Reserve, OpenPingFails, Publish, PingFails,
       Withdraw, Leave, Expire
  <2> QED
    BY <2>1, <2>2, <2>3, <2>4, <2>5 DEF TypeOK
<1>6. CASE UNCHANGED vars
  BY <1>6 DEF vars, TypeOK
<1> QED
  BY <1>2, <1>3, <1>4, <1>5, <1>6 DEF Next

-----------------------------------------------------------------------------
(* The decision.                                                           *)

\* Only the answer that takes a counter past the limit decides, and afterwards
\* the counters stand still.
LEMMA DecisionStep ==
  ASSUME TypeOK, DecisionInv, [Next]_vars
  PROVE  DecisionInv'
<1> USE DEF TypeOK, autonat, raising, slots
<1>1. ASSUME NEW succ \in Nat, NEW failed \in Nat, Answer(succ, failed)
      PROVE  DecisionInv'
  <2> DEFINE current == state(dial_succ', dial_failed')
  <2>1. CASE state(dial_succ, dial_failed) = "Unknown" /\ current # "Unknown"
    <3>1. decisions = <<>> /\ decisions' = <<current>>
      BY <1>1, <2>1 DEF Answer, DecisionInv
    <3>2. /\ toSet' = [toSet EXCEPT ![current] = @ + 1]
          /\ UNCHANGED <<nat, calls>>
      BY <1>1, <2>1 DEF Answer
    <3>3. calls = 0 => \A s \in AutoNAT : ~(toSet[s] > 0)
      BY <3>1 DEF DecisionInv
    <3>4. calls = 0 => nat = "Unknown"
      BY <3>1 DEF DecisionInv
    <3>5. \A s \in AutoNAT : s # current => toSet'[s] = toSet[s]
      BY <3>2
    <3> HIDE DEF current
    <3>6. decisions' # <<>> /\ Len(decisions') = 1
      BY <3>1
    <3>7. current # "Unknown"
      BY <2>1
    <3> QED
      BY <3>1, <3>2, <3>3, <3>4, <3>5, <3>6, <3>7 DEF DecisionInv, current
  <2>2. CASE ~(state(dial_succ, dial_failed) = "Unknown" /\ current # "Unknown")
    <3>1. /\ UNCHANGED <<nat, calls, toSet, decisions>>
          /\ current = state(dial_succ, dial_failed)
      BY <1>1, <2>2 DEF Answer, Count
    <3> QED
      BY <3>1 DEF DecisionInv
  <2> QED
    BY <2>1, <2>2
<1>2. CASE AutoNatStep
  BY <1>1, <1>2 DEF AutoNatStep, Hear, AskOrSkip, AnswerSuccess, AnswerFailed, AnswerLost,
     DecisionInv
<1>3. ASSUME NEW s \in AutoNAT, AppSetNat(s) \/ SetNat(s) \/ RaiseNetwork(s)
      PROVE  DecisionInv'
  <2>1. UNCHANGED <<dial_succ, dial_failed, decisions>>
    BY <1>3 DEF AppSetNat, SetNat, RaiseNetwork
  <2>2. CASE AppSetNat(s)
    BY <2>1, <2>2 DEF AppSetNat, DecisionInv
  <2>3. CASE SetNat(s)
    BY <2>1, <2>3 DEF SetNat, DecisionInv
  <2>4. CASE RaiseNetwork(s)
    BY <2>1, <2>4 DEF RaiseNetwork, DecisionInv
  <2> QED
    BY <1>3, <2>2, <2>3, <2>4
<1>4. ASSUME UNCHANGED <<nat, dial_succ, dial_failed, decisions, calls, toSet>>
      PROVE  DecisionInv'
  BY <1>4 DEF DecisionInv
<1>5. CASE SendNetwork \/ HopStep \/ UNCHANGED vars
  BY <1>4, <1>5 DEF SendNetwork, HopStep, HopBind, HopCheck, HopWake, HopReap, HopReturn, vars
<1>6. ASSUME NEW c \in Channels, SlotStep(c)
      PROVE  DecisionInv'
  BY <1>4, <1>6 DEF SlotStep, NoReservation, Reserve, OpenPingFails, Publish, PingFails,
     Withdraw, Leave, Expire
<1> QED
  BY <1>2, <1>3, <1>5, <1>6 DEF Next, SetNatStep
-----------------------------------------------------------------------------
(* The slots and the addresses.                                            *)

\* Every step keeps SlotsInv.
LEMMA SlotsStep ==
  ASSUME TypeOK, SlotsInv, [Next]_vars
  PROVE  SlotsInv'
<1> USE DEF autonat, raising, slots
<1>1. ASSUME UNCHANGED <<hop, chan, relay, nat, lost>>
      PROVE  SlotsInv'
  BY <1>1 DEF SlotsInv
<1>2. CASE AutoNatStep \/ UNCHANGED vars
  BY <1>1, <1>2 DEF AutoNatStep, Hear, AskOrSkip, AnswerSuccess, AnswerFailed, Answer,
     AnswerLost, vars
<1>3. CASE SetNatStep
  <2>1. ASSUME NEW s \in AutoNAT, SetNat(s)
        PROVE  SlotsInv'
    BY <2>1 DEF SetNat, SlotsInv
  <2> QED
    BY <1>1, <1>3, <2>1 DEF SetNatStep, AppSetNat, RaiseNetwork, SendNetwork
<1>4. CASE HopStep
  <2>1. CASE HopCheck
    BY <2>1 DEF HopCheck, SlotsInv, Counting, Listing
  <2>2. ASSUME NEW c \in Channels, HopReap(c)
        PROVE  SlotsInv'
    <3>1. \A d \in Channels : chan'[d] \in Counting \cup Listing => chan'[d] = chan[d]
      BY <2>2 DEF HopReap, TypeOK, Counting, Listing
    <3> QED
      BY <2>2, <3>1 DEF HopReap, SlotsInv
  <2>3. CASE HopBind \/ HopWake \/ HopReturn
    BY <2>3 DEF HopBind, HopWake, HopReturn, SlotsInv
  <2> QED
    BY <1>4, <2>1, <2>2, <2>3 DEF HopStep
<1>5. ASSUME NEW c \in Channels, SlotStep(c)
      PROVE  SlotsInv'
  <2>1. hop = "reserving" /\ UNCHANGED <<hop, nat, lost>>
    BY <1>5 DEF SlotStep, NoReservation, Reserve, OpenPingFails, Publish, PingFails,
       Withdraw, Leave, Expire, SlotsInv
  <2>2. \A d \in Channels : chan'[d] \in Counting \cup Listing => relay'[d] \in Relays
    BY <1>5 DEF SlotStep, NoReservation, Reserve, OpenPingFails, Publish, PingFails,
       Withdraw, Leave, Expire, RemoveAddr, SlotsInv, TypeOK, Counting, Listing
  <2> QED
    BY <2>1, <2>2 DEF SlotsInv
<1> QED
  BY <1>2, <1>3, <1>4, <1>5 DEF Next

\* Every step keeps the listed addresses accounted for.
LEMMA AddrsStep ==
  ASSUME TypeOK, SlotsInv, AddrsAccounted, [Next]_vars
  PROVE  AddrsAccounted'
<1> USE DEF autonat, raising, slots
<1>1. ASSUME UNCHANGED <<nat_addrs, relay, robbed>>, lost => lost',
             \A c \in Channels : chan'[c] \in Listing <=> chan[c] \in Listing,
             \A c \in Channels : chan'[c] = "holding" => chan[c] = "holding"
      PROVE  AddrsAccounted'
  BY <1>1 DEF AddrsAccounted
<1>2. CASE AutoNatStep \/ UNCHANGED vars
  BY <1>1, <1>2 DEF AutoNatStep, Hear, AskOrSkip, AnswerSuccess, AnswerFailed, Answer,
     AnswerLost, vars
<1>3. CASE SetNatStep
  <2>1. UNCHANGED <<nat_addrs, relay, robbed, chan>>
    BY <1>3 DEF SetNatStep, AppSetNat, SetNat, RaiseNetwork, SendNetwork
  <2>2. lost => lost'
    BY <1>3, Zenon DEF SetNatStep, AppSetNat, SetNat, RaiseNetwork, SendNetwork
  <2> QED
    BY <1>1, <2>1, <2>2
<1>4. CASE HopStep
  <2>1. /\ UNCHANGED <<nat_addrs, relay, robbed, lost>>
        /\ \A c \in Channels : /\ chan'[c] \in Listing <=> chan[c] \in Listing
                               /\ chan'[c] = "holding" => chan[c] = "holding"
    BY <1>4 DEF HopStep, HopBind, HopCheck, HopWake, HopReap, HopReturn, SlotsInv, TypeOK,
       Listing
  <2> QED
    BY <1>1, <2>1
<1>5. ASSUME NEW c \in Channels, SlotStep(c)
      PROVE  AddrsAccounted'
  <2>1. /\ chan \in [Channels -> {"free", "choosing", "ended"} \cup Counting \cup Listing]
        /\ relay \in [Channels -> Relays \cup {NoRelay}]
    BY DEF TypeOK
  <2>2. CASE NoReservation(c) \/ PingFails(c)
    BY <1>1, <2>1, <2>2 DEF NoReservation, PingFails, Listing
  <2>3. CASE (\E r \in Relays : Reserve(c, r)) \/ OpenPingFails(c)
    <3>1. /\ UNCHANGED <<nat_addrs, robbed, lost>>
          /\ chan[c] \notin Listing /\ chan'[c] \notin Listing
          /\ \A d \in Channels \ {c} : chan'[d] = chan[d] /\ relay'[d] = relay[d]
      BY <2>1, <2>3 DEF Reserve, OpenPingFails, Listing
    <3> QED
      BY <3>1 DEF AddrsAccounted, Listing
  <2>4. CASE Publish(c)
    BY <2>1, <2>4 DEF Publish, AddrsAccounted, Listing
  <2>5. CASE Withdraw(c) \/ Expire(c)
    <3>1. /\ nat_addrs' = nat_addrs \ {relay[c]} /\ lost' = lost
          /\ robbed' = (robbed \ {c}) \cup Sharing(c)
          /\ chan'[c] = "ended"
          /\ \A d \in Channels \ {c} : chan'[d] = chan[d] /\ relay'[d] = relay[d]
      BY <2>1, <2>5 DEF Withdraw, Expire, RemoveAddr
    <3> QED
      BY <3>1 DEF AddrsAccounted, Sharing, Listing
  <2>6. CASE Leave(c)
    <3>1. lost /\ lost'
      BY <2>6 DEF Leave, SlotsInv
    <3>2. /\ UNCHANGED nat_addrs /\ robbed' = robbed \ {c} /\ chan'[c] = "ended"
          /\ \A d \in Channels \ {c} : chan'[d] = chan[d] /\ relay'[d] = relay[d]
      BY <2>1, <2>6 DEF Leave
    <3> QED
      BY <3>1, <3>2 DEF AddrsAccounted
  <2> QED
    BY <1>5, <2>2, <2>3, <2>4, <2>5, <2>6 DEF SlotStep
<1> QED
  BY <1>2, <1>3, <1>4, <1>5 DEF Next
-----------------------------------------------------------------------------
(* The wakeup of the hop client.                                           *)

\* Every step keeps NoMissedNat: a store leads to a raise, a raise to a send and
\* a send to an event, and the client waits only after it read another state.
LEMMA WakeStep ==
  ASSUME TypeOK, NoMissedNat, [Next]_vars
  PROVE  NoMissedNat'
<1> USE DEF autonat, raising, slots
<1>1. ASSUME UNCHANGED <<nat, hop, events, owed, toRaise>>
      PROVE  NoMissedNat'
  BY <1>1 DEF NoMissedNat
<1>2. CASE AutoNatStep \/ UNCHANGED vars
  BY <1>1, <1>2 DEF AutoNatStep, Hear, AskOrSkip, AnswerSuccess, AnswerFailed, Answer,
     AnswerLost, vars
<1>3. ASSUME NEW s \in AutoNAT, AppSetNat(s) \/ SetNat(s) \/ RaiseNetwork(s)
      PROVE  NoMissedNat'
  <2>1. toRaise \in [AutoNAT -> Nat] /\ owed \in Nat /\ events \in Nat
    BY DEF TypeOK
  <2>2. CASE AppSetNat(s)
    BY <1>1, <2>2 DEF AppSetNat
  <2>3. CASE SetNat(s)
    <3>1. toRaise'[s] > 0
      BY <2>1, <2>3 DEF SetNat
    <3> QED
      BY <3>1 DEF NoMissedNat
  <2>4. CASE RaiseNetwork(s)
    <3>1. hop = "wait" => owed' > 0
      BY <2>1, <2>4 DEF RaiseNetwork
    <3> QED
      BY <2>4, <3>1 DEF RaiseNetwork, NoMissedNat
  <2> QED
    BY <1>3, <2>2, <2>3, <2>4
<1>4. CASE SendNetwork
  <2>1. events' > 0
    BY <1>4 DEF SendNetwork, TypeOK
  <2> QED
    BY <2>1 DEF NoMissedNat
<1>5. CASE HopStep
  <2>1. /\ UNCHANGED <<nat, owed, toRaise>>
        /\ \/ hop' # "wait" \/ nat # "NAT"
           \/ hop' = hop /\ events' = events
    BY <1>5 DEF HopStep, HopBind, HopCheck, HopWake, HopReap, HopReturn
  <2> QED
    BY <2>1 DEF NoMissedNat
<1>6. ASSUME NEW c \in Channels, SlotStep(c)
      PROVE  NoMissedNat'
  BY <1>1, <1>6 DEF SlotStep, NoReservation, Reserve, OpenPingFails, Publish, PingFails,
     Withdraw, Leave, Expire
<1> QED
  BY <1>2, <1>3, <1>4, <1>5, <1>6 DEF Next, SetNatStep

-----------------------------------------------------------------------------
(* The theorems.                                                           *)

Inv == TypeOK /\ DecisionInv /\ SlotsInv /\ CounterSums /\ AddrsAccounted /\ NoMissedNat

\* The invariant holds initially.
LEMMA InvInit == Init => Inv
<1> SUFFICES ASSUME Init
             PROVE  Inv
  OBVIOUS
<1>1. TypeOK
  <2>1. nat \in AutoNAT
    BY DEF Init, AutoNAT
  <2>2. decisions \in Seq(AutoNAT)
    BY DEF Init
  <2>3. heard \in BOOLEAN /\ lost \in BOOLEAN
    BY DEF Init
  <2>4. /\ chan \in [Channels -> {"free", "choosing", "ended"} \cup Counting \cup Listing]
        /\ relay \in [Channels -> Relays \cup {NoRelay}]
        /\ toSet \in [AutoNAT -> Nat] /\ toRaise \in [AutoNAT -> Nat]
    BY DEF Init
  <2> QED
    BY <2>1, <2>2, <2>3, <2>4 DEF Init, TypeOK
<1>2. state(0, 0) = "Unknown"
  BY LimitAssumption DEF state
<1>3. DecisionInv
  BY <1>2 DEF Init, DecisionInv
<1>4. {c \in Channels : chan[c] \in Counting} = {}
  BY DEF Init, Counting
<1>5. CounterSums
  <2>1. Cardinality({c \in Channels : chan[c] \in Counting}) = 0
    BY <1>4, FS_EmptySet
  <2>2. reservations = 0 /\ expired = 0
    BY DEF Init
  <2> QED
    BY <2>1, <2>2 DEF CounterSums, Valid
<1>6. SlotsInv /\ AddrsAccounted /\ NoMissedNat
  BY DEF Init, SlotsInv, AddrsAccounted, NoMissedNat, Counting, Listing
<1> QED
  BY <1>1, <1>3, <1>5, <1>6 DEF Inv

\* The invariant is inductive.
LEMMA InvStep == Inv /\ [Next]_vars => Inv'
  BY TypeStep, DecisionStep, SlotsStep, CounterStep, AddrsStep, WakeStep DEF Inv

\* The invariant holds in every reachable state.
LEMMA Invariant == Spec => []Inv
  BY InvInit, InvStep, PTL DEF Spec

\* The switch's NAT state, its clients and their counters always have their types;
\* the reservations counter never wraps.
THEOREM TypeCorrect == Spec => []TypeOK
<1>1. Inv => TypeOK
  BY DEF Inv
<1> QED
  BY <1>1, Invariant, PTL

\* The autonat client decides at most once, and nat is what it decided unless
\* the application calls set_nat.
THEOREM DecidesOnce == Spec => []OneDecision
<1>1. Inv => OneDecision
  BY DEF Inv, DecisionInv, OneDecision
<1> QED
  BY <1>1, Invariant, PTL

\* reservations() is never less than the reservations that slots hold, so no end
\* of a slot makes it wrap, and it is their number until one expires.
THEOREM HeldAreCounted == Spec => []HeldCounted
<1>1. ASSUME Inv PROVE HeldCounted
  <2>1. IsFiniteSet(Valid) /\ Cardinality(Valid) \in Nat
    BY ChannelsAssumption, FS_Subset, FS_CardinalityType DEF Valid
  <2>2. reservations = Cardinality(Valid) + expired /\ expired \in Nat
    BY <1>1 DEF Inv, CounterSums, TypeOK
  <2>3. reservations >= Cardinality(Valid)
    BY <2>1, <2>2
  <2> QED
    BY <2>1, <2>2, <2>3 DEF HeldCounted
<1> QED
  BY <1>1, Invariant, PTL

\* Held addresses are listed and, until NAT is left, listed addresses are held.
THEOREM AddrsSound == Spec => []AddrsAccounted
<1>1. Inv => AddrsAccounted
  BY DEF Inv
<1> QED
  BY <1>1, Invariant, PTL

\* The hop client never waits through a change to NAT.
THEOREM NatNeverMissed == Spec => []NoMissedNat
<1>1. Inv => NoMissedNat
  BY DEF Inv
<1> QED
  BY <1>1, Invariant, PTL
=============================================================================
