---------------------------- MODULE NatTraversal ----------------------------
(***************************************************************************)
(* How a switch finds out that it is behind a NAT and what follows from    *)
(* it: AutoNatClient counts dial-backs and decides once, set_nat stores    *)
(* the state and then raises Network, and CircuitStopServer's hop client   *)
(* holds reservations at relays whose addresses the switch then lists.     *)
(***************************************************************************)
EXTENDS Naturals, Sequences, FiniteSets

CONSTANTS
  Channels,    \* the reservation slots, channel_limits of them
  Relays,      \* peers that relay; each hands out one address, named alike
  NoRelay,     \* a slot that has no reservation
  Limit,       \* answers of one kind beyond this many decide (2 in the code)
  MaxAsking,   \* bound: autonat requests under way at once
  MaxCalls,    \* bound: calls of set_nat by the application
  MaxExpired   \* bound: reservations that expire

ASSUME ChannelsAssumption == IsFiniteSet(Channels)
ASSUME RelaysAssumption == NoRelay \notin Relays
ASSUME LimitAssumption == Limit \in Nat

AutoNAT == {"Public", "NAT", "Unknown"}

VARIABLES
  nat,           \* MutableSwitch.nat
  nat_addrs,     \* MutableSwitch.nat_addrs
  dial_succ,     \* the sum of the counters in RawAutoNatClient.dial_succ
  dial_failed,   \* RawAutoNatClient.dial_failed
  heard,         \* the autonat loop looks up a peer it means to ask
  asking,        \* autonat requests whose answer was not counted yet
  toSet,         \* calls of set_nat that have not stored the state, by state
  toRaise,       \* calls that stored it and have not raised Network
  owed,          \* raises that copied the hop client's sender and not sent
  events,        \* Network events in the hop client's source
  hop,           \* where run_hop_client is
  chan,          \* where the future of a slot is
  relay,         \* the relay it holds a reservation of
  reservations,  \* CircuitStopServerBuilder.reservations
  decisions,     \* history: what the autonat client passed to set_nat
  calls,         \* history: calls of set_nat by the application
  lost,          \* history: nat was NAT and became something else
  expired,       \* history: reservations that expired
  robbed         \* history: slots whose address another slot removed

autonat == <<dial_succ, dial_failed, heard, asking, decisions>>
raising == <<toSet, toRaise, calls>>
slots   == <<chan, relay, reservations, expired, robbed>>
vars == <<nat, nat_addrs, autonat, raising, owed, events, hop, slots, lost>>

Counting == {"pinging", "holding"}
Listing  == {"holding", "removing"}

TypeOK ==
  /\ nat \in AutoNAT /\ nat_addrs \subseteq Relays
  /\ dial_succ \in Nat /\ dial_failed \in Nat
  /\ heard \in BOOLEAN /\ asking \in Nat
  /\ toSet \in [AutoNAT -> Nat] /\ toRaise \in [AutoNAT -> Nat]
  /\ owed \in Nat /\ events \in Nat
  /\ hop \in {"unbound", "check", "wait", "reserving"}
  /\ chan \in [Channels -> {"free", "choosing", "ended"} \cup Counting \cup Listing]
  /\ relay \in [Channels -> Relays \cup {NoRelay}]
  /\ reservations \in Nat
  /\ decisions \in Seq(AutoNAT) /\ calls \in Nat /\ lost \in BOOLEAN
  /\ expired \in Nat /\ robbed \subseteq Channels

Init ==
  /\ nat = "Unknown" /\ nat_addrs = {}
  /\ dial_succ = 0 /\ dial_failed = 0 /\ heard = FALSE /\ asking = 0
  /\ toSet = [s \in AutoNAT |-> 0] /\ toRaise = [s \in AutoNAT |-> 0]
  /\ owed = 0 /\ events = 0
  /\ hop = "unbound"
  /\ chan = [c \in Channels |-> "free"]
  /\ relay = [c \in Channels |-> NoRelay]
  /\ reservations = 0
  /\ decisions = <<>> /\ calls = 0 /\ lost = FALSE /\ expired = 0 /\ robbed = {}

-----------------------------------------------------------------------------
(* AutoNatClient.                                                          *)

\* RawAutoNatClient::state, for given counters.
state(succ, failed) ==
  IF succ > Limit THEN "Public" ELSE IF failed > Limit THEN "NAT" ELSE "Unknown"

\* Faulty variant of Count: answers are counted after the decision too.
CountAlways(succ, failed) ==
  /\ dial_succ' = dial_succ + succ /\ dial_failed' = dial_failed + failed

\* success and failed: an answer counts until the state is known.
Count(succ, failed) ==
  IF state(dial_succ, dial_failed) = "Unknown"
  THEN dial_succ' = dial_succ + succ /\ dial_failed' = dial_failed + failed
  ELSE UNCHANGED <<dial_succ, dial_failed>>

\* auto_nat_success and auto_nat_failed: the counter under its mutex; the call
\* of set_nat it may lead to comes after the mutex was freed.
Answer(succ, failed) ==
  /\ asking > 0
  /\ asking' = asking - 1
  /\ Count(succ, failed)
  /\ LET before == state(dial_succ, dial_failed)
         current == state(dial_succ', dial_failed')
     IN  IF before # current
         THEN /\ toSet' = [toSet EXCEPT ![current] = @ + 1]
              /\ decisions' = Append(decisions, current)
         ELSE UNCHANGED <<toSet, decisions>>
  /\ UNCHANGED <<nat, nat_addrs, heard, toRaise, calls, owed, events, hop, slots, lost>>

AnswerSuccess == Answer(1, 0)
AnswerFailed  == Answer(0, 1)

\* The request ends with an error, or with an OK that names no address.
AnswerLost ==
  /\ asking > 0
  /\ asking' = asking - 1
  /\ UNCHANGED <<nat, nat_addrs, dial_succ, dial_failed, heard, decisions, raising,
                 owed, events, hop, slots, lost>>

\* auto_nat_client hears of a new connection while the state is unknown.
Hear ==
  /\ ~heard /\ nat = "Unknown"
  /\ heard' = TRUE
  /\ UNCHANGED <<nat, nat_addrs, dial_succ, dial_failed, asking, decisions, raising,
                 owed, events, hop, slots, lost>>

\* The lookup of the peer is back: ask it, unless it is no autonat server.
AskOrSkip ==
  /\ heard
  /\ heard' = FALSE
  /\ \/ asking < MaxAsking /\ asking' = asking + 1
     \/ UNCHANGED asking
  /\ UNCHANGED <<nat, nat_addrs, dial_succ, dial_failed, decisions, raising,
                 owed, events, hop, slots, lost>>

-----------------------------------------------------------------------------
(* Switch::set_nat, of any caller.                                         *)

\* The application calls it.
AppSetNat(s) ==
  /\ calls < MaxCalls
  /\ calls' = calls + 1
  /\ toSet' = [toSet EXCEPT ![s] = @ + 1]
  /\ UNCHANGED <<nat, nat_addrs, autonat, toRaise, owed, events, hop, slots, lost>>

\* The state is stored under the mutex.
SetNat(s) ==
  /\ toSet[s] > 0
  /\ toSet' = [toSet EXCEPT ![s] = @ - 1]
  /\ toRaise' = [toRaise EXCEPT ![s] = @ + 1]
  /\ nat' = s
  /\ lost' = (lost \/ (nat = "NAT" /\ s # "NAT"))
  /\ UNCHANGED <<nat_addrs, autonat, calls, owed, events, hop, slots>>

\* raise copies the hop client's sender, if there is one,
RaiseNetwork(s) ==
  /\ toRaise[s] > 0
  /\ toRaise' = [toRaise EXCEPT ![s] = @ - 1]
  /\ owed' = IF hop = "unbound" THEN owed ELSE owed + 1
  /\ UNCHANGED <<nat, nat_addrs, autonat, toSet, calls, events, hop, slots, lost>>

\* and sends to the copy.
SendNetwork ==
  /\ owed > 0
  /\ owed' = owed - 1
  /\ events' = events + 1
  /\ UNCHANGED <<nat, nat_addrs, autonat, raising, hop, slots, lost>>

-----------------------------------------------------------------------------
(* run_hop_client and run_reservation_client.                              *)

\* Faulty variant of HopBind: the first event is awaited before the first check.
HopBindWaits ==
  /\ hop = "unbound"
  /\ hop' = "wait"
  /\ UNCHANGED <<nat, nat_addrs, autonat, raising, owed, events, slots, lost>>

\* The server is started and its event source bound.
HopBind ==
  /\ hop = "unbound"
  /\ hop' = "check"
  /\ UNCHANGED <<nat, nat_addrs, autonat, raising, owed, events, slots, lost>>

\* Behind a NAT every slot starts; otherwise wait for an event.
HopCheck ==
  /\ hop = "check"
  /\ IF nat = "NAT"
     THEN hop' = "reserving" /\ chan' = [c \in Channels |-> "choosing"]
     ELSE hop' = "wait" /\ UNCHANGED chan
  /\ UNCHANGED <<nat, nat_addrs, autonat, raising, owed, events, relay, reservations,
                 expired, robbed, lost>>

HopWake ==
  /\ hop = "wait" /\ events > 0
  /\ events' = events - 1
  /\ hop' = "check"
  /\ UNCHANGED <<nat, nat_addrs, autonat, raising, owed, slots, lost>>

\* A future ended.  Still behind a NAT all free slots start again.  No future
\* is polled between its end and the read of the state.
HopReap(c) ==
  /\ hop = "reserving" /\ chan[c] = "ended"
  /\ chan' = IF nat = "NAT"
             THEN [d \in Channels |-> IF d = c \/ chan[d] = "free" THEN "choosing" ELSE chan[d]]
             ELSE [chan EXCEPT ![c] = "free"]
  /\ UNCHANGED <<nat, nat_addrs, autonat, raising, owed, events, hop, relay,
                 reservations, expired, robbed, lost>>

\* None is left: back to the check.
HopReturn ==
  /\ hop = "reserving" /\ \A c \in Channels : chan[c] = "free"
  /\ hop' = "check"
  /\ UNCHANGED <<nat, nat_addrs, autonat, raising, owed, events, slots, lost>>

-----------------------------------------------------------------------------
(* reservation_client_loop.                                                *)

\* The slots of others that hold a reservation of the relay of c.
Sharing(c) == {d \in Channels \ {c} : chan[d] = "holding" /\ relay[d] = relay[c]}

\* No relay is known, or connecting or reserving fails.  (A relay whose expiry
\* overflows SystemTime makes hop_reserve panic, see Rpc; what becomes of the
\* loop is then the executor's matter and left out.)
NoReservation(c) ==
  /\ chan[c] = "choosing"
  /\ chan' = [chan EXCEPT ![c] = "ended"]
  /\ UNCHANGED <<nat, nat_addrs, autonat, raising, owed, events, hop, relay,
                 reservations, expired, robbed, lost>>

\* The relay granted a reservation; the ping stream is opened next.
Reserve(c, r) ==
  /\ chan[c] = "choosing"
  /\ chan' = [chan EXCEPT ![c] = "pinging"]
  /\ relay' = [relay EXCEPT ![c] = r]
  /\ reservations' = reservations + 1
  /\ UNCHANGED <<nat, nat_addrs, autonat, raising, owed, events, hop, expired, robbed, lost>>

\* Opening the ping stream fails.
OpenPingFails(c) ==
  /\ chan[c] = "pinging"
  /\ chan' = [chan EXCEPT ![c] = "ended"]
  /\ relay' = [relay EXCEPT ![c] = NoRelay]
  /\ reservations' = reservations - 1
  /\ UNCHANGED <<nat, nat_addrs, autonat, raising, owed, events, hop, expired, robbed, lost>>

\* The ping stream is open; the relay's address is listed.
Publish(c) ==
  /\ chan[c] = "pinging"
  /\ chan' = [chan EXCEPT ![c] = "holding"]
  /\ nat_addrs' = nat_addrs \cup {relay[c]}
  /\ UNCHANGED <<nat, autonat, raising, owed, events, hop, relay, reservations, expired,
                 robbed, lost>>

\* A ping fails: the counter first, the address later.
PingFails(c) ==
  /\ chan[c] = "holding"
  /\ chan' = [chan EXCEPT ![c] = "removing"]
  /\ reservations' = reservations - 1
  /\ UNCHANGED <<nat, nat_addrs, autonat, raising, owed, events, hop, relay, expired,
                 robbed, lost>>

\* remove_nat_addrs, although another slot may hold the same relay.
RemoveAddr(c) ==
  /\ nat_addrs' = nat_addrs \ {relay[c]}
  /\ robbed' = (robbed \ {c}) \cup Sharing(c)
  /\ relay' = [relay EXCEPT ![c] = NoRelay]
  /\ chan' = [chan EXCEPT ![c] = "ended"]

\* Faulty variant of Withdraw: the counter is taken down here too.
WithdrawTwice(c) ==
  /\ chan[c] = "removing"
  /\ RemoveAddr(c)
  /\ reservations' = IF reservations > 0 THEN reservations - 1 ELSE 0
  /\ UNCHANGED <<nat, autonat, raising, owed, events, hop, expired, lost>>

\* The end of a slot whose ping failed.
Withdraw(c) ==
  /\ chan[c] = "removing"
  /\ RemoveAddr(c)
  /\ UNCHANGED <<nat, autonat, raising, owed, events, hop, reservations, expired, lost>>

\* A ping succeeded and the network had changed: the address stays listed.
Leave(c) ==
  /\ chan[c] = "holding" /\ nat # "NAT"
  /\ chan' = [chan EXCEPT ![c] = "ended"]
  /\ relay' = [relay EXCEPT ![c] = NoRelay]
  /\ reservations' = reservations - 1
  /\ robbed' = robbed \ {c}
  /\ UNCHANGED <<nat, nat_addrs, autonat, raising, owed, events, hop, expired, lost>>

\* Faulty variant of Expire: a branch that forgets to remove the address.
ExpireListed(c) ==
  /\ chan[c] = "holding" /\ expired < MaxExpired
  /\ chan' = [chan EXCEPT ![c] = "ended"]
  /\ relay' = [relay EXCEPT ![c] = NoRelay]
  /\ expired' = expired + 1
  /\ robbed' = robbed \ {c}
  /\ UNCHANGED <<nat, nat_addrs, autonat, raising, owed, events, hop, reservations, lost>>

\* The reservation expires, before the first ping even; it stays counted.
Expire(c) ==
  /\ chan[c] = "holding" /\ expired < MaxExpired
  /\ expired' = expired + 1
  /\ RemoveAddr(c)
  /\ UNCHANGED <<nat, autonat, raising, owed, events, hop, reservations, lost>>

-----------------------------------------------------------------------------
AutoNatStep == Hear \/ AskOrSkip \/ AnswerSuccess \/ AnswerFailed \/ AnswerLost

SetNatStep == \/ \E s \in AutoNAT : AppSetNat(s) \/ SetNat(s) \/ RaiseNetwork(s)
              \/ SendNetwork

HopStep == HopBind \/ HopCheck \/ HopWake \/ HopReturn \/ \E c \in Channels : HopReap(c)

SlotStep(c) ==
  \/ NoReservation(c) \/ (\E r \in Relays : Reserve(c, r))
  \/ OpenPingFails(c) \/ Publish(c) \/ PingFails(c)
  \/ Withdraw(c) \/ Leave(c) \/ Expire(c)

Next == AutoNatStep \/ SetNatStep \/ HopStep \/ \E c \in Channels : SlotStep(c)

Spec == Init /\ [][Next]_vars

\* Tasks that can run do run: a set_nat that began, and the hop client between
\* two waits.  Nothing is assumed of relays, autonat servers, or the start.
Fairness ==
  /\ \A s \in AutoNAT : WF_vars(SetNat(s)) /\ WF_vars(RaiseNetwork(s))
  /\ WF_vars(SendNetwork)
  /\ WF_vars(HopCheck \/ HopWake \/ HopReturn \/ \E c \in Channels : HopReap(c))

FairSpec == Spec /\ Fairness

-----------------------------------------------------------------------------
(* Properties.                                                             *)

\* However answers, decisions and calls of set_nat interleave, the autonat
\* client decides at most once, and the state is what it decided unless the
\* application set it.
OneDecision ==
  /\ Len(decisions) <= 1
  /\ calls = 0 => nat = "Unknown" \/ decisions = <<nat>>

\* The slots that hold a reservation the relay still grants.
Valid == {c \in Channels : chan[c] \in Counting}

\* reservations() is documented as the count of valid reservations.  It is that
\* until a reservation expires, which takes no count off; never is it less: in
\* whatever order slots are granted, fail and leave, no fetch_sub of one slot
\* takes off what another holds, and the unsigned counter never wraps.
HeldCounted ==
  /\ reservations >= Cardinality(Valid)
  /\ expired = 0 => reservations = Cardinality(Valid)

\* The address of a reservation that is held is listed unless another slot at
\* the same relay removed it; and as long as the node did not leave NAT, each
\* listed address belongs to a slot that holds it or is about to remove it.
AddrsAccounted ==
  /\ \A c \in Channels : chan[c] = "holding" /\ c \notin robbed => relay[c] \in nat_addrs
  /\ ~lost => nat_addrs \subseteq {relay[c] : c \in {d \in Channels : chan[d] \in Listing}}

\* The hop client never waits through a change to NAT: set_nat stores the state
\* before it raises, and the client binds before it reads.
NoMissedNat ==
  hop = "wait" /\ nat = "NAT" => events > 0 \/ owed > 0 \/ \E s \in AutoNAT : toRaise[s] > 0

\* A node that stays behind a NAT starts to reserve, whatever the order of the
\* store, the raise, the start of the server and the checks.
NatFollowed == (nat = "NAT" /\ hop # "unbound") ~> (hop = "reserving" \/ nat # "NAT")
=============================================================================
