----------------------------- MODULE HttpdPool -----------------------------
(***************************************************************************)
(* libesphttpd/core/httpd.c and httpd-nonos.c: the pool of connections.    *)
(* A callback brings a socket; its slot is found by the peer's address and *)
(* port.  What a slot's connection does is HttpdConn; here every callback  *)
(* may ask for the disconnection.  TCP guarantees that two sockets that    *)
(* exist together have different peers.                                    *)
(***************************************************************************)
EXTENDS Integers, FiniteSets

CONSTANTS Sockets,   \* espconn sockets of the listener
          Addresses, \* of the clients
          Ports,     \* of the clients
          MaxConn    \* HTTPD_MAX_CONNECTIONS

ASSUME PoolAssumption == MaxConn \in Nat /\ IsFiniteSet(Sockets)

Peers == [ip : Addresses, port : Ports]

VARIABLES
  sock,   \* state of each socket
  peer,   \* its peer, while it exists
  pool,   \* connData: used slot -> peer, current socket, socket it was made for
  broke   \* history: a connection broke (reset, timeout)

vars == <<sock, peer, pool, broke>>

Live == {s \in Sockets : sock[s] \in {"open", "closing"}}
Existing == {s \in Sockets : sock[s] # "none"}

Init ==
  /\ sock = [s \in Sockets |-> "none"]
  /\ peer \in [Sockets -> Peers] /\ \A s, t \in Sockets : peer[s] = peer[t]
  /\ pool = << >> /\ broke = FALSE
-----------------------------------------------------------------------------
Lowest(i, S) == i \in S /\ \A j \in S : i <= j

\* Mutated form: only the address is compared.
SameAddress(s) == {i \in DOMAIN pool : pool[i].peer.ip = peer[s].ip}

\* Slots httpdFindConnData would accept for the socket
Find(s) ==
  {i \in DOMAIN pool : /\ pool[i].peer.port = peer[s].port
                       /\ pool[i].peer.ip = peer[s].ip}

\* The loop of httpdConnectCb ran to its end.
Overflow(i) == i = MaxConn + 1

\* httpdConnectCb: the lowest free slot, or platConnCb drops the connection
\* without having registered a callback.
Connect(s, p) ==
  /\ sock[s] = "none" /\ \A t \in Existing : peer[t] # p
  /\ peer' = [peer EXCEPT ![s] = p] /\ UNCHANGED broke
  /\ \E i \in 1 .. MaxConn + 1 :
       /\ Lowest(i, (1 .. MaxConn + 1) \ DOMAIN pool)
       /\ IF Overflow(i)
          THEN sock' = [sock EXCEPT ![s] = "refused"] /\ UNCHANGED pool
          ELSE /\ sock' = [sock EXCEPT ![s] = "open"]
               /\ pool' = [j \in DOMAIN pool \cup {i} |->
                           IF j = i THEN [peer |-> p, conn |-> s, madeFor |-> s]
                           ELSE pool[j]]

\* platRecvCb or platSentCb; the server may close, and does so for a socket it
\* does not know.
Callback(s) ==
  /\ sock[s] = "open"
  /\ UNCHANGED <<peer, broke>>
  /\ IF Find(s) = {}
     THEN sock' = [sock EXCEPT ![s] = "closing"] /\ UNCHANGED pool
     ELSE /\ \E i \in Find(s) :
               Lowest(i, Find(s)) /\ pool' = [pool EXCEPT ![i].conn = s]
          /\ sock' \in {sock, [sock EXCEPT ![s] = "closing"]}

\* Mutated form: the slot is not given back.
NotRetired(i) == UNCHANGED pool

\* httpdRetireConn
Retire(i) == pool' = [j \in DOMAIN pool \ {i} |-> pool[j]]

\* platDisconCb: either side closed.
Disconnected(s) ==
  /\ s \in Live
  /\ sock' = [sock EXCEPT ![s] = "none"]
  /\ UNCHANGED <<peer, broke>>
  /\ IF Find(s) = {} THEN UNCHANGED pool
     ELSE \E i \in Find(s) : Lowest(i, Find(s)) /\ Retire(i)

\* platReconCb, which does nothing: the connection broke.
Broken(s) ==
  /\ s \in Live
  /\ sock' = [sock EXCEPT ![s] = "none"]
  /\ broke' = TRUE
  /\ UNCHANGED <<peer, pool>>

\* A refused socket goes without a callback.
RefusedEnds(s) ==
  /\ sock[s] = "refused"
  /\ sock' = [sock EXCEPT ![s] = "none"]
  /\ UNCHANGED <<peer, pool, broke>>

Next ==
  \E s \in Sockets :
    \/ \E p \in Peers : Connect(s, p)
    \/ Callback(s) \/ Disconnected(s) \/ RefusedEnds(s)
    \/ Broken(s)

Spec == Init /\ [][Next]_vars
-----------------------------------------------------------------------------
Slot == [peer : Peers, conn : Sockets, madeFor : Sockets]

\* State types; no slot lies outside the array.
TypeOK ==
  /\ sock \in [Sockets -> {"none", "open", "closing", "refused"}]
  /\ peer \in [Sockets -> Peers] /\ broke \in BOOLEAN
  /\ DOMAIN pool \subseteq 1 .. MaxConn /\ pool \in [DOMAIN pool -> Slot]

\* "The platform layer should ALWAYS call this function": a slot in use belongs
\* to a connection that still exists.
SlotsAreLive == \A i \in DOMAIN pool : pool[i].madeFor \in Live

\* So it is while no connection broke.
LeakNeedsBreak == broke \/ SlotsAreLive

\* "Shouldn't happen": no callback comes from a socket without a slot, not even
\* after connections broke.
KnownSocket == \A s \in Live : Find(s) # {}

\* While no connection broke, a callback is handled with the slot made for its
\* connection, and with no other connection's state.
OwnSlot ==
  broke \/ \A s \in Live :
             \E i \in DOMAIN pool : Find(s) = {i} /\ pool[i].madeFor = s

\* While no connection broke, a client is turned away only if MaxConn others are
\* connected.
RefusedOnlyWhenFull ==
  [][\A s \in Sockets :
       sock[s] = "none" /\ sock'[s] = "refused" =>
         broke \/ Cardinality(Live) >= MaxConn]_vars
=============================================================================
