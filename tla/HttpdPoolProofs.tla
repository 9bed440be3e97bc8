-------------------------- MODULE HttpdPoolProofs --------------------------
(* The pool of connections, for any number of sockets, peers and slots; the  *)
(* lists of the Wi-Fi page, for any number of browsers, of requests and of   *)
(* lists of any length; and the fields of forms, whatever is typed in them.  *)
EXTENDS Browsing, FiniteSetTheorems, SequenceTheorems, TLAPS

\* Sockets that exist together have different peers.
PeersDiffer ==
  \A s, t \in Sockets :
    s # t /\ sock[s] # "none" /\ sock[t] # "none" => peer[s] # peer[t]

\* What is inductive whether or not connections break
KnownInv == TypeOK /\ PeersDiffer /\ KnownSocket

\* Until a connection breaks: a slot has the peer of the live socket it was
\* made for, and no two slots were made for the same.
SlotPeers == \A i \in DOMAIN pool : pool[i].peer = peer[pool[i].madeFor]
MadeOnce ==
  \A i, j \in DOMAIN pool : pool[i].madeFor = pool[j].madeFor => i = j
Intact == SlotsAreLive /\ SlotPeers /\ MadeOnce
LiveInv == KnownInv /\ (broke \/ Intact)

\* httpdFindConnData accepts a slot exactly if it has the socket's peer.
LEMMA FindIsByPeer ==
  ASSUME TypeOK, NEW s \in Sockets, NEW i \in DOMAIN pool
  PROVE  i \in Find(s) <=> pool[i].peer = peer[s]
<1>1. pool[i].peer \in Peers /\ peer[s] \in Peers
  BY DEF TypeOK, Slot
<1> QED  BY <1>1 DEF Find, Peers

\* The same after a step
LEMMA FindIsByPeerNext ==
  ASSUME TypeOK', NEW s \in Sockets, NEW i \in DOMAIN pool'
  PROVE  i \in Find(s)' <=> pool'[i].peer = peer'[s]
<1>1. pool'[i].peer \in Peers /\ peer'[s] \in Peers
  BY DEF TypeOK, Slot
<1> QED  BY <1>1 DEF Find, Peers

\* The pool starts empty, without sockets.
LEMMA InitLive == Init => LiveInv
<1> SUFFICES ASSUME Init PROVE LiveInv
  OBVIOUS
<1>1. broke \in BOOLEAN
  BY Zenon DEF Init
<1>2. TypeOK
  BY <1>1 DEF Init, TypeOK
<1>3. PeersDiffer /\ KnownSocket /\ Intact
  BY DEF Init, Intact, PeersDiffer, KnownSocket, Live, SlotsAreLive, SlotPeers,
         MadeOnce
<1> QED  BY <1>2, <1>3 DEF LiveInv, KnownInv

\* Type correctness is kept by every step.
LEMMA TypeStep == TypeOK /\ [Next]_vars => TypeOK'
<1> SUFFICES ASSUME TypeOK, [Next]_vars PROVE TypeOK'
  OBVIOUS
<1> USE DEF TypeOK
<1>1. ASSUME NEW s \in Sockets, NEW p \in Peers, Connect(s, p) PROVE TypeOK'
  <2>1. PICK i \in 1 .. MaxConn + 1 :
          /\ Lowest(i, (1 .. MaxConn + 1) \ DOMAIN pool)
          /\ IF Overflow(i)
             THEN sock' = [sock EXCEPT ![s] = "refused"] /\ UNCHANGED pool
             ELSE /\ sock' = [sock EXCEPT ![s] = "open"]
                  /\ pool' = [j \in DOMAIN pool \cup {i} |->
                               IF j = i THEN [peer |-> p, conn |-> s, madeFor |-> s]
                               ELSE pool[j]]
    BY <1>1 DEF Connect
  <2>b. broke' \in BOOLEAN
    BY <1>1, Zenon DEF Connect
  <2>2. peer' \in [Sockets -> Peers] /\ sock' \in
          [Sockets -> {"none", "open", "closing", "refused"}]
    BY <1>1, <2>1 DEF Connect
  <2>3. CASE Overflow(i)
    BY <2>1, <2>2, <2>3, <2>b
  <2>4. CASE ~Overflow(i)
    <3>1. i \in 1 .. MaxConn
      BY <2>4, PoolAssumption DEF Overflow
    <3>2. [peer |-> p, conn |-> s, madeFor |-> s] \in Slot
      BY DEF Slot
    <3> QED  BY <2>1, <2>2, <2>4, <2>b, <3>1, <3>2
  <2> QED  BY <2>3, <2>4
<1>2. ASSUME NEW s \in Sockets, Callback(s) PROVE TypeOK'
  <2>1. sock' \in [Sockets -> {"none", "open", "closing", "refused"}]
    BY <1>2 DEF Callback
  <2>2. DOMAIN pool' \subseteq 1 .. MaxConn /\ pool' \in [DOMAIN pool' -> Slot]
    <3>1. CASE Find(s) = {}
      BY <1>2, <3>1 DEF Callback
    <3>2. CASE Find(s) # {}
      <4>1. PICK i \in Find(s) : pool' = [pool EXCEPT ![i].conn = s]
        BY <1>2, <3>2 DEF Callback
      <4>2. [pool[i] EXCEPT !.conn = s] \in Slot
        BY DEF Slot, Find
      <4> QED  BY <4>1, <4>2 DEF Find
    <3> QED  BY <3>1, <3>2
  <2> QED  BY <1>2, <2>1, <2>2 DEF Callback
<1>3. ASSUME NEW s \in Sockets, Disconnected(s) PROVE TypeOK'
  BY <1>3 DEF Disconnected, Retire, Find
<1>4. ASSUME NEW s \in Sockets, RefusedEnds(s) \/ Broken(s) PROVE TypeOK'
  BY <1>4 DEF RefusedEnds, Broken
<1>5. CASE UNCHANGED vars
  BY <1>5 DEF vars
<1> QED  BY <1>1, <1>2, <1>3, <1>4, <1>5 DEF Next

\* TCP keeps the peers of existing sockets apart.
LEMMA PeersStep == TypeOK /\ PeersDiffer /\ [Next]_vars => PeersDiffer'
<1> SUFFICES ASSUME TypeOK, PeersDiffer, [Next]_vars PROVE PeersDiffer'
  OBVIOUS
<1> USE DEF TypeOK, PeersDiffer
<1>1. ASSUME NEW s \in Sockets, NEW p \in Peers, Connect(s, p) PROVE PeersDiffer'
  <2>1. \A t \in Sockets : t # s => sock'[t] = sock[t] /\ peer'[t] = peer[t]
    BY <1>1 DEF Connect
  <2>2. peer'[s] = p /\ \A t \in Sockets : sock[t] # "none" => peer[t] # p
    BY <1>1 DEF Connect, Existing
  <2> QED  BY <2>1, <2>2
<1>2. ASSUME NEW s \in Sockets,
             Callback(s) \/ Disconnected(s) \/ RefusedEnds(s) \/ Broken(s)
      PROVE  PeersDiffer'
  <2>1. peer' = peer /\ \A t \in Sockets : sock[t] = "none" => sock'[t] = "none"
    BY <1>2 DEF Callback, Disconnected, RefusedEnds, Broken, Live
  <2> QED  BY <2>1
<1>3. CASE UNCHANGED vars
  BY <1>3 DEF vars
<1> QED  BY <1>1, <1>2, <1>3 DEF Next

\* A live socket keeps a slot with its peer.
LEMMA KnownStep == KnownInv /\ [Next]_vars => KnownSocket'
<1> SUFFICES ASSUME KnownInv, [Next]_vars PROVE KnownSocket'
  OBVIOUS
<1>0. TypeOK /\ TypeOK' /\ PeersDiffer /\ KnownSocket
  BY TypeStep DEF KnownInv
<1>a. ASSUME NEW s \in Live PROVE \E i \in DOMAIN pool : pool[i].peer = peer[s]
  <2>1. PICK i : i \in Find(s)
    BY <1>0 DEF KnownSocket
  <2> QED  BY <1>0, <2>1, FindIsByPeer DEF Find, Live
<1>b. SUFFICES ASSUME NEW t \in Live'
               PROVE  \E i \in DOMAIN pool' : pool'[i].peer = peer'[t]
  <2>1. ASSUME NEW t \in Live' PROVE t \in Sockets
    BY DEF Live
  <2> QED  BY <1>0, <1>b, <2>1, FindIsByPeerNext DEF KnownSocket
<1>c. t \in Sockets
  BY DEF Live
<1>1. ASSUME NEW s \in Sockets, NEW p \in Peers, Connect(s, p)
      PROVE  \E i \in DOMAIN pool' : pool'[i].peer = peer'[t]
  <2>1. PICK i \in 1 .. MaxConn + 1 :
          /\ Lowest(i, (1 .. MaxConn + 1) \ DOMAIN pool)
          /\ IF Overflow(i)
             THEN sock' = [sock EXCEPT ![s] = "refused"] /\ UNCHANGED pool
             ELSE /\ sock' = [sock EXCEPT ![s] = "open"]
                  /\ pool' = [j \in DOMAIN pool \cup {i} |->
                               IF j = i THEN [peer |-> p, conn |-> s, madeFor |-> s]
                               ELSE pool[j]]
    BY <1>1 DEF Connect
  <2>2. peer' = [peer EXCEPT ![s] = p]
    BY <1>1 DEF Connect
  <2>3. CASE t = s
    <3>1. ~Overflow(i)
      BY <2>1, <2>3, <1>0, <1>c DEF Live, TypeOK
    <3> QED  BY <2>1, <2>2, <2>3, <3>1, <1>0, <1>c DEF TypeOK
  <2>4. CASE t # s
    <3>1. t \in Live /\ peer'[t] = peer[t]
      BY <2>1, <2>2, <2>4, <1>0, <1>c DEF Live, TypeOK
    <3>2. PICK j \in DOMAIN pool : pool[j].peer = peer[t]
      BY <3>1, <1>a
    <3>3. i \notin DOMAIN pool
      BY <2>1 DEF Lowest
    <3> QED  BY <2>1, <3>1, <3>2, <3>3
  <2> QED  BY <2>3, <2>4
<1>2. ASSUME NEW s \in Sockets, Callback(s)
      PROVE  \E i \in DOMAIN pool' : pool'[i].peer = peer'[t]
  <2>1. t \in Live /\ peer' = peer
    BY <1>2, <1>0, <1>c DEF Callback, Live, TypeOK
  <2>2. PICK j \in DOMAIN pool : pool[j].peer = peer[t]
    BY <2>1, <1>a
  <2>3. DOMAIN pool' = DOMAIN pool /\ pool'[j].peer = pool[j].peer
    BY <1>2, <1>0 DEF Callback, TypeOK, Slot
  <2> QED  BY <2>1, <2>2, <2>3
<1>3. ASSUME NEW s \in Sockets, Disconnected(s)
      PROVE  \E i \in DOMAIN pool' : pool'[i].peer = peer'[t]
  <2>1. t \in Live /\ t # s /\ peer' = peer /\ s \in Live
    BY <1>3, <1>0, <1>c DEF Disconnected, Live, TypeOK
  <2>2. PICK j \in DOMAIN pool : pool[j].peer = peer[t]
    BY <2>1, <1>a
  <2>3. peer[t] # peer[s]
    BY <2>1, <1>0, <1>c DEF PeersDiffer, Live
  <2>4. j \notin Find(s)
    BY <2>2, <2>3, <1>0, FindIsByPeer
  <2> QED  BY <1>3, <2>1, <2>2, <2>4 DEF Disconnected, Retire
<1>4. ASSUME NEW s \in Sockets, RefusedEnds(s) \/ Broken(s)
      PROVE  \E i \in DOMAIN pool' : pool'[i].peer = peer'[t]
  <2>1. t \in Live /\ pool' = pool /\ peer' = peer
    BY <1>4, <1>0, <1>c DEF RefusedEnds, Broken, Live, TypeOK
  <2> QED  BY <2>1, <1>a
<1>5. CASE UNCHANGED vars
  <2>1. t \in Live /\ pool' = pool /\ peer' = peer
    BY <1>5 DEF vars, Live
  <2> QED  BY <2>1, <1>a
<1> QED  BY <1>1, <1>2, <1>3, <1>4, <1>5 DEF Next

\* Every socket httpdFindConnData is asked for has a slot and the array is never
\* overrun, whatever breaks.
THEOREM KnownAlways == Spec => [](TypeOK /\ KnownSocket)
<1>1. Init => KnownInv
  BY InitLive DEF LiveInv
<1>2. KnownInv /\ [Next]_vars => KnownInv'
  BY TypeStep, PeersStep, KnownStep DEF KnownInv
<1>3. KnownInv => TypeOK /\ KnownSocket
  BY DEF KnownInv
<1> QED  BY <1>1, <1>2, <1>3, PTL DEF Spec

-----------------------------------------------------------------------------
(* Until a connection breaks.                                               *)

\* Two live sockets do not share a slot: the found one is the socket's own.
LEMMA LiveGivesOwn ==
  ASSUME KnownInv, Intact, NEW s \in Live
  PROVE  \E i \in DOMAIN pool : Find(s) = {i} /\ pool[i].madeFor = s
<1>1. TypeOK /\ PeersDiffer /\ KnownSocket /\ SlotsAreLive /\ SlotPeers /\ MadeOnce
  BY DEF Intact, KnownInv
<1>2. s \in Sockets /\ Find(s) \subseteq DOMAIN pool
  BY DEF Live, Find
<1>3. ASSUME NEW i \in Find(s) PROVE pool[i].madeFor = s
  <2>1. pool[i].peer = peer[s]
    BY <1>1, <1>2, FindIsByPeer
  <2>2. pool[i].madeFor \in Live /\ peer[pool[i].madeFor] = peer[s]
    BY <1>1, <1>2, <2>1 DEF SlotsAreLive, SlotPeers
  <2> QED  BY <1>1, <2>2 DEF PeersDiffer, Live
<1>4. PICK i : i \in Find(s)
  BY <1>1 DEF KnownSocket
<1>5. Find(s) = {i}
  BY <1>1, <1>2, <1>3, <1>4 DEF MadeOnce
<1> QED  BY <1>2, <1>3, <1>4, <1>5

\* A slot is given up exactly with the socket it was made for.
LEMMA SlotsStep == LiveInv /\ [Next]_vars => broke' \/ Intact'
<1> SUFFICES ASSUME LiveInv, [Next]_vars, ~broke'
             PROVE  SlotsAreLive' /\ SlotPeers' /\ MadeOnce'
  BY DEF Intact
<1>b. ~broke
  BY DEF Next, Connect, Callback, Disconnected, RefusedEnds, Broken, vars
<1>0. TypeOK /\ SlotsAreLive /\ SlotPeers /\ MadeOnce /\ KnownInv /\ Intact
  BY <1>b DEF LiveInv, KnownInv, Intact
<1>a. \A i \in DOMAIN pool : pool[i] \in Slot /\ pool[i].madeFor \in Sockets
  BY <1>0 DEF TypeOK, Slot
<1> USE DEF SlotsAreLive, SlotPeers, MadeOnce
<1>1. ASSUME NEW s \in Sockets, NEW p \in Peers, Connect(s, p)
      PROVE  SlotsAreLive' /\ SlotPeers' /\ MadeOnce'
  <2>1. PICK i \in 1 .. MaxConn + 1 :
          /\ Lowest(i, (1 .. MaxConn + 1) \ DOMAIN pool)
          /\ IF Overflow(i)
             THEN sock' = [sock EXCEPT ![s] = "refused"] /\ UNCHANGED pool
             ELSE /\ sock' = [sock EXCEPT ![s] = "open"]
                  /\ pool' = [j \in DOMAIN pool \cup {i} |->
                               IF j = i THEN [peer |-> p, conn |-> s, madeFor |-> s]
                               ELSE pool[j]]
    BY <1>1 DEF Connect
  <2>2. peer' = [peer EXCEPT ![s] = p] /\ sock[s] = "none"
    BY <1>1 DEF Connect
  <2>3. \A j \in DOMAIN pool :
          /\ pool[j].madeFor # s /\ pool[j].madeFor \in Live'
          /\ peer'[pool[j].madeFor] = peer[pool[j].madeFor]
    BY <2>1, <2>2, <1>0, <1>a DEF Live, TypeOK
  <2>4. CASE Overflow(i)
    BY <2>1, <2>3, <2>4, <1>0
  <2>5. CASE ~Overflow(i)
    <3>1. s \in Live' /\ peer'[s] = p
      BY <2>1, <2>2, <2>5, <1>0 DEF Live, TypeOK
    <3>2. i \notin DOMAIN pool
      BY <2>1 DEF Lowest
    <3>3. pool'[i].madeFor = s /\ pool'[i].peer = p
      BY <2>1, <2>5
    <3>4. DOMAIN pool' = DOMAIN pool \cup {i}
          /\ \A j \in DOMAIN pool : pool'[j] = pool[j]
      BY <2>1, <2>5, <3>2
    <3> QED  BY <2>3, <3>1, <3>3, <3>4, <1>0
  <2> QED  BY <2>4, <2>5
<1>2. ASSUME NEW s \in Sockets, Callback(s)
      PROVE  SlotsAreLive' /\ SlotPeers' /\ MadeOnce'
  <2>1. PICK i \in DOMAIN pool : Find(s) = {i} /\ pool[i].madeFor = s
    BY <1>2, <1>0, LiveGivesOwn DEF Callback, Live
  <2>2. Live' = Live /\ peer' = peer /\ pool' = [pool EXCEPT ![i].conn = s]
    BY <1>2, <2>1, <1>0 DEF Callback, Live, TypeOK
  <2>3. DOMAIN pool' = DOMAIN pool
        /\ \A j \in DOMAIN pool : /\ pool'[j].madeFor = pool[j].madeFor
                                  /\ pool'[j].peer = pool[j].peer
    BY <2>2, <1>a DEF Slot
  <2> QED  BY <2>2, <2>3, <1>0
<1>3. ASSUME NEW s \in Sockets, Disconnected(s)
      PROVE  SlotsAreLive' /\ SlotPeers' /\ MadeOnce'
  <2>1. PICK i \in DOMAIN pool : Find(s) = {i} /\ pool[i].madeFor = s
    BY <1>3, <1>0, LiveGivesOwn DEF Disconnected
  <2>2. pool' = [j \in DOMAIN pool \ {i} |-> pool[j]] /\ peer' = peer
    BY <1>3, <2>1 DEF Disconnected, Retire
  <2>3. \A j \in DOMAIN pool' : pool'[j].madeFor # s /\ pool'[j].madeFor \in Live
    BY <2>1, <2>2, <1>0
  <2>4. \A t \in Live : t # s => t \in Live'
    BY <1>3, <1>0 DEF Disconnected, Live, TypeOK
  <2> QED  BY <2>2, <2>3, <2>4, <1>0
<1>4. ASSUME NEW s \in Sockets, RefusedEnds(s)
      PROVE  SlotsAreLive' /\ SlotPeers' /\ MadeOnce'
  <2>1. Live' = Live
    BY <1>4, <1>0 DEF RefusedEnds, Live, TypeOK
  <2> QED  BY <1>4, <2>1, <1>0 DEF RefusedEnds
<1>5. ASSUME NEW s \in Sockets, Broken(s) PROVE FALSE
  BY <1>5 DEF Broken
<1>6. CASE UNCHANGED vars
  BY <1>6, <1>0 DEF vars, Live
<1> QED  BY <1>1, <1>2, <1>3, <1>4, <1>5, <1>6 DEF Next

\* The whole invariant is kept.
LEMMA LiveStep == LiveInv /\ [Next]_vars => LiveInv'
  BY SlotsStep, TypeStep, PeersStep, KnownStep DEF LiveInv, KnownInv

\* Full means that as many sockets live as there are slots.
LEMMA FullMeansBusy ==
  ASSUME LiveInv, ~broke, NEW s \in Sockets, [Next]_vars,
         sock[s] = "none", sock'[s] = "refused"
  PROVE  Cardinality(Live) >= MaxConn
<1>0. TypeOK /\ SlotsAreLive /\ MadeOnce
  BY DEF LiveInv, KnownInv, Intact
<1>1. PICK u \in Sockets, p \in Peers : Connect(u, p) /\ sock'[u] = "refused"
  <2>1. ASSUME NEW t \in Sockets,
               Callback(t) \/ Disconnected(t) \/ RefusedEnds(t) \/ Broken(t)
        PROVE  FALSE
    BY <2>1, <1>0 DEF Callback, Disconnected, RefusedEnds, Broken, Live, TypeOK
  <2>2. PICK u \in Sockets, p \in Peers : Connect(u, p)
    BY <2>1 DEF Next, vars
  <2>3. s = u
    BY <2>2, <1>0 DEF Connect, TypeOK
  <2> QED  BY <2>2, <2>3
<1>2. 1 .. MaxConn \subseteq DOMAIN pool
  <2>1. PICK i \in 1 .. MaxConn + 1 :
          Lowest(i, (1 .. MaxConn + 1) \ DOMAIN pool) /\ Overflow(i)
    BY <1>1, <1>0 DEF Connect, TypeOK
  <2> QED  BY <2>1, PoolAssumption DEF Lowest, Overflow
<1> DEFINE f == [i \in 1 .. MaxConn |-> pool[i].madeFor]
<1>3. f \in Injection(1 .. MaxConn, Live)
  BY <1>2, <1>0 DEF SlotsAreLive, MadeOnce, Injection, IsInjective
<1>4. IsFiniteSet(Live)
  <2>1. Live \in SUBSET Sockets
    BY DEF Live
  <2> QED  BY <2>1, FS_Subset, PoolAssumption
<1>5. Cardinality(1 .. MaxConn) <= Cardinality(Live)
  <2> HIDE DEF f
  <2> QED  BY <1>3, <1>4, FS_Injection
<1>6. Cardinality(1 .. MaxConn) = MaxConn
  BY FS_Interval, PoolAssumption
<1>7. Cardinality(Live) \in Nat
  BY <1>4, FS_CardinalityType
<1> QED  BY <1>5, <1>6, <1>7, PoolAssumption

\* Until the first connection breaks, a slot in use belongs to a live connection,
\* and a callback is handled with its own slot ...
THEOREM SlotsFollowConnections == Spec => []LeakNeedsBreak /\ []OwnSlot
<1>1. LiveInv => LeakNeedsBreak /\ OwnSlot
  BY LiveGivesOwn DEF LiveInv, LeakNeedsBreak, OwnSlot, Intact
<1> QED  BY InitLive, LiveStep, <1>1, PTL DEF Spec

\* ... and a client is turned away only if as many others are connected as there
\* are slots (httpdConnectCb).
THEOREM RefusalsAreJustified == Spec => RefusedOnlyWhenFull
<1>1. LiveInv /\ [Next]_vars =>
        [\A s \in Sockets : sock[s] = "none" /\ sock'[s] = "refused" =>
                              broke \/ Cardinality(Live) >= MaxConn]_vars
  BY FullMeansBusy
<1> QED  BY InitLive, LiveStep, <1>1, PTL DEF Spec, RefusedOnlyWhenFull
-----------------------------------------------------------------------------
(* The Wi-Fi page: the list of access points.                              *)

\* What an answer has told of a list when it has come to its n-th item: the
\* heading, the entries, the end
Told(list, n) ==
  [i \in 1 .. n |-> IF i = 1 THEN W!Heading("list")
                    ELSE IF i - 1 <= Len(list) THEN W!Entry(list[i - 1], i - 1 # Len(list))
                    ELSE W!End]

Whole(items) ==
  \/ items = <<W!Heading("scanning")>>
  \/ \E list \in Scans \cup {<<>>} : items = Told(list, Len(list) + 2)

\* An answer that no scan came between has told the beginning of the list that
\* is there, or it is over and told a list, or that there was a scan.
Place(b) ==
  /\ cgiData[b] \in Int /\ cgiData[b] >= -1
  /\ cgiData[b] = 0 => answer[b] = <<>>
  /\ alone[b] /\ cgiData[b] > 0 =>
       /\ ~scanInProgress
       /\ cgiData[b] = 1 \/ cgiData[b] <= Len(apData)
       /\ answer[b] = Told(apData, cgiData[b])
  /\ alone[b] /\ cgiData[b] = -1 => answer[b] = <<>> \/ Whole(answer[b])

ScanTypes ==
  /\ apData \in Scans \cup {<<>>}
  /\ cgiData = [b \in Browsers |-> cgiData[b]]
  /\ alone = [b \in Browsers |-> alone[b]]
  /\ answer = [b \in Browsers |-> answer[b]]

ScanInv == ScanTypes /\ \A b \in Browsers : Place(b)

Items ==
  {W!Heading("list"), W!End}
  \cup {W!Entry(ap, TRUE) : ap \in AccessPoints} \cup {W!Entry(ap, FALSE) : ap \in AccessPoints}

LEMMA EntriesAreItems ==
  ASSUME NEW ap \in AccessPoints, NEW c \in BOOLEAN
  PROVE  W!Entry(ap, c) \in Items
<1>1. W!Entry(ap, TRUE) \in Items /\ W!Entry(ap, FALSE) \in Items
  BY DEF Items
<1>2. c = TRUE \/ c = FALSE
  OBVIOUS
<1> QED
  BY <1>1, <1>2

LEMMA ToldItems ==
  ASSUME NEW list \in Seq(AccessPoints), NEW n \in Nat
  PROVE  Told(list, n) \in Seq(Items) /\ Len(Told(list, n)) = n
<1>1. \A i \in 1 .. n : Told(list, n)[i] \in Items
  <2> SUFFICES ASSUME NEW i \in 1 .. n PROVE Told(list, n)[i] \in Items
    OBVIOUS
  <2>1. Told(list, n)[i] = IF i = 1 THEN W!Heading("list")
                           ELSE IF i - 1 <= Len(list) THEN W!Entry(list[i - 1], i - 1 # Len(list))
                           ELSE W!End
    BY DEF Told
  <2>2. ASSUME i # 1, i - 1 <= Len(list)
        PROVE  W!Entry(list[i - 1], i - 1 # Len(list)) \in Items
    <3>1. list[i - 1] \in AccessPoints
      BY <2>2
    <3>2. (i - 1 # Len(list)) \in BOOLEAN
      OBVIOUS
    <3> QED
      BY <3>1, <3>2, EntriesAreItems, Zenon
  <2>3. W!Heading("list") \in Items /\ W!End \in Items
    BY DEF Items
  <2> QED
    BY <2>1, <2>2, <2>3, Zenon
<1>2. Told(list, n) = [i \in 1 .. n |-> Told(list, n)[i]]
  BY DEF Told
<1> HIDE DEF Told
<1>3. Told(list, n) \in [1 .. n -> Items]
  BY <1>1, <1>2
<1> QED
  BY <1>3

\* The next item makes the answer one longer.
LEMMA Longer ==
  ASSUME NEW S, NEW s \in Seq(S), NEW t \in Seq(S), Len(t) = Len(s) + 1,
         \A i \in 1 .. Len(s) : t[i] = s[i]
  PROVE  s \o <<t[Len(t)]>> = t
<1>1. t[Len(t)] \in S
  OBVIOUS
<1>2. <<t[Len(t)]>> \in Seq(S)
  BY <1>1
<1>3. s \o <<t[Len(t)]>> \in Seq(S) /\ Len(s \o <<t[Len(t)]>>) = Len(s) + 1
  BY <1>2
<1>4. \A i \in 1 .. Len(s) + 1 : (s \o <<t[Len(t)]>>)[i] = t[i]
  BY <1>2
<1> QED
  BY <1>3, <1>4, SeqEqual

LEMMA ToldNext ==
  ASSUME NEW list \in Seq(AccessPoints), NEW n \in Nat \ {0}, n <= Len(list) + 1
  PROVE  Told(list, n) \o <<IF n <= Len(list) THEN W!Entry(list[n], n # Len(list)) ELSE W!End>>
           = Told(list, n + 1)
<1> DEFINE s == Told(list, n)
           t == Told(list, n + 1)
<1>1. s \in Seq(Items) /\ t \in Seq(Items) /\ Len(s) = n /\ Len(t) = n + 1
  <2>1. n \in Nat /\ n + 1 \in Nat
    OBVIOUS
  <2> QED
    BY <2>1, ToldItems
<1>2. \A i \in 1 .. n : t[i] = s[i]
  BY DEF Told
<1>3. t[n + 1] = IF n <= Len(list) THEN W!Entry(list[n], n # Len(list)) ELSE W!End
  <2>1. n + 1 \in 1 .. n + 1 /\ n + 1 # 1 /\ n + 1 - 1 = n
    OBVIOUS
  <2> QED
    BY <2>1 DEF Told
<1> HIDE DEF s, t
<1>4. s \o <<t[Len(t)]>> = t
  BY <1>1, <1>2, Longer
<1>5. s \o <<t[n + 1]>> = t
  BY <1>1, <1>4
<1> QED
  BY <1>3, <1>5 DEF s, t

LEMMA ToldOne == \A list : Told(list, 1) = <<W!Heading("list")>>
  BY DEF Told

\* What ListIsWhole says of a list
LEMMA ToldAll ==
  ASSUME NEW list \in Seq(AccessPoints)
  PROVE  Told(list, Len(list) + 2) = <<W!Heading("list")>> \o W!Entries(list) \o <<W!End>>
<1> DEFINE n == Len(list)
           e == W!Entries(list)
           h == <<W!Heading("list")>>
           d == <<W!End>>
           t == Told(list, n + 2)
<1>1. n \in Nat /\ e \in Seq(Items) /\ Len(e) = n
  <2>1. n \in Nat
    OBVIOUS
  <2>2. ASSUME NEW i \in 1 .. n PROVE e[i] \in Items /\ e[i] = W!Entry(list[i], i # n)
    <3>1. list[i] \in AccessPoints
      OBVIOUS
    <3>2. e[i] = W!Entry(list[i], i # n)
      BY DEF W!Entries
    <3>3. (i # n) \in BOOLEAN
      OBVIOUS
    <3> QED
      BY <3>1, <3>2, <3>3, EntriesAreItems, Zenon
  <2>3. e = [i \in 1 .. n |-> e[i]]
    BY DEF W!Entries
  <2> HIDE DEF e
  <2> QED
    BY <2>1, <2>2, <2>3
<1>2. \A i \in 1 .. n : e[i] = W!Entry(list[i], i # n)
  BY DEF W!Entries
<1>3. h \in Seq(Items) /\ d \in Seq(Items)
  <2>1. W!Heading("list") \in Items /\ W!End \in Items
    BY DEF Items
  <2> QED
    BY <2>1
<1>4. t \in Seq(Items) /\ Len(t) = n + 2
  <2>1. n + 2 \in Nat
    BY <1>1
  <2> QED
    BY <2>1, ToldItems
<1>5. t[1] = W!Heading("list") /\ t[n + 2] = W!End
      /\ \A i \in 1 .. n : t[i + 1] = W!Entry(list[i], i # n)
  <2>1. t[1] = W!Heading("list") /\ t[n + 2] = W!End
    BY <1>1 DEF Told
  <2>2. ASSUME NEW i \in 1 .. n PROVE t[i + 1] = W!Entry(list[i], i # n)
    <3>1. i + 1 \in 1 .. n + 2 /\ i + 1 # 1 /\ (i + 1) - 1 = i
      BY <1>1
    <3> QED
      BY <3>1 DEF Told
  <2> QED
    BY <2>1, <2>2
<1>6. h[1] = W!Heading("list") /\ Len(h) = 1 /\ d[1] = W!End /\ Len(d) = 1
  OBVIOUS
<1> HIDE DEF n, e, h, d, t
<1>7. h \o e \in Seq(Items) /\ Len(h \o e) = n + 1 /\ (h \o e)[1] = h[1]
      /\ \A i \in 1 .. n : (h \o e)[i + 1] = e[i]
  <2>1. h \o e \in Seq(Items) /\ Len(h \o e) = Len(h) + Len(e)
    BY <1>1, <1>3, ConcatProperties
  <2>2. \A i \in 1 .. Len(h) + Len(e) : (h \o e)[i] = IF i <= Len(h) THEN h[i] ELSE e[i - Len(h)]
    BY <1>1, <1>3, ConcatProperties
  <2>3. 1 \in 1 .. Len(h) + Len(e) /\ 1 <= Len(h)
    BY <1>1, <1>6
  <2>4. (h \o e)[1] = h[1]
    BY <2>2, <2>3
  <2>5. ASSUME NEW i \in 1 .. n PROVE (h \o e)[i + 1] = e[i]
    <3>1. i + 1 \in 1 .. Len(h) + Len(e) /\ ~(i + 1 <= Len(h)) /\ (i + 1) - Len(h) = i
      BY <1>1, <1>6
    <3> QED
      BY <2>2, <3>1
  <2> QED
    BY <1>1, <1>6, <2>1, <2>4, <2>5
<1>8. (h \o e) \o d \in Seq(Items) /\ Len((h \o e) \o d) = n + 2
      /\ ((h \o e) \o d)[n + 2] = d[1]
      /\ \A i \in 1 .. n + 1 : ((h \o e) \o d)[i] = (h \o e)[i]
  BY <1>1, <1>3, <1>6, <1>7
<1>9. ASSUME NEW i \in 1 .. n + 2 PROVE ((h \o e) \o d)[i] = t[i]
  <2>1. CASE i = 1
    BY <1>1, <1>5, <1>6, <1>7, <1>8, <2>1
  <2>2. CASE i = n + 2
    BY <1>5, <1>6, <1>8, <2>2
  <2>3. CASE i # 1 /\ i # n + 2
    <3>1. i - 1 \in 1 .. n /\ i \in 1 .. n + 1 /\ (i - 1) + 1 = i
      BY <1>1, <2>3
    <3>2. ((h \o e) \o d)[i] = e[i - 1]
      BY <1>7, <1>8, <3>1
    <3> QED
      BY <1>2, <1>5, <3>1, <3>2
  <2> QED
    BY <2>1, <2>2, <2>3
<1>10. (h \o e) \o d = t
  BY <1>4, <1>8, <1>9, SeqEqual
<1> QED
  BY <1>10 DEF n, e, h, d, t

\* Nothing happened to an answer, except that a scan may have got in its way.
LEMMA OtherPlace ==
  ASSUME NEW b \in Browsers, NEW starts, Place(b),
         cgiData'[b] = cgiData[b], answer'[b] = answer[b], apData' = apData,
         scanInProgress' => scanInProgress \/ starts,
         alone'[b] => alone[b] /\ (starts => cgiData[b] <= 0)
  PROVE  Place(b)'
<1>1. cgiData'[b] \in Int /\ cgiData'[b] >= -1 /\ (cgiData'[b] = 0 => answer'[b] = <<>>)
  BY DEF Place
<1>2. ASSUME alone'[b], cgiData'[b] > 0
      PROVE  /\ ~scanInProgress'
             /\ cgiData'[b] = 1 \/ cgiData'[b] <= Len(apData')
             /\ answer'[b] = Told(apData', cgiData'[b])
  <2>1. alone[b] /\ cgiData[b] > 0 /\ ~(cgiData[b] <= 0)
    BY <1>2 DEF Place
  <2>0. alone[b] /\ cgiData[b] > 0 =>
          /\ ~scanInProgress
          /\ cgiData[b] = 1 \/ cgiData[b] <= Len(apData)
          /\ answer[b] = Told(apData, cgiData[b])
    BY Zenon DEF Place
  <2>2. ~scanInProgress'
    <3>1. ~scanInProgress
      BY <2>0, <2>1, Zenon
    <3>2. ~starts
      BY <1>2, <2>1, Zenon
    <3> QED
      BY <3>1, <3>2, Zenon
  <2>3. (cgiData[b] = 1 \/ cgiData[b] <= Len(apData)) /\ answer[b] = Told(apData, cgiData[b])
    BY <2>0, <2>1, Zenon
  <2> QED
    BY <2>2, <2>3
<1>3. ASSUME alone'[b], cgiData'[b] = -1
      PROVE  answer'[b] = <<>> \/ Whole(answer'[b])
  <2>1. alone[b] /\ cgiData[b] = -1
    BY <1>3
  <2> QED
    BY <2>1 DEF Place
<1> QED
  BY <1>1, <1>2, <1>3 DEF Place, Whole

\* One call of cgiWiFiScan for an answer that nothing came between
LEMMA OneCall ==
  ASSUME NEW b \in Browsers, Place(b), apData \in Seq(AccessPoints), apData \in Scans \cup {<<>>},
         cgiData[b] >= 0, alone[b], NEW s, s = W!cgiWiFiScan(cgiData[b])
  PROVE  /\ s.done => Whole(answer[b] \o s.items)
         /\ ~s.done => /\ ~scanInProgress /\ ~s.starts
                       /\ cgiData[b] + 1 = 1 \/ cgiData[b] + 1 <= Len(apData)
                       /\ answer[b] \o s.items = Told(apData, cgiData[b] + 1)
<1> DEFINE n == cgiData[b]
           len == Len(apData)
<1>1. n \in Nat /\ len \in Nat
  BY DEF Place
<1>2. W!Heading("list") \in Items /\ W!End \in Items
  BY DEF Items
<1>3. CASE n = 0 /\ scanInProgress
  <2>1. s.done /\ s.items = <<W!Heading("scanning")>>
    BY <1>3 DEF W!cgiWiFiScan, W!Say
  <2>2. answer[b] = <<>>
    BY <1>3 DEF Place
  <2>3. <<>> \o <<W!Heading("scanning")>> = <<W!Heading("scanning")>>
    BY DEF W!Heading
  <2> QED
    BY <2>1, <2>2, <2>3 DEF Whole
<1>4. CASE n = 0 /\ ~scanInProgress
  <2>1. ~s.done /\ ~s.starts /\ s.items = <<W!Heading("list")>>
    BY <1>4 DEF W!cgiWiFiScan, W!Say
  <2>2. answer[b] = <<>>
    BY <1>4 DEF Place
  <2>3. <<>> \o <<W!Heading("list")>> = <<W!Heading("list")>>
    BY DEF W!Heading
  <2>4. Told(apData, 1) = <<W!Heading("list")>> /\ n + 1 = 1
    BY <1>4, ToldOne
  <2> QED
    BY <1>4, <2>1, <2>2, <2>3, <2>4
<1>5. CASE n # 0
  <2>1. n > 0 /\ ~scanInProgress /\ (n = 1 \/ n <= len) /\ answer[b] = Told(apData, n)
    BY <1>1, <1>5 DEF Place
  <2>2. Told(apData, n) \in Seq(Items)
    BY <1>1, ToldItems
  <2>3. n <= len => /\ W!At(n) = <<W!Entry(apData[n], n # len)>>
                    /\ Told(apData, n) \o W!At(n) = Told(apData, n + 1)
    <3> SUFFICES ASSUME n <= len
                 PROVE  /\ W!At(n) = <<W!Entry(apData[n], n # len)>>
                        /\ Told(apData, n) \o W!At(n) = Told(apData, n + 1)
      OBVIOUS
    <3>1. W!At(n) = <<W!Entry(apData[n], n # len)>>
      BY DEF W!At
    <3>2. n \in Nat \ {0} /\ n <= len + 1
      BY <1>1, <2>1
    <3>3. Told(apData, n) \o <<IF n <= len THEN W!Entry(apData[n], n # len) ELSE W!End>>
            = Told(apData, n + 1)
      BY <3>2, ToldNext
    <3> QED
      BY <3>1, <3>3
  <2>4. CASE ~(n >= len)
    <3>1. ~s.done /\ ~s.starts /\ s.items = W!At(n)
      BY <1>5, <2>1, <2>4 DEF W!cgiWiFiScan, W!Say, W!LastOf
    <3>2. n <= len /\ n + 1 <= len
      BY <1>1, <2>4
    <3> QED
      BY <2>1, <2>3, <3>1, <3>2
  <2>5. CASE n >= len
    <3>1. s.done /\ s.items = W!At(n) \o <<W!End>>
      BY <1>5, <2>1, <2>5 DEF W!cgiWiFiScan, W!Say, W!LastOf
    <3>2. Told(apData, len + 1) \o <<W!End>> = Told(apData, len + 2)
      <4>1. len + 1 \in Nat \ {0} /\ len + 1 <= len + 1 /\ ~(len + 1 <= len) /\ len + 1 + 1 = len + 2
        BY <1>1
      <4>2. Told(apData, len + 1)
              \o <<IF len + 1 <= len THEN W!Entry(apData[len + 1], len + 1 # len) ELSE W!End>>
              = Told(apData, len + 1 + 1)
        BY <4>1, ToldNext
      <4> QED
        BY <4>1, <4>2
    <3>3. CASE n <= len
      <4>1. n = len
        BY <1>1, <2>5, <3>3
      <4>2. W!At(n) \in Seq(Items) /\ <<W!End>> \in Seq(Items)
        <5>1. apData[n] \in AccessPoints /\ (n # len) \in BOOLEAN
          BY <1>1, <2>1, <3>3
        <5>2. W!Entry(apData[n], n # len) \in Items
          BY <5>1, EntriesAreItems, Zenon
        <5>3. <<W!Entry(apData[n], n # len)>> \in Seq(Items) /\ <<W!End>> \in Seq(Items)
          BY <1>2, <5>2
        <5> QED
          BY <2>3, <3>3, <5>3
      <4> DEFINE a == answer[b]
                 e == W!At(n)
                 d == <<W!End>>
      <4>3. a \in Seq(Items) /\ e \in Seq(Items) /\ d \in Seq(Items)
        BY <2>1, <2>2, <4>2
      <4>4. s.items = e \o d
        BY <3>1
      <4>6. a \o e = Told(apData, len + 1)
        BY <2>1, <2>3, <3>3, <4>1
      <4>7. Told(apData, len + 1) \o d = Told(apData, len + 2)
        BY <3>2
      <4> HIDE DEF a, e, d
      <4>5. a \o (e \o d) = (a \o e) \o d
        BY <4>3, ConcatAssociative
      <4>8. a \o s.items = Told(apData, len + 2)
        BY <4>4, <4>5, <4>6, <4>7
      <4> QED
        BY <3>1, <4>8 DEF Whole, a
    <3>4. CASE ~(n <= len)
      <4>1. n = 1 /\ len = 0 /\ W!At(n) = <<>>
        BY <1>1, <2>1, <3>4 DEF W!At
      <4>2. s.items = <<W!End>>
        <5>1. <<>> \o <<W!End>> = <<W!End>>
          BY DEF W!End
        <5> QED
          BY <3>1, <4>1, <5>1
      <4>3. answer[b] = Told(apData, len + 1)
        <5>1. n = len + 1
          BY <4>1
        <5> QED
          BY <2>1, <5>1
      <4>4. answer[b] \o s.items = Told(apData, len + 2)
        BY <3>2, <4>2, <4>3
      <4> QED
        BY <3>1, <4>4 DEF Whole
    <3> QED
      BY <3>3, <3>4
  <2> QED
    BY <2>4, <2>5
<1> QED
  BY <1>3, <1>4, <1>5

LEMMA ScanKept ==
  ASSUME ScanInv, [W!Next]_scanVars
  PROVE  ScanInv'
<1>0. ScanTypes /\ \A b \in Browsers : Place(b)
  BY DEF ScanInv
<1>t. apData \in Scans \cup {<<>>} /\ apData \in Seq(AccessPoints)
  <2>1. <<>> \in Seq(AccessPoints)
    OBVIOUS
  <2>2. apData \in Scans \cup {<<>>}
    BY <1>0 DEF ScanTypes
  <2> QED
    BY <2>1, <2>2, ScanAssumption, Zenon
<1>1. ASSUME NEW b \in Browsers, W!Request(b) PROVE ScanInv'
  <2>1. ScanTypes'
    BY <1>0, <1>1 DEF W!Request, ScanTypes
  <2>2. cgiData'[b] = 0 /\ answer'[b] = <<>>
    BY <1>0, <1>1 DEF W!Request, ScanTypes
  <2>3. Place(b)'
    BY <2>2 DEF Place
  <2>4. ASSUME NEW c \in Browsers, c # b PROVE Place(c)'
    <3>1. /\ cgiData'[c] = cgiData[c] /\ answer'[c] = answer[c] /\ apData' = apData
          /\ scanInProgress' = scanInProgress /\ alone'[c] = alone[c]
      BY <1>0, <1>1, <2>4 DEF W!Request, ScanTypes
    <3> QED
      BY <1>0, <3>1, OtherPlace
  <2> QED
    BY <2>1, <2>3, <2>4 DEF ScanInv
<1>2. ASSUME NEW b \in Browsers, NEW s, s = W!cgiWiFiScan(cgiData[b]), NEW c \in Browsers, c # b,
             cgiData' = [cgiData EXCEPT ![b] = cgiData'[b]],
             answer' = [answer EXCEPT ![b] = answer'[b]], apData' = apData,
             scanInProgress' = (scanInProgress \/ s.starts),
             alone'[c] = W!Disturbed(s.starts)[c]
      PROVE  Place(c)'
  <2>1. cgiData'[c] = cgiData[c] /\ answer'[c] = answer[c] /\ apData' = apData
    BY <1>0, <1>2 DEF ScanTypes
  <2>2. ASSUME alone'[c] PROVE alone[c] /\ (s.starts => cgiData[c] <= 0)
    BY <1>2, <2>2 DEF W!Disturbed
  <2>3. scanInProgress' => scanInProgress \/ s.starts
    BY <1>2
  <2> QED
    BY <1>0, <2>1, <2>2, <2>3, OtherPlace
<1>3. ASSUME NEW b \in Browsers, W!Call(b) PROVE ScanInv'
  <2> DEFINE s == W!cgiWiFiScan(cgiData[b])
  <2>1. /\ cgiData[b] >= 0
        /\ answer' = [answer EXCEPT ![b] = @ \o s.items]
        /\ cgiData' = [cgiData EXCEPT ![b] = IF s.done THEN -1 ELSE @ + 1]
        /\ scanInProgress' = (scanInProgress \/ s.starts)
        /\ alone' = [W!Disturbed(s.starts) EXCEPT ![b] = alone[b]]
        /\ apData' = apData
    BY <1>3 DEF W!Call
  <2>2. DOMAIN W!Disturbed(s.starts) = Browsers
    BY <1>0 DEF W!Disturbed, ScanTypes
  <2>a. DOMAIN cgiData = Browsers /\ DOMAIN answer = Browsers
    BY <1>0 DEF ScanTypes
  <2>3. ScanTypes'
    <3>1. alone' = [c \in Browsers |-> alone'[c]]
      BY <2>1, <2>2
    <3>2. cgiData' = [c \in Browsers |-> cgiData'[c]] /\ answer' = [c \in Browsers |-> answer'[c]]
      BY <2>1, <2>a
    <3> QED
      BY <1>t, <2>1, <3>1, <3>2 DEF ScanTypes
  <2>4. /\ answer'[b] = answer[b] \o s.items /\ alone'[b] = alone[b]
        /\ cgiData'[b] = IF s.done THEN -1 ELSE cgiData[b] + 1
    BY <2>1, <2>2, <2>a
  <2>5. Place(b)'
    <3>0. cgiData[b] \in Int
      BY <1>0 DEF Place
    <3>1. cgiData'[b] \in Int /\ cgiData'[b] >= -1 /\ cgiData'[b] # 0
      BY <2>1, <2>4, <3>0
    <3>2. ASSUME alone'[b] PROVE
            /\ s.done => Whole(answer[b] \o s.items)
            /\ ~s.done => /\ ~scanInProgress /\ ~s.starts
                          /\ cgiData[b] + 1 = 1 \/ cgiData[b] + 1 <= Len(apData)
                          /\ answer[b] \o s.items = Told(apData, cgiData[b] + 1)
      <4>1. alone[b]
        BY <2>4, <3>2
      <4> HIDE DEF s
      <4>2. s = W!cgiWiFiScan(cgiData[b])
        BY DEF s
      <4> QED
        BY <1>0, <1>t, <2>1, <4>1, <4>2, OneCall
    <3> HIDE DEF s
    <3>3. CASE s.done
      <4>1. cgiData'[b] = -1
        BY <2>4, <3>3
      <4>2. alone'[b] => Whole(answer'[b])
        BY <2>4, <3>2, <3>3
      <4> QED
        BY <3>1, <4>1, <4>2 DEF Place, Whole
    <3>4. CASE ~s.done
      <4>1. cgiData'[b] = cgiData[b] + 1 /\ cgiData'[b] # -1
        BY <2>1, <2>4, <3>0, <3>4
      <4>2. alone'[b] => /\ ~scanInProgress'
                         /\ cgiData'[b] = 1 \/ cgiData'[b] <= Len(apData')
                         /\ answer'[b] = Told(apData', cgiData'[b])
        <5> SUFFICES ASSUME alone'[b]
                     PROVE  /\ ~scanInProgress'
                            /\ cgiData'[b] = 1 \/ cgiData'[b] <= Len(apData')
                            /\ answer'[b] = Told(apData', cgiData'[b])
          OBVIOUS
        <5>1. /\ ~scanInProgress /\ ~s.starts
              /\ cgiData[b] + 1 = 1 \/ cgiData[b] + 1 <= Len(apData)
              /\ answer[b] \o s.items = Told(apData, cgiData[b] + 1)
          BY <3>2, <3>4
        <5>2. ~scanInProgress'
          BY <2>1, <5>1
        <5> QED
          BY <2>1, <2>4, <4>1, <5>1, <5>2
      <4> QED
        BY <3>1, <4>1, <4>2 DEF Place
    <3> QED
      BY <3>3, <3>4
  <2>6. ASSUME NEW c \in Browsers, c # b PROVE Place(c)'
    <3>1. alone'[c] = W!Disturbed(s.starts)[c]
      BY <2>1, <2>2, <2>6
    <3>2. cgiData' = [cgiData EXCEPT ![b] = cgiData'[b]] /\ answer' = [answer EXCEPT ![b] = answer'[b]]
      BY <2>1, <2>a, <2>4
    <3> HIDE DEF s
    <3>3. s = W!cgiWiFiScan(cgiData[b])
      BY DEF s
    <3> QED
      BY <1>2, <2>1, <2>6, <3>1, <3>2, <3>3
  <2> QED
    BY <2>3, <2>5, <2>6 DEF ScanInv
<1>4. ASSUME NEW b \in Browsers, W!Gone(b) PROVE ScanInv'
  <2> DEFINE s == W!cgiWiFiScan(cgiData[b])
  <2>1. /\ answer' = [answer EXCEPT ![b] = <<>>]
        /\ cgiData' = [cgiData EXCEPT ![b] = -1]
        /\ scanInProgress' = (scanInProgress \/ s.starts)
        /\ alone' = W!Disturbed(s.starts)
        /\ apData' = apData
    BY <1>4 DEF W!Gone
  <2>2. W!Disturbed(s.starts) = [c \in Browsers |-> W!Disturbed(s.starts)[c]]
    BY <1>0 DEF W!Disturbed, ScanTypes
  <2>a. DOMAIN cgiData = Browsers /\ DOMAIN answer = Browsers
    BY <1>0 DEF ScanTypes
  <2>3. ScanTypes'
    <3>1. alone' = [c \in Browsers |-> alone'[c]]
      BY <2>1, <2>2
    <3>2. cgiData' = [c \in Browsers |-> cgiData'[c]] /\ answer' = [c \in Browsers |-> answer'[c]]
      BY <2>1, <2>a
    <3> QED
      BY <1>t, <2>1, <3>1, <3>2 DEF ScanTypes
  <2>4. answer'[b] = <<>> /\ cgiData'[b] = -1
    BY <2>1, <2>a
  <2>5. Place(b)'
    BY <2>4 DEF Place
  <2>6. ASSUME NEW c \in Browsers, c # b PROVE Place(c)'
    <3>1. alone'[c] = W!Disturbed(s.starts)[c]
      BY <2>1
    <3>2. cgiData' = [cgiData EXCEPT ![b] = cgiData'[b]] /\ answer' = [answer EXCEPT ![b] = answer'[b]]
      BY <2>1, <2>a, <2>4
    <3> HIDE DEF s
    <3>3. s = W!cgiWiFiScan(cgiData[b])
      BY DEF s
    <3> QED
      BY <1>2, <2>1, <2>6, <3>1, <3>2, <3>3
  <2> QED
    BY <2>3, <2>5, <2>6 DEF ScanInv
<1>5. CASE W!wifiScanDoneCb
  <2>1. /\ scanInProgress /\ cgiData' = cgiData /\ answer' = answer /\ alone' = alone
        /\ apData' \in Scans \cup {<<>>}
    BY <1>5, <1>t DEF W!wifiScanDoneCb
  <2>2. ScanTypes'
    BY <1>0, <2>1 DEF ScanTypes
  <2>3. ASSUME NEW b \in Browsers PROVE Place(b)'
    <3>1. Place(b) /\ ~(alone[b] /\ cgiData[b] > 0)
      BY <1>0, <2>1 DEF Place
    <3> QED
      BY <2>1, <3>1 DEF Place, Whole
  <2> QED
    BY <2>2, <2>3 DEF ScanInv
<1>6. CASE UNCHANGED scanVars
  BY <1>0, <1>6 DEF scanVars, ScanInv, ScanTypes, Place, Whole
<1> QED
  BY <1>1, <1>3, <1>4, <1>5, <1>6 DEF W!Next

\* However the answers to several browsers and the scans that they start
\* interleave, and whichever connections break: an answer that no scan came
\* between is one whole list in order, or the word that a scan is going on
\* (cgiWiFiScan, wifiStartScan, wifiScanDoneCb).
THEOREM ListsAreWhole == ScanSpec => []ListIsWhole
<1>1. W!Init => ScanInv
  BY DEF W!Init, ScanInv, ScanTypes, Place
<1>2. ScanInv /\ [W!Next]_scanVars => ScanInv'
  BY ScanKept
<1>3. ScanInv => ListIsWhole
  <2> SUFFICES ASSUME ScanInv, NEW b \in Browsers,
                      cgiData[b] = -1, alone[b], answer[b] # <<>>
               PROVE  \/ answer[b] = <<W!Heading("scanning")>>
                      \/ \E list \in Scans \cup {<<>>} :
                           answer[b] = <<W!Heading("list")>> \o W!Entries(list) \o <<W!End>>
    BY DEF ListIsWhole, W!ListIsWhole
  <2>1. Whole(answer[b])
    BY DEF ScanInv, Place
  <2>2. CASE answer[b] = <<W!Heading("scanning")>>
    BY <2>2
  <2>3. ASSUME NEW list \in Scans \cup {<<>>}, answer[b] = Told(list, Len(list) + 2)
        PROVE  answer[b] = <<W!Heading("list")>> \o W!Entries(list) \o <<W!End>>
    <3>1. list \in Seq(AccessPoints)
      <4>1. <<>> \in Seq(AccessPoints)
        OBVIOUS
      <4> QED
        BY <4>1, ScanAssumption, Zenon
    <3> QED
      BY <2>3, <3>1, ToldAll
  <2> QED
    BY <2>1, <2>2, <2>3 DEF Whole
<1> QED
  BY <1>1, <1>2, <1>3, PTL DEF ScanSpec
-----------------------------------------------------------------------------
(* Induction, and FlattenSeq: a line is cut between its pieces, and a piece  *)
(* is found between its cuts.                                                *)

LEMMA LeastNumber ==
  ASSUME NEW T \in SUBSET Nat, T # {}
  PROVE  \E n \in T : \A m \in T : n <= m
<1> DEFINE Below == {0 .. n : n \in T}
           R == StrictSubsetOrdering(Nat)
           Finites == FiniteSubsetsOf(Nat)
<1>1. Below \subseteq Finites /\ Below # {}
  <2> SUFFICES ASSUME NEW n \in T PROVE 0 .. n \in SUBSET Nat /\ IsFiniteSet(0 .. n)
    BY DEF FiniteSubsetsOf
  <2> QED
    BY FS_Interval
<1>2. IsWellFoundedOn(R, Finites)
  BY FS_StrictSubsetOrderingWellFounded
<1>3. \E x \in Below : \A y \in Below : ~ (<<y, x>> \in R)
  <2> HIDE DEF Below, R, Finites
  <2> QED
    BY <1>1, <1>2, WFMin
<1>4. PICK n \in T : \A m \in T : ~ (<<0 .. m, 0 .. n>> \in R)
  BY <1>3
<1>5. ASSUME NEW m \in T, m < n PROVE FALSE
  <2>1. 0 .. m \subseteq 0 .. n /\ n \in 0 .. n /\ n \notin 0 .. m
    BY <1>5
  <2>2. <<0 .. m, 0 .. n>> \in R
    BY <2>1 DEF StrictSubsetOrdering
  <2> QED
    BY <2>2, <1>4
<1> QED
  BY <1>5

LEMMA NumbersByInduction ==
  ASSUME NEW T \in SUBSET Nat, 0 \in T, \A n \in T : n + 1 \in T
  PROVE  T = Nat
<1> SUFFICES ASSUME Nat \ T # {} PROVE FALSE
  OBVIOUS
<1>1. PICK n \in Nat \ T : \A m \in Nat \ T : n <= m
  BY LeastNumber
<1>2. n # 0 /\ n - 1 \in Nat
  BY <1>1
<1>3. n - 1 \in T
  BY <1>1, <1>2
<1> QED
  BY <1>1, <1>2, <1>3

\* up holds what the pieces have put together after each of them.
Grows(pieces, up) ==
  /\ up[0] = <<>>
  /\ \A i \in 1 .. Len(pieces) : up[i] = up[i - 1] \o pieces[i]

Flattens(pieces, f) ==
  f = [i \in 1 .. Len(pieces) |-> IF i = 1 THEN pieces[i] ELSE f[i - 1] \o pieces[i]]

LEMMA FlattensExists ==
  ASSUME NEW S
  PROVE  \A seqs \in Seq(S) : \E f : Flattens(seqs, f)
<1> DEFINE T == {n \in Nat : \A seqs \in Seq(S) : Len(seqs) = n => \E f : Flattens(seqs, f)}
<1>1. 0 \in T
  <2> SUFFICES ASSUME NEW seqs \in Seq(S), Len(seqs) = 0 PROVE \E f : Flattens(seqs, f)
    OBVIOUS
  <2>1. Flattens(seqs, [i \in 1 .. 0 |-> 0])
    BY DEF Flattens
  <2> QED
    BY <2>1
<1>2. ASSUME NEW n \in T PROVE n + 1 \in T
  <2> SUFFICES ASSUME NEW seqs \in Seq(S), Len(seqs) = n + 1 PROVE \E f : Flattens(seqs, f)
    OBVIOUS
  <2> DEFINE s == [i \in 1 .. n |-> seqs[i]]
  <2>1. s \in Seq(S) /\ Len(s) = n
    OBVIOUS
  <2>2. PICK f : Flattens(s, f)
    BY <2>1
  <2> DEFINE g == [i \in 1 .. n + 1 |->
                     IF i = 1 THEN seqs[i] ELSE IF i = n + 1 THEN f[n] \o seqs[i] ELSE f[i]]
  <2>3. ASSUME NEW i \in 1 .. n PROVE f[i] = IF i = 1 THEN seqs[i] ELSE f[i - 1] \o seqs[i]
    <3>1. f[i] = IF i = 1 THEN s[i] ELSE f[i - 1] \o s[i]
      BY <2>1, <2>2 DEF Flattens
    <3> QED
      BY <3>1
  <2>4. ASSUME NEW i \in 1 .. n + 1 PROVE g[i] = IF i = 1 THEN seqs[i] ELSE g[i - 1] \o seqs[i]
    <3>1. CASE i = 1
      BY <3>1
    <3>2. CASE i # 1
      <4>1. i - 1 \in 1 .. n /\ i - 1 \in 1 .. n + 1
        BY <3>2
      <4>2. g[i - 1] = f[i - 1]
        <5>1. CASE i - 1 = 1
          <6>1. g[i - 1] = seqs[1] /\ f[i - 1] = seqs[1]
            BY <2>3, <4>1, <5>1
          <6> QED
            BY <6>1
        <5>2. CASE i - 1 # 1
          BY <4>1, <5>2
        <5> QED
          BY <5>1, <5>2
      <4>3. CASE i = n + 1
        <5>1. i - 1 = n
          BY <4>3
        <5>2. g[i] = f[n] \o seqs[i]
          BY <3>2, <4>3
        <5> QED
          BY <3>2, <4>2, <5>1, <5>2
      <4>4. CASE i # n + 1
        <5>1. g[i] = f[i] /\ i \in 1 .. n
          BY <3>2, <4>4
        <5>2. f[i] = f[i - 1] \o seqs[i]
          BY <2>3, <3>2, <5>1
        <5> QED
          BY <3>2, <4>2, <5>1, <5>2
      <4> QED
        BY <4>3, <4>4
    <3> QED
      BY <3>1, <3>2
  <2>5. g = [i \in 1 .. n + 1 |-> g[i]]
    OBVIOUS
  <2> HIDE DEF g
  <2>6. Flattens(seqs, g)
    BY <2>4, <2>5 DEF Flattens
  <2> QED
    BY <2>6
<1>3. T = Nat
  <2> HIDE DEF T
  <2>1. T \in SUBSET Nat
    BY DEF T
  <2> QED
    BY <1>1, <1>2, <2>1, NumbersByInduction
<1> QED
  BY <1>3

\* Where a line is cut between its pieces: the parts up to each cut.
LEMMA FlattenGrows ==
  ASSUME NEW S, NEW pieces \in Seq(Seq(S))
  PROVE  \E up \in [0 .. Len(pieces) -> Seq(S)] :
           Grows(pieces, up) /\ F!FlattenSeq(pieces) = up[Len(pieces)]
<1> DEFINE n == Len(pieces)
           f == CHOOSE f : Flattens(pieces, f)
           up == [i \in 0 .. n |-> IF i = 0 THEN <<>> ELSE f[i]]
<1>1. n \in Nat
  OBVIOUS
<1>2. Flattens(pieces, f)
  <2>1. \E g : Flattens(pieces, g)
    BY FlattensExists
  <2> QED
    BY <2>1
<1>3. F!FlattenSeq(pieces) = IF n = 0 THEN pieces ELSE f[n]
  BY DEF F!FlattenSeq, Flattens
<1>4. n = 0 => pieces = <<>>
  OBVIOUS
<1> HIDE DEF f
<1>5. ASSUME NEW i \in 1 .. n
      PROVE  f[i] = IF i = 1 THEN pieces[i] ELSE f[i - 1] \o pieces[i]
  BY <1>2 DEF Flattens
<1>6. ASSUME NEW i \in 1 .. n PROVE up[i] = up[i - 1] \o pieces[i]
  <2>1. pieces[i] \in Seq(S)
    OBVIOUS
  <2>2. up[i] = f[i]
    OBVIOUS
  <2>3. CASE i = 1
    <3>1. up[i - 1] = <<>>
      BY <2>3
    <3>2. f[i] = pieces[i]
      BY <1>5, <2>3
    <3> HIDE DEF up
    <3> QED
      BY <2>1, <2>2, <3>1, <3>2
  <2>4. CASE i # 1
    <3>1. up[i - 1] = f[i - 1]
      BY <2>4
    <3>2. f[i] = f[i - 1] \o pieces[i]
      BY <1>5, <2>4
    <3> QED
      BY <2>2, <3>1, <3>2
  <2> QED
    BY <2>3, <2>4
<1>7. up[0] = <<>> /\ DOMAIN up = 0 .. n /\ up = [i \in 0 .. n |-> up[i]]
  BY <1>1
<1>8. up[n] = F!FlattenSeq(pieces)
  BY <1>1, <1>3, <1>4
<1> HIDE DEF up
<1>9. ASSUME NEW i \in 0 .. n PROVE up[i] \in Seq(S)
  <2> DEFINE T == {m \in Nat : m <= n => up[m] \in Seq(S)}
  <2>1. 0 \in T
    <3>1. <<>> \in Seq(S)
      OBVIOUS
    <3> QED
      BY <1>7, <3>1
  <2>2. ASSUME NEW m \in T PROVE m + 1 \in T
    <3> SUFFICES ASSUME m + 1 <= n PROVE up[m + 1] \in Seq(S)
      OBVIOUS
    <3>1. m + 1 \in 1 .. n /\ m + 1 - 1 = m /\ up[m] \in Seq(S)
      BY <1>1
    <3>2. pieces[m + 1] \in Seq(S)
      BY <3>1
    <3>3. up[m + 1] = up[m] \o pieces[m + 1]
      <4> DEFINE k == m + 1
      <4>1. k \in 1 .. n
        BY <3>1
      <4> HIDE DEF k, n
      <4>2. up[k] = up[k - 1] \o pieces[k]
        BY <1>6, <4>1
      <4>3. k - 1 = m /\ k = m + 1
        BY DEF k
      <4> QED
        BY <4>2, <4>3
    <3> QED
      BY <3>1, <3>2, <3>3
  <2>3. T = Nat
    <3> HIDE DEF T
    <3>1. T \in SUBSET Nat
      BY DEF T
    <3> QED
      BY <2>1, <2>2, <3>1, NumbersByInduction
  <2> QED
    BY <2>3
<1>10. up \in [0 .. n -> Seq(S)]
  BY <1>7, <1>9
<1> QED
  BY <1>6, <1>7, <1>8, <1>10 DEF Grows

Cuts(S, pieces, up) ==
  pieces \in Seq(Seq(S)) /\ up \in [0 .. Len(pieces) -> Seq(S)] /\ Grows(pieces, up)

Joined(S, a, b, c) ==
  /\ a \in Seq(S) /\ b \in Seq(S) /\ c \in Seq(S)
  /\ Len(a) \in Nat /\ Len(b) \in Nat /\ Len(c) = Len(a) + Len(b)
  /\ \A k \in 1 .. Len(a) : c[k] = a[k]
  /\ \A k \in 1 .. Len(b) : c[Len(a) + k] = b[k]

LEMMA ConcatJoins ==
  ASSUME NEW S, NEW a \in Seq(S), NEW b \in Seq(S)
  PROVE  Joined(S, a, b, a \o b)
<1>1. /\ a \o b \in Seq(S) /\ Len(a) \in Nat /\ Len(b) \in Nat
      /\ Len(a \o b) = Len(a) + Len(b)
      /\ \A k \in 1 .. Len(a) : (a \o b)[k] = a[k]
      /\ \A k \in 1 .. Len(b) : (a \o b)[Len(a) + k] = b[k]
  OBVIOUS
<1> QED
  BY <1>1 DEF Joined

\* The part up to a cut is the part up to the cut before, then a piece.
LEMMA CutStep ==
  ASSUME NEW S, NEW pieces, NEW up, Cuts(S, pieces, up), NEW i \in 1 .. Len(pieces)
  PROVE  Joined(S, up[i - 1], pieces[i], up[i])
<1>1. pieces[i] \in Seq(S) /\ i - 1 \in 0 .. Len(pieces) /\ i \in 0 .. Len(pieces)
  BY DEF Cuts
<1>2. up[i - 1] \in Seq(S)
  BY <1>1 DEF Cuts
<1>3. up[i] = up[i - 1] \o pieces[i]
  BY DEF Cuts, Grows
<1> DEFINE a == up[i - 1]
           b == pieces[i]
<1>4. a \in Seq(S) /\ b \in Seq(S) /\ up[i] = a \o b
  BY <1>1, <1>2, <1>3
<1> HIDE DEF a, b
<1> QED
  BY <1>4, ConcatJoins DEF a, b

\* The part up to a cut stays as it is.
LEMMA CutPrefix ==
  ASSUME NEW S, NEW pieces, NEW up, Cuts(S, pieces, up),
         NEW i \in 0 .. Len(pieces), NEW n \in i .. Len(pieces)
  PROVE  /\ Len(up[i]) <= Len(up[n])
         /\ \A k \in 1 .. Len(up[i]) : up[n][k] = up[i][k]
<1> DEFINE Same(m) == Len(up[i]) <= Len(up[m]) /\ \A k \in 1 .. Len(up[i]) : up[m][k] = up[i][k]
           T == {d \in Nat : i + d <= Len(pieces) => Same(i + d)}
<1>0. Len(pieces) \in Nat /\ \A m \in 0 .. Len(pieces) : Len(up[m]) \in Nat
  BY DEF Cuts
<1>1. 0 \in T
  <2>1. i + 0 = i
    OBVIOUS
  <2> QED
    BY <1>0, <2>1
<1>2. ASSUME NEW d \in T PROVE d + 1 \in T
  <2> SUFFICES ASSUME i + (d + 1) <= Len(pieces) PROVE Same(i + (d + 1))
    OBVIOUS
  <2> DEFINE m == i + (d + 1)
  <2>1. m \in 1 .. Len(pieces) /\ m - 1 = i + d /\ m - 1 \in 0 .. Len(pieces)
    BY <1>0
  <2>2. Same(m - 1)
    <3>1. Same(i + d)
      BY <1>0
    <3> QED
      BY <2>1, <3>1
  <2> HIDE DEF m
  <2>3. Joined(S, up[m - 1], pieces[m], up[m])
    BY <2>1, CutStep
  <2> DEFINE b == up[m - 1]
             c == up[m]
  <2>4. Joined(S, b, pieces[m], c) /\ Len(up[i]) <= Len(b) /\ Len(up[i]) \in Nat
    BY <1>0, <2>2, <2>3
  <2>7. \A k \in 1 .. Len(up[i]) : b[k] = up[i][k]
    BY <2>2
  <2> HIDE DEF b, c
  <2>5. Len(up[i]) <= Len(c)
    BY <2>4 DEF Joined
  <2>6. ASSUME NEW k \in 1 .. Len(up[i]) PROVE c[k] = up[i][k]
    <3>1. k \in 1 .. Len(b)
      BY <2>4 DEF Joined
    <3> QED
      BY <2>4, <2>7, <3>1 DEF Joined
  <2> QED
    BY <2>5, <2>6 DEF c, m
<1>3. T = Nat
  <2> HIDE DEF T
  <2>1. T \in SUBSET Nat
    BY DEF T
  <2> QED
    BY <1>1, <1>2, <2>1, NumbersByInduction
<1>4. n - i \in T /\ i + (n - i) = n /\ n <= Len(pieces)
  <2>1. n - i \in Nat /\ i + (n - i) = n /\ n <= Len(pieces)
    BY <1>0
  <2> HIDE DEF T
  <2> QED
    BY <1>3, <2>1
<1>5. Same(n)
  <2> HIDE DEF Same
  <2> QED
    BY <1>4
<1> QED
  BY <1>5

Inside(a, b, c, d) ==
  /\ Len(a) \in Nat /\ Len(b) \in Nat /\ Len(d) \in Nat
  /\ Len(c) = Len(a) + Len(b) /\ Len(c) <= Len(d)
  /\ \A k \in 1 .. Len(b) : d[Len(a) + k] = b[k]

\* A piece is where the cuts before and after it say, in every longer part.
LEMMA CutHolds ==
  ASSUME NEW S, NEW pieces, NEW up, Cuts(S, pieces, up),
         NEW i \in 1 .. Len(pieces), NEW n \in i .. Len(pieces)
  PROVE  Inside(up[i - 1], pieces[i], up[i], up[n])
<1> DEFINE a == up[i - 1]
           b == pieces[i]
           c == up[i]
           d == up[n]
<1>1. Joined(S, a, b, c)
  BY CutStep
<1>2. Len(c) <= Len(d) /\ \A k \in 1 .. Len(c) : d[k] = c[k]
  BY CutPrefix
<1>4. Len(d) \in Nat
  BY DEF Cuts
<1> HIDE DEF a, b, c, d
<1>5. ASSUME NEW k \in 1 .. Len(b) PROVE d[Len(a) + k] = b[k]
  <2>1. Len(a) + k \in 1 .. Len(c)
    BY <1>1 DEF Joined
  <2>2. c[Len(a) + k] = b[k]
    BY <1>1 DEF Joined
  <2> QED
    BY <1>2, <2>1, <2>2
<1>6. Inside(a, b, c, d)
  BY <1>1, <1>2, <1>4, <1>5 DEF Inside, Joined
<1> QED
  BY <1>6 DEF a, b, c, d

\* Every place of a line is in one of its pieces.
LEMMA CutFinds ==
  ASSUME NEW S, NEW pieces, NEW up, Cuts(S, pieces, up),
         NEW q \in 1 .. Len(up[Len(pieces)])
  PROVE  \E i \in 1 .. Len(pieces) : Len(up[i - 1]) < q /\ q <= Len(up[i])
<1> DEFINE T == {i \in 0 .. Len(pieces) : q <= Len(up[i])}
<1>0. Len(pieces) \in Nat /\ \A m \in 0 .. Len(pieces) : Len(up[m]) \in Nat
  BY DEF Cuts
<1>1. T \in SUBSET Nat /\ Len(pieces) \in T
  BY <1>0
<1>2. PICK i \in T : \A m \in T : i <= m
  BY <1>1, LeastNumber
<1>3. i # 0
  <2>1. up[0] = <<>>
    BY DEF Cuts, Grows
  <2>2. Len(up[0]) = 0
    BY <2>1
  <2> QED
    BY <1>2, <2>2
<1>4. i \in 1 .. Len(pieces) /\ i - 1 \in 0 .. Len(pieces)
  BY <1>0, <1>3
<1>5. ~ (i <= i - 1)
  BY <1>4
<1>6. i - 1 \notin T
  BY <1>2, <1>5
<1>7. Len(up[i - 1]) < q
  BY <1>0, <1>4, <1>6
<1> QED
  BY <1>4, <1>7

-----------------------------------------------------------------------------
(* The browser's encoding, and httpdUrlDecode.                               *)

Meaning == {"&", "=", "%", "+"}

\* What lines are made of, and what escapes add: for the provers, which do not
\* know that a string that is written out is in STRING.
Text == STRING \cup Meaning \cup {" ", "2", "3", "5", "6", "B", "D"}

LEMMA TextHas ==
  /\ "2" \in Text /\ "3" \in Text /\ "5" \in Text /\ "6" \in Text /\ "B" \in Text
  /\ "D" \in Text /\ "%" \in Text /\ "+" \in Text /\ "&" \in Text /\ "=" \in Text
  /\ " " \in Text
BY DEF Text, Meaning

LEMMA EscapesAre ==
  /\ F!Escapes["&"] = <<"2", "6">> /\ F!Escapes["="] = <<"3", "D">>
  /\ F!Escapes["%"] = <<"2", "5">> /\ F!Escapes["+"] = <<"2", "B">>
  /\ DOMAIN F!Escapes = Meaning
BY DEF F!Escapes, Meaning

\* A character is written as itself, or as an escape that gives it back.
LEMMA WrittenIs ==
  ASSUME NEW c \in Text
  PROVE  \/ c = " " /\ F!Written(c) = <<"+">>
         \/ c \notin Meaning \cup {" "} /\ F!Written(c) = <<c>>
         \/ c \in Meaning /\ \E h, l \in Text \ {"&", "="} :
              F!Written(c) = <<"%", h, l>> /\ F!Escaped(h, l) = c
<1>1. CASE c = " "
  BY <1>1 DEF F!Written
<1>2. CASE c \notin Meaning \cup {" "}
  BY <1>2, EscapesAre DEF F!Written
<1>3. CASE c \in Meaning
  <2> DEFINE e == F!Escapes[c]
  <2>0. /\ "2" \in Text \ {"&", "="} /\ "3" \in Text \ {"&", "="}
        /\ "5" \in Text \ {"&", "="} /\ "6" \in Text \ {"&", "="}
        /\ "B" \in Text \ {"&", "="} /\ "D" \in Text \ {"&", "="}
    BY TextHas
  <2>1. \E h, l \in Text \ {"&", "="} : e = <<h, l>>
    <3>1. CASE c = "&"
      BY <2>0, <3>1, EscapesAre, Zenon
    <3>2. CASE c = "="
      BY <2>0, <3>2, EscapesAre, Zenon
    <3>3. CASE c = "%"
      BY <2>0, <3>3, EscapesAre, Zenon
    <3>4. CASE c = "+"
      BY <2>0, <3>4, EscapesAre, Zenon
    <3> QED
      BY <1>3, <3>1, <3>2, <3>3, <3>4 DEF Meaning
  <2>2. PICK h, l \in Text \ {"&", "="} : e = <<h, l>>
    BY <2>1
  <2>3. ASSUME NEW d \in Meaning, F!Escapes[d] = <<h, l>> PROVE d = c
    <3>1. F!Escapes[d] = F!Escapes[c]
      BY <2>2, <2>3
    <3> QED
      BY <1>3, <3>1, EscapesAre DEF Meaning
  <2>4. F!Escaped(h, l) = c
    BY <1>3, <2>2, <2>3, EscapesAre DEF F!Escaped
  <2>5. F!Written(c) = <<"%", h, l>>
    <3>1. e[1] = h /\ e[2] = l
      BY <2>2
    <3> QED
      BY <1>3, <3>1, EscapesAre DEF F!Written, Meaning
  <2> QED
    BY <1>3, <2>4, <2>5
<1> QED
  BY <1>1, <1>2, <1>3

\* "&" and "=" are never written.
Plain(s) == s \in Seq(Text) /\ \A k \in 1 .. Len(s) : s[k] \notin {"&", "="}

LEMMA WrittenPlain == \A c \in Text : Plain(F!Written(c))
<1> SUFFICES ASSUME NEW c \in Text PROVE Plain(F!Written(c))
  OBVIOUS
<1>1. ASSUME NEW x \in Text, x \notin {"&", "="} PROVE Plain(<<x>>)
  BY <1>1 DEF Plain
<1>2. ASSUME NEW h \in Text \ {"&", "="}, NEW l \in Text \ {"&", "="}
      PROVE  Plain(<<"%", h, l>>)
  <2> DEFINE s == <<"%", h, l>>
  <2>1. s \in Seq(Text) /\ Len(s) = 3 /\ s[1] = "%" /\ s[2] = h /\ s[3] = l
    <3>1. "%" \in Text /\ h \in Text /\ l \in Text
      BY TextHas
    <3> QED
      BY <3>1
  <2> HIDE DEF s
  <2>2. ASSUME NEW k \in 1 .. Len(s) PROVE s[k] \notin {"&", "="}
    <3>1. k = 1 \/ k = 2 \/ k = 3
      BY <2>1
    <3> QED
      BY <2>1, <3>1
  <2> QED
    BY <2>1, <2>2 DEF Plain, s
<1>3. CASE c = " " /\ F!Written(c) = <<"+">>
  <2>1. "+" \in Text /\ "+" \notin {"&", "="}
    BY TextHas
  <2> QED
    BY <1>1, <1>3, <2>1
<1>4. CASE c \notin Meaning \cup {" "} /\ F!Written(c) = <<c>>
  BY <1>1, <1>4 DEF Meaning
<1>5. CASE \E h, l \in Text \ {"&", "="} : F!Written(c) = <<"%", h, l>>
  BY <1>2, <1>5
<1> QED
  BY <1>3, <1>4, <1>5, WrittenIs

Escaping(value) == [i \in 1 .. Len(value) |-> F!Written(value[i])]

LEMMA EscapingType ==
  ASSUME NEW value \in Seq(Text)
  PROVE  /\ Escaping(value) \in Seq(Seq(Text)) /\ Len(Escaping(value)) = Len(value)
         /\ \A i \in 1 .. Len(value) : Escaping(value)[i] = F!Written(value[i])
         /\ Len(value) \in Nat
<1>1. ASSUME NEW i \in 1 .. Len(value) PROVE F!Written(value[i]) \in Seq(Text)
  <2>1. value[i] \in Text
    OBVIOUS
  <2> QED
    BY <2>1, WrittenPlain DEF Plain
<1> QED
  BY <1>1 DEF Escaping

\* Where an encoded value is cut between its characters.
LEMMA EncodedGrows ==
  ASSUME NEW value \in Seq(Text)
  PROVE  \E up : /\ Cuts(Text, Escaping(value), up)
                 /\ F!Encoded(value) = up[Len(value)]
<1> DEFINE p == Escaping(value)
<1>1. F!Encoded(value) = F!FlattenSeq(p)
  BY DEF F!Encoded, Escaping
<1>2. p \in Seq(Seq(Text)) /\ Len(p) = Len(value)
  BY EscapingType
<1> HIDE DEF p
<1>3. PICK up \in [0 .. Len(p) -> Seq(Text)] :
        Grows(p, up) /\ F!FlattenSeq(p) = up[Len(p)]
  BY <1>2, FlattenGrows
<1>4. Cuts(Text, p, up)
  BY <1>2, <1>3 DEF Cuts
<1>5. F!Encoded(value) = up[Len(value)]
  BY <1>1, <1>2, <1>3
<1> QED
  BY <1>4, <1>5 DEF p

LEMMA EncodedPlain == \A value \in Seq(Text) : Plain(F!Encoded(value))
<1> SUFFICES ASSUME NEW value \in Seq(Text) PROVE Plain(F!Encoded(value))
  OBVIOUS
<1> DEFINE p == Escaping(value)
           n == Len(value)
<1>1. PICK up : Cuts(Text, p, up) /\ F!Encoded(value) = up[n]
  BY EncodedGrows
<1>2. Len(p) = n /\ n \in Nat /\ \A i \in 1 .. n : p[i] = F!Written(value[i])
  BY EscapingType
<1> HIDE DEF p
<1>3. up[n] \in Seq(Text)
  BY <1>1, <1>2 DEF Cuts
<1>4. ASSUME NEW q \in 1 .. Len(up[n]) PROVE up[n][q] \notin {"&", "="}
  <2>1. PICK i \in 1 .. n : Len(up[i - 1]) < q /\ q <= Len(up[i])
    <3>1. q \in 1 .. Len(up[Len(p)])
      BY <1>2
    <3> QED
      BY <1>1, <1>2, <3>1, CutFinds
  <2>2. Inside(up[i - 1], p[i], up[i], up[n])
    <3>1. i \in 1 .. Len(p) /\ n \in i .. Len(p)
      BY <1>2
    <3> QED
      BY <1>1, <3>1, CutHolds
  <2>3. Plain(p[i])
    <3>1. value[i] \in Text
      OBVIOUS
    <3> QED
      BY <1>2, <3>1, WrittenPlain
  <2> DEFINE a == up[i - 1]
             b == p[i]
             c == up[i]
             d == up[n]
             k == q - Len(a)
  <2>4. Inside(a, b, c, d) /\ Plain(b) /\ Len(a) < q /\ q <= Len(c) /\ q \in Nat
    BY <2>1, <2>2, <2>3, <1>3
  <2> HIDE DEF a, b, c, d
  <2>5. k \in 1 .. Len(b) /\ Len(a) + k = q
    BY <2>4 DEF Inside
  <2> HIDE DEF k
  <2>6. d[q] = b[k]
    BY <2>4, <2>5 DEF Inside
  <2>7. d[q] \notin {"&", "="}
    BY <2>4, <2>5, <2>6 DEF Plain
  <2> QED
    BY <2>7 DEF d
<1>5. Plain(up[n])
  BY <1>3, <1>4 DEF Plain
<1> QED
  BY <1>1, <1>5

\* What a round makes of a state.
Round(st, c, retLen) == IF Len(st.ret) < retLen THEN F!Decode(st, c) ELSE st

Rounds(val, retLen, n, at) ==
  at = [s \in 0 .. n |-> IF s = 0 THEN F!State(<<>>, 0, "0")
                         ELSE IF Len(at[s - 1].ret) < retLen THEN F!Decode(at[s - 1], val[s])
                         ELSE at[s - 1]]

LEMMA RoundsExist ==
  ASSUME NEW val, NEW retLen
  PROVE  \A n \in Nat : \E at : Rounds(val, retLen, n, at)
<1> DEFINE T == {n \in Nat : \E at : Rounds(val, retLen, n, at)}
           First == F!State(<<>>, 0, "0")
<1>1. 0 \in T
  <2> DEFINE at == [s \in 0 .. 0 |-> First]
  <2>1. \A s \in 0 .. 0 : s = 0
    OBVIOUS
  <2>2. Rounds(val, retLen, 0, at)
    BY <2>1 DEF Rounds
  <2> QED
    BY <2>2
<1>2. ASSUME NEW n \in T PROVE n + 1 \in T
  <2>1. PICK at : Rounds(val, retLen, n, at)
    OBVIOUS
  <2> DEFINE last == IF Len(at[n].ret) < retLen THEN F!Decode(at[n], val[n + 1]) ELSE at[n]
             up == [s \in 0 .. n + 1 |-> IF s = n + 1 THEN last ELSE at[s]]
             After(f, s) == IF s = 0 THEN First
                            ELSE IF Len(f[s - 1].ret) < retLen THEN F!Decode(f[s - 1], val[s])
                            ELSE f[s - 1]
  <2>2. ASSUME NEW s \in 0 .. n PROVE at[s] = After(at, s)
    BY <2>1 DEF Rounds
  <2>3. \A s \in 0 .. n : up[s] = at[s]
    OBVIOUS
  <2>4. up[n + 1] = last /\ n + 1 # 0 /\ n + 1 - 1 = n /\ n \in 0 .. n
    OBVIOUS
  <2>5. up = [s \in 0 .. n + 1 |-> up[s]]
    OBVIOUS
  <2> HIDE DEF up, First
  <2>6. ASSUME NEW s \in 0 .. n + 1 PROVE up[s] = After(up, s)
    <3>1. CASE s = n + 1
      <4>1. up[s - 1] = at[n]
        BY <2>3, <2>4, <3>1
      <4>2. up[s] = last /\ s # 0
        BY <2>4, <3>1
      <4>3. val[s] = val[n + 1]
        BY <3>1
      <4> QED
        BY <4>1, <4>2, <4>3
    <3>2. CASE s \in 0 .. n
      <4>1. CASE s = 0
        BY <2>2, <2>3, <3>2, <4>1
      <4>2. CASE s # 0
        <5>1. s - 1 \in 0 .. n
          BY <3>2, <4>2
        <5>2. up[s - 1] = at[s - 1]
          BY <2>3, <5>1
        <5>3. up[s] = After(at, s)
          BY <2>2, <2>3, <3>2
        <5> QED
          BY <4>2, <5>2, <5>3
      <4> QED
        BY <4>1, <4>2
    <3> QED
      BY <3>1, <3>2
  <2>7. Rounds(val, retLen, n + 1, up)
    BY <2>5, <2>6 DEF Rounds, First
  <2> QED
    BY <2>7
<1>3. T = Nat
  <2> HIDE DEF T
  <2>1. T \in SUBSET Nat
    BY DEF T
  <2> QED
    BY <1>1, <1>2, <2>1, NumbersByInduction
<1> QED
  BY <1>3

\* httpdUrlDecode gives what its rounds have put together.
Follows(at, s, c, retLen) == at[s] = Round(at[s - 1], c, retLen)

Run(val, retLen, at) ==
  /\ at[0] = F!State(<<>>, 0, "0")
  /\ \A s \in 1 .. Len(val) : Follows(at, s, val[s], retLen)

LEMMA DecodeRuns ==
  ASSUME NEW val, Len(val) \in Nat, NEW retLen
  PROVE  \E at : Run(val, retLen, at) /\ F!httpdUrlDecode(val, retLen) = at[Len(val)].ret
<1> DEFINE at == CHOOSE at : Rounds(val, retLen, Len(val), at)
<1>1. \E f : Rounds(val, retLen, Len(val), f)
  BY RoundsExist
<1>2. Rounds(val, retLen, Len(val), at)
  BY <1>1
<1>3. F!Decoding(val, retLen) = at
  BY DEF F!Decoding, Rounds
<1> HIDE DEF at
<1>4. at[0] = F!State(<<>>, 0, "0")
  BY <1>2 DEF Rounds
<1>5. ASSUME NEW s \in 1 .. Len(val) PROVE at[s] = Round(at[s - 1], val[s], retLen)
  <2>1. s \in 0 .. Len(val) /\ s # 0
    OBVIOUS
  <2> QED
    BY <1>2, <2>1 DEF Rounds, Round
<1>6. F!httpdUrlDecode(val, retLen) = at[Len(val)].ret
  BY <1>3 DEF F!httpdUrlDecode
<1> QED
  BY <1>4, <1>5, <1>6 DEF Run, Follows

LEMMA StateHas ==
  \A r, e, h : /\ F!State(r, e, h).ret = r /\ F!State(r, e, h).esced = e
              /\ F!State(r, e, h).high = h
BY DEF F!State

LEMMA DecodePlain ==
  ASSUME NEW r, NEW h, NEW c, c \notin {"%", "+"}
  PROVE  F!Decode(F!State(r, 0, h), c) = F!State(Append(r, c), 0, h)
<1> DEFINE st == F!State(r, 0, h)
<1>1. st.ret = r /\ st.esced = 0 /\ st.high = h
  BY StateHas
<1> HIDE DEF st
<1>2. "+" # "%" /\ 0 # 1 /\ 0 # 2
  OBVIOUS
<1>3. F!Decode(st, c) = F!State(Append(st.ret, c), 0, st.high)
  BY <1>1, <1>2, Zenon DEF F!Decode
<1> QED
  BY <1>1, <1>3, Zenon DEF st

LEMMA DecodeSpace ==
  ASSUME NEW r, NEW h
  PROVE  F!Decode(F!State(r, 0, h), "+") = F!State(Append(r, " "), 0, h)
<1> DEFINE st == F!State(r, 0, h)
<1>1. st.ret = r /\ st.esced = 0 /\ st.high = h
  BY StateHas
<1> HIDE DEF st
<1>2. "+" # "%" /\ 0 # 1 /\ 0 # 2
  OBVIOUS
<1>3. F!Decode(st, "+") = F!State(Append(st.ret, " "), 0, st.high)
  BY <1>1, <1>2, Zenon DEF F!Decode
<1> QED
  BY <1>1, <1>3, Zenon DEF st

LEMMA DecodePercent ==
  ASSUME NEW r, NEW h
  PROVE  F!Decode(F!State(r, 0, h), "%") = F!State(r, 1, h)
<1> DEFINE st == F!State(r, 0, h)
<1>1. st.ret = r /\ st.esced = 0 /\ st.high = h
  BY StateHas
<1> HIDE DEF st
<1>2. "+" # "%" /\ 0 # 1 /\ 0 # 2
  OBVIOUS
<1>3. F!Decode(st, "%") = F!State(st.ret, 1, st.high)
  BY <1>1, <1>2, Zenon DEF F!Decode
<1> QED
  BY <1>1, <1>3, Zenon DEF st

LEMMA DecodeHigh ==
  ASSUME NEW r, NEW h, NEW c
  PROVE  F!Decode(F!State(r, 1, h), c) = F!State(r, 2, c)
<1> DEFINE st == F!State(r, 1, h)
<1>1. st.ret = r /\ st.esced = 1 /\ st.high = h
  BY StateHas
<1> HIDE DEF st
<1>2. "+" # "%" /\ 1 # 2 /\ 1 # 2
  OBVIOUS
<1>3. F!Decode(st, c) = F!State(st.ret, 2, c)
  BY <1>1, <1>2, Zenon DEF F!Decode
<1> QED
  BY <1>1, <1>3, Zenon DEF st

LEMMA DecodeLow ==
  ASSUME NEW r, NEW h, NEW c
  PROVE  F!Decode(F!State(r, 2, h), c) = F!State(Append(r, F!Escaped(h, c)), 0, h)
<1> DEFINE st == F!State(r, 2, h)
<1>1. st.ret = r /\ st.esced = 2 /\ st.high = h
  BY StateHas
<1> HIDE DEF st
<1>2. "+" # "%" /\ 2 # 1 /\ 2 # 1
  OBVIOUS
<1>3. F!Decode(st, c) = F!State(Append(st.ret, F!Escaped(st.high, c)), 0, st.high)
  BY <1>1, <1>2, Zenon DEF F!Decode
<1> QED
  BY <1>1, <1>3, Zenon DEF st

\* Between characters nothing is half read.
Clean(st, r) == \E h : st = F!State(r, 0, h)

\* What one character is written as adds that character, if there is room.
LEMMA ReadsOne ==
  ASSUME NEW c \in Text, NEW at, NEW s \in Nat, NEW r \in Seq(Text), NEW retLen \in Nat,
         Clean(at[s], r),
         \A k \in 1 .. Len(F!Written(c)) : Follows(at, s + k, F!Written(c)[k], retLen)
  PROVE  Clean(at[s + Len(F!Written(c))], IF Len(r) < retLen THEN Append(r, c) ELSE r)
<1> DEFINE w == F!Written(c)
<1>1. PICK h : at[s] = F!State(r, 0, h)
  BY DEF Clean
<1>0. F!State(r, 0, h).ret = r
  BY DEF F!State
<1>2. ASSUME NEW x, w = <<x>>,
             Len(r) < retLen => F!Decode(F!State(r, 0, h), x) = F!State(Append(r, c), 0, h)
      PROVE  Clean(at[s + Len(w)], IF Len(r) < retLen THEN Append(r, c) ELSE r)
  <2>1. Len(w) = 1 /\ w[1] = x /\ s + 1 - 1 = s
    BY <1>2
  <2>2. at[s + 1] = Round(at[s], x, retLen)
    <3>1. Follows(at, s + 1, w[1], retLen)
      BY <2>1
    <3> QED
      BY <2>1, <3>1 DEF Follows
  <2> HIDE DEF w
  <2> QED
    BY <1>0, <1>1, <1>2, <2>1, <2>2 DEF Round, Clean
<1>3. CASE c = " " /\ w = <<"+">>
  BY <1>2, <1>3, DecodeSpace
<1>4. CASE c \notin Meaning \cup {" "} /\ w = <<c>>
  <2>1. c \notin {"%", "+"}
    BY <1>4 DEF Meaning
  <2>2. F!Decode(F!State(r, 0, h), c) = F!State(Append(r, c), 0, h)
    BY <2>1, DecodePlain
  <2> QED
    BY <1>2, <1>4, <2>2
<1>5. ASSUME NEW g, NEW l, w = <<"%", g, l>>, F!Escaped(g, l) = c
      PROVE  Clean(at[s + Len(w)], IF Len(r) < retLen THEN Append(r, c) ELSE r)
  <2>1. Len(w) = 3 /\ w[1] = "%" /\ w[2] = g /\ w[3] = l
    BY <1>5
  <2> HIDE DEF w
  <2>2. at[s + 1] = Round(at[s], "%", retLen)
    <3>1. Follows(at, s + 1, w[1], retLen)
      BY <2>1 DEF w
    <3>2. s + 1 - 1 = s
      OBVIOUS
    <3> QED
      BY <2>1, <3>1, <3>2 DEF Follows
  <2>3. at[s + 2] = Round(at[s + 1], g, retLen)
    <3>1. Follows(at, s + 2, w[2], retLen)
      BY <2>1 DEF w
    <3>2. s + 2 - 1 = s + 1
      OBVIOUS
    <3> QED
      BY <2>1, <3>1, <3>2 DEF Follows
  <2>4. at[s + 3] = Round(at[s + 2], l, retLen)
    <3>1. Follows(at, s + 3, w[3], retLen)
      BY <2>1 DEF w
    <3>2. s + 3 - 1 = s + 2
      OBVIOUS
    <3> QED
      BY <2>1, <3>1, <3>2 DEF Follows
  <2>5. CASE Len(r) < retLen
    <3>1. at[s + 1] = F!State(r, 1, h)
      <4>1. F!Decode(F!State(r, 0, h), "%") = F!State(r, 1, h)
        BY DecodePercent
      <4> QED
        BY <1>0, <1>1, <2>2, <2>5, <4>1 DEF Round
    <3>2. at[s + 2] = F!State(r, 2, g)
      <4>1. F!State(r, 1, h).ret = r
        BY DEF F!State
      <4>2. F!Decode(F!State(r, 1, h), g) = F!State(r, 2, g)
        BY DecodeHigh
      <4> QED
        BY <2>3, <2>5, <3>1, <4>1, <4>2 DEF Round
    <3>3. at[s + 3] = F!State(Append(r, c), 0, g)
      <4>1. F!State(r, 2, g).ret = r
        BY DEF F!State
      <4>2. F!Decode(F!State(r, 2, g), l) = F!State(Append(r, F!Escaped(g, l)), 0, g)
        BY DecodeLow
      <4> QED
        BY <1>5, <2>4, <2>5, <3>2, <4>1, <4>2 DEF Round
    <3> QED
      BY <2>1, <2>5, <3>3 DEF Clean
  <2>6. CASE ~ (Len(r) < retLen)
    <3>1. at[s + 1] = F!State(r, 0, h)
      BY <1>0, <1>1, <2>2, <2>6 DEF Round
    <3>2. at[s + 2] = F!State(r, 0, h)
      BY <1>0, <2>3, <2>6, <3>1 DEF Round
    <3>3. at[s + 3] = F!State(r, 0, h)
      BY <1>0, <2>4, <2>6, <3>2 DEF Round
    <3> QED
      BY <2>1, <2>6, <3>3 DEF Clean
  <2> QED
    BY <2>5, <2>6
<1>6. CASE \E g, l \in Text \ {"&", "="} : w = <<"%", g, l>> /\ F!Escaped(g, l) = c
  BY <1>5, <1>6
<1> QED
  BY <1>3, <1>4, <1>6, WrittenIs

\* The first n characters of a value, as many as have room.
First(v, n, retLen) == SubSeq(v, 1, IF n < retLen THEN n ELSE retLen)

LEMMA FirstGrows ==
  ASSUME NEW S, NEW v \in Seq(S), NEW n \in 1 .. Len(v), NEW retLen \in Nat
  PROVE  LET r == First(v, n - 1, retLen)
         IN r \in Seq(S) /\ First(v, n, retLen) = IF Len(r) < retLen THEN Append(r, v[n]) ELSE r
<1> DEFINE r == First(v, n - 1, retLen)
<1>0. Len(v) \in Nat
  OBVIOUS
<1>1. CASE n <= retLen
  <2>1. r = SubSeq(v, 1, n - 1) /\ First(v, n, retLen) = SubSeq(v, 1, n)
    BY <1>0, <1>1 DEF First
  <2>2. /\ SubSeq(v, 1, n - 1) \in Seq(S) /\ Len(SubSeq(v, 1, n - 1)) = n - 1
        /\ SubSeq(v, 1, n) = Append(SubSeq(v, 1, n - 1), v[n])
    BY <1>0
  <2> HIDE DEF r
  <2> QED
    BY <1>1, <2>1, <2>2 DEF r
<1>2. CASE ~ (n <= retLen)
  <2>1. r = SubSeq(v, 1, retLen) /\ First(v, n, retLen) = SubSeq(v, 1, retLen)
    BY <1>0, <1>2 DEF First
  <2>2. SubSeq(v, 1, retLen) \in Seq(S) /\ Len(SubSeq(v, 1, retLen)) = retLen
    BY <1>0, <1>2
  <2> HIDE DEF r
  <2> QED
    BY <1>2, <2>1, <2>2 DEF r
<1> QED
  BY <1>1, <1>2

\* httpdUrlDecode gives back what was encoded, as much as has room.
LEMMA DecodesBack ==
  ASSUME NEW value \in Seq(Text), NEW retLen \in Nat
  PROVE  F!httpdUrlDecode(F!Encoded(value), retLen) = First(value, Len(value), retLen)
<1> DEFINE p == Escaping(value)
           n == Len(value)
           val == F!Encoded(value)
<1>1. PICK up : Cuts(Text, p, up) /\ val = up[n]
  BY EncodedGrows
<1>2. Len(p) = n /\ n \in Nat /\ \A i \in 1 .. n : p[i] = F!Written(value[i])
  BY EscapingType
<1>3. val \in Seq(Text)
  BY EncodedPlain DEF Plain
<1> HIDE DEF p, val
<1>4. PICK at : Run(val, retLen, at) /\ F!httpdUrlDecode(val, retLen) = at[Len(val)].ret
  <2>1. Len(val) \in Nat
    BY <1>3
  <2> QED
    BY <2>1, DecodeRuns
<1> DEFINE Good(i) == Clean(at[Len(up[i])], First(value, i, retLen))
           T == {i \in Nat : i <= n => Good(i)}
<1>5. 0 \in T
  <2>1. Len(up[0]) = 0
    <3>1. up[0] = <<>>
      BY <1>1 DEF Cuts, Grows
    <3> QED
      BY <3>1
  <2>2. First(value, 0, retLen) = <<>>
    <3>1. (IF 0 < retLen THEN 0 ELSE retLen) = 0
      OBVIOUS
    <3> QED
      BY <3>1 DEF First
  <2>3. Clean(at[0], <<>>)
    BY <1>4 DEF Run, Clean
  <2> QED
    BY <2>1, <2>2, <2>3
<1>6. ASSUME NEW j \in T PROVE j + 1 \in T
  <2> SUFFICES ASSUME j + 1 <= n PROVE Good(j + 1)
    OBVIOUS
  <2> DEFINE i == j + 1
  <2>1. i \in 1 .. n /\ i - 1 = j /\ Good(i - 1)
    BY <1>2
  <2> HIDE DEF i, Good
  <2> DEFINE a == up[i - 1]
             c == up[i]
             r == First(value, i - 1, retLen)
             s == Len(a)
             w == F!Written(value[i])
  <2>2. Inside(a, w, c, val)
    <3>1. i \in 1 .. Len(p) /\ n \in i .. Len(p) /\ p[i] = w
      BY <1>2, <2>1
    <3>2. Inside(up[i - 1], p[i], up[i], up[n])
      BY <1>1, <3>1, CutHolds
    <3> QED
      BY <1>1, <3>1, <3>2
  <2>3. Clean(at[s], r)
    BY <2>1 DEF Good
  <2>4. value[i] \in Text
    BY <2>1
  <2>5. r \in Seq(Text) /\ First(value, i, retLen) = IF Len(r) < retLen THEN Append(r, value[i]) ELSE r
    <3> HIDE DEF r
    <3> QED
      BY <2>1, FirstGrows DEF r
  <2> HIDE DEF a, c, r, w
  <2>6. ASSUME NEW k \in 1 .. Len(w) PROVE Follows(at, s + k, w[k], retLen)
    <3>1. s + k \in 1 .. Len(val) /\ val[s + k] = w[k]
      BY <2>2 DEF Inside
    <3>2. \A q \in 1 .. Len(val) : Follows(at, q, val[q], retLen)
      BY <1>4 DEF Run
    <3>3. Follows(at, s + k, val[s + k], retLen)
      BY <3>1, <3>2
    <3> QED
      BY <3>1, <3>3
  <2>7. Clean(at[s + Len(w)], IF Len(r) < retLen THEN Append(r, value[i]) ELSE r)
    <3>1. s \in Nat
      BY <2>2 DEF Inside
    <3> HIDE DEF s
    <3> QED
      BY <2>3, <2>4, <2>5, <2>6, <3>1, ReadsOne DEF w
  <2>8. Len(c) = s + Len(w)
    BY <2>2 DEF Inside
  <2>9. Good(i)
    BY <2>5, <2>7, <2>8 DEF Good, c
  <2> QED
    BY <2>9 DEF i
<1>7. T = Nat
  <2> HIDE DEF T
  <2>1. T \in SUBSET Nat
    BY DEF T
  <2> QED
    BY <1>5, <1>6, <2>1, NumbersByInduction
<1>8. Good(n)
  <2>1. n \in T /\ n <= n
    BY <1>2, <1>7
  <2> HIDE DEF Good
  <2> QED
    BY <2>1
<1>9. Clean(at[Len(val)], First(value, n, retLen))
  BY <1>1, <1>8
<1>10. ASSUME NEW st, NEW r, Clean(st, r) PROVE st.ret = r
  BY <1>10 DEF Clean, F!State
<1> QED
  BY <1>4, <1>9, <1>10 DEF val

-----------------------------------------------------------------------------
(* A form's line, and httpdFindArg.                                          *)

LEMMA NamesArePlain == \A name \in Names : Plain(name)
<1> SUFFICES ASSUME NEW name \in Names PROVE Plain(name)
  OBVIOUS
<1>1. name \in Seq(STRING) /\ \A i \in DOMAIN name : name[i] \notin {"&", "=", "%", "+", " "}
  BY FormAssumption
<1>2. name \in Seq(Text) /\ DOMAIN name = 1 .. Len(name)
  <2>1. STRING \subseteq Text
    BY DEF Text
  <2> QED
    BY <1>1, <2>1, SeqMonotonic, LenProperties
<1> QED
  BY <1>1, <1>2 DEF Plain

LEMMA ValuesAreText == Values \subseteq Seq(Text)
<1> SUFFICES ASSUME NEW value \in Values PROVE value \in Seq(Text)
  OBVIOUS
<1>1. value \in Seq(STRING)
  BY FormAssumption
<1>2. STRING \subseteq Text
  BY DEF Text
<1> QED
  BY <1>1, <1>2, SeqMonotonic

FormPairs == Seq([name : Names, value : Values])

Fields(pairs) == [i \in 1 .. Len(pairs) |-> F!Field(i, pairs[i])]

\* How many characters of a field are before its name.
Apart(i) == IF i = 1 THEN 0 ELSE 1

\* A field: perhaps "&", then the name, "=" and the encoded value.
Shaped(fd, b, name, e) ==
  /\ fd \in Seq(Text) /\ Plain(name) /\ Plain(e)
  /\ Len(name) \in Nat /\ Len(e) \in Nat
  /\ b \in {0, 1} /\ Len(fd) = b + Len(name) + 1 + Len(e)
  /\ b = 1 => fd[1] = "&"
  /\ \A k \in 1 .. Len(name) : fd[b + k] = name[k]
  /\ fd[b + Len(name) + 1] = "="
  /\ \A k \in 1 .. Len(e) : fd[b + Len(name) + 1 + k] = e[k]

LEMMA Single ==
  ASSUME NEW x \in Text
  PROVE  <<x>> \in Seq(Text) /\ Len(<<x>>) = 1 /\ <<x>>[1] = x
OBVIOUS

Separator(sep, b) == (sep = <<>> /\ b = 0) \/ (sep = <<"&">> /\ b = 1)

LEMMA JoinedShape ==
  ASSUME NEW name, Plain(name), NEW e, Plain(e), NEW sep, NEW b,
         Separator(sep, b)
  PROVE  Shaped(sep \o name \o <<"=">> \o e, b, name, e)
<1> DEFINE x == sep \o name
           y == x \o <<"=">>
           fd == y \o e
<1>1. sep \in Seq(Text) /\ Len(sep) = b /\ (b = 1 => sep[1] = "&") /\ b \in {0, 1}
  <2>1. <<>> \in Seq(Text) /\ Len(<<>>) = 0
    OBVIOUS
  <2>2. <<"&">> \in Seq(Text) /\ Len(<<"&">>) = 1 /\ <<"&">>[1] = "&"
    BY TextHas, Single
  <2>3. CASE sep = <<>> /\ b = 0
    BY <2>1, <2>3
  <2>4. CASE sep = <<"&">> /\ b = 1
    BY <2>2, <2>4
  <2> QED
    BY <2>3, <2>4 DEF Separator
<1>2. <<"=">> \in Seq(Text) /\ Len(<<"=">>) = 1 /\ <<"=">>[1] = "="
  BY TextHas, Single
<1>3. name \in Seq(Text) /\ e \in Seq(Text)
  BY DEF Plain
<1>4. Joined(Text, sep, name, x)
  BY <1>1, <1>3, ConcatJoins
<1> HIDE DEF x
<1>5. Joined(Text, x, <<"=">>, y)
  BY <1>2, <1>4, ConcatJoins DEF Joined
<1> HIDE DEF y
<1>6. Joined(Text, y, e, fd)
  <2>1. y \in Seq(Text)
    BY <1>5 DEF Joined
  <2> QED
    BY <1>3, <2>1, ConcatJoins
<1> HIDE DEF fd
<1>12. Len(x) = b + Len(name) /\ Len(y) = b + Len(name) + 1 /\ Len(name) \in Nat /\ Len(e) \in Nat
       /\ Len(fd) = b + Len(name) + 1 + Len(e) /\ fd \in Seq(Text)
  BY <1>1, <1>2, <1>4, <1>5, <1>6 DEF Joined
<1>7. b = 1 => fd[1] = "&"
  <2> SUFFICES ASSUME b = 1 PROVE fd[1] = "&"
    OBVIOUS
  <2>1. 1 \in 1 .. Len(sep) /\ 1 \in 1 .. Len(x) /\ 1 \in 1 .. Len(y)
    BY <1>1, <1>12
  <2>2. x[1] = sep[1]
    BY <1>4, <2>1 DEF Joined
  <2>3. y[1] = x[1]
    BY <1>5, <2>1 DEF Joined
  <2>4. fd[1] = y[1]
    BY <1>6, <2>1 DEF Joined
  <2> QED
    BY <1>1, <2>2, <2>3, <2>4
<1>8. ASSUME NEW k \in 1 .. Len(name) PROVE fd[b + k] = name[k]
  <2>1. b + k \in 1 .. Len(x) /\ b + k \in 1 .. Len(y)
    BY <1>1, <1>12
  <2>2. x[b + k] = name[k]
    BY <1>1, <1>4 DEF Joined
  <2>3. y[b + k] = x[b + k]
    BY <1>5, <2>1 DEF Joined
  <2>4. fd[b + k] = y[b + k]
    BY <1>6, <2>1 DEF Joined
  <2> QED
    BY <2>2, <2>3, <2>4
<1>9. fd[b + Len(name) + 1] = "="
  <2>1. Len(x) + 1 = b + Len(name) + 1 /\ Len(x) + 1 \in 1 .. Len(y)
    BY <1>1, <1>12
  <2>2. y[Len(x) + 1] = "="
    <3>1. 1 \in 1 .. Len(<<"=">>)
      BY <1>2
    <3> QED
      BY <1>2, <1>5, <3>1 DEF Joined
  <2>3. fd[Len(x) + 1] = y[Len(x) + 1]
    BY <1>6, <2>1 DEF Joined
  <2> QED
    BY <2>1, <2>2, <2>3
<1>10. ASSUME NEW k \in 1 .. Len(e) PROVE fd[b + Len(name) + 1 + k] = e[k]
  <2>1. Len(y) + k = b + Len(name) + 1 + k /\ fd[Len(y) + k] = e[k]
    BY <1>1, <1>6, <1>12 DEF Joined
  <2> QED
    BY <2>1
<1>11. Shaped(fd, b, name, e)
  BY <1>1, <1>12, <1>7, <1>8, <1>9, <1>10 DEF Shaped
<1> QED
  BY <1>11 DEF fd, y, x

LEMMA FieldShaped ==
  ASSUME NEW pairs \in FormPairs, NEW i \in 1 .. Len(pairs)
  PROVE  Shaped(F!Field(i, pairs[i]), Apart(i), pairs[i].name, F!Encoded(pairs[i].value))
<1>1. pairs[i] \in [name : Names, value : Values]
  BY ElementOfSeq DEF FormPairs
<1>2. Plain(pairs[i].name)
  BY <1>1, NamesArePlain
<1>3. Plain(F!Encoded(pairs[i].value))
  BY <1>1, ValuesAreText, EncodedPlain
<1>4. CASE i = 1
  <2> DEFINE sep == <<>>
  <2>1. Apart(i) = 0 /\ F!Field(i, pairs[i])
          = sep \o pairs[i].name \o <<"=">> \o F!Encoded(pairs[i].value)
    BY <1>4 DEF F!Field, Apart
  <2>2. Separator(sep, 0)
    BY DEF Separator
  <2> HIDE DEF sep
  <2>3. Shaped(sep \o pairs[i].name \o <<"=">> \o F!Encoded(pairs[i].value), 0,
               pairs[i].name, F!Encoded(pairs[i].value))
    BY <1>2, <1>3, <2>2, JoinedShape
  <2> QED
    BY <2>1, <2>3
<1>5. CASE i # 1
  <2> DEFINE sep == <<"&">>
  <2>1. Apart(i) = 1 /\ F!Field(i, pairs[i])
          = sep \o pairs[i].name \o <<"=">> \o F!Encoded(pairs[i].value)
    BY <1>5 DEF F!Field, Apart
  <2>2. Separator(sep, 1)
    BY DEF Separator
  <2> HIDE DEF sep
  <2>3. Shaped(sep \o pairs[i].name \o <<"=">> \o F!Encoded(pairs[i].value), 1,
               pairs[i].name, F!Encoded(pairs[i].value))
    BY <1>2, <1>3, <2>2, JoinedShape
  <2> QED
    BY <2>1, <2>3
<1> QED
  BY <1>4, <1>5

\* Where a line is cut between its fields.
LEMMA LineGrows ==
  ASSUME NEW pairs \in FormPairs
  PROVE  /\ \E up : Cuts(Text, Fields(pairs), up) /\ F!Line(pairs) = up[Len(pairs)]
         /\ Len(Fields(pairs)) = Len(pairs) /\ Len(pairs) \in Nat
<1> DEFINE p == Fields(pairs)
<1>1. ASSUME NEW i \in 1 .. Len(pairs) PROVE F!Field(i, pairs[i]) \in Seq(Text)
  BY FieldShaped DEF Shaped
<1>0. Len(pairs) \in Nat
  BY DEF FormPairs
<1>2. p \in Seq(Seq(Text)) /\ Len(p) = Len(pairs)
  BY <1>0, <1>1 DEF Fields
<1>3. F!Line(pairs) = F!FlattenSeq(p)
  BY DEF F!Line, Fields
<1> HIDE DEF p
<1>4. PICK up \in [0 .. Len(p) -> Seq(Text)] :
        Grows(p, up) /\ F!FlattenSeq(p) = up[Len(p)]
  BY <1>2, FlattenGrows
<1>5. Cuts(Text, p, up)
  BY <1>2, <1>4 DEF Cuts
<1>6. F!Line(pairs) = up[Len(pairs)]
  BY <1>2, <1>3, <1>4
<1> QED
  BY <1>0, <1>2, <1>5, <1>6 DEF p

\* A field of a line: its name from B + 1 on, its value up to end.
Laid(line, B, name, e, end) ==
  /\ line \in Seq(Text) /\ Plain(name) /\ Plain(e)
  /\ B \in Nat /\ end \in Nat /\ Len(line) \in Nat /\ Len(name) \in Nat /\ Len(e) \in Nat
  /\ end = B + Len(name) + 1 + Len(e) /\ end <= Len(line)
  /\ \A k \in 1 .. Len(name) : line[B + k] = name[k]
  /\ line[B + Len(name) + 1] = "="
  /\ \A k \in 1 .. Len(e) : line[B + Len(name) + 1 + k] = e[k]

\* What a line of n fields is, whose parts up to the cuts are up.
Lined(pairs, up, line) ==
  /\ Cuts(Text, Fields(pairs), up) /\ line = up[Len(pairs)]
  /\ Len(Fields(pairs)) = Len(pairs) /\ Len(pairs) \in Nat

\* Where the i-th field's name begins, less 1; and where the field ends.
Before(up, i) == Len(up[i - 1]) + Apart(i)
Ends(up, i) == Len(up[i])

Separated(up, i, line) == Apart(i) = 1 => line[Len(up[i - 1]) + 1] = "&"

LEMMA FieldLaid ==
  ASSUME NEW pairs \in FormPairs, NEW up, NEW line, Lined(pairs, up, line),
         NEW i \in 1 .. Len(pairs)
  PROVE  /\ Laid(line, Before(up, i), pairs[i].name, F!Encoded(pairs[i].value), Ends(up, i))
         /\ Separated(up, i, line) /\ Len(up[i - 1]) \in Nat
<1> DEFINE fd == F!Field(i, pairs[i])
           name == pairs[i].name
           e == F!Encoded(pairs[i].value)
           b == Apart(i)
           a == up[i - 1]
           c == up[i]
<1>1. Shaped(fd, b, name, e)
  BY FieldShaped
<1>2. Inside(a, fd, c, line)
  <2>1. i \in 1 .. Len(Fields(pairs)) /\ Len(pairs) \in i .. Len(Fields(pairs))
    BY DEF Lined
  <2>2. Fields(pairs)[i] = fd
    BY DEF Fields
  <2>3. Inside(a, Fields(pairs)[i], c, up[Len(pairs)])
    BY <2>1, CutHolds DEF Lined
  <2> QED
    BY <2>2, <2>3 DEF Lined
<1>3. line \in Seq(Text)
  BY DEF Lined, Cuts
<1> HIDE DEF fd, name, e, a, b, c
<1> DEFINE B == Len(a) + b
<1>4. B \in Nat /\ Len(c) = B + Len(name) + 1 + Len(e) /\ Len(c) <= Len(line)
      /\ Len(name) \in Nat /\ Len(e) \in Nat /\ Len(line) \in Nat /\ Len(a) \in Nat
      /\ Len(fd) = b + Len(name) + 1 + Len(e) /\ b \in {0, 1}
  BY <1>1, <1>2 DEF Shaped, Inside
<1>5. ASSUME NEW k \in 1 .. Len(name) PROVE line[B + k] = name[k]
  <2>1. b + k \in 1 .. Len(fd) /\ Len(a) + (b + k) = B + k
    BY <1>4
  <2>2. line[Len(a) + (b + k)] = fd[b + k]
    BY <1>2, <2>1 DEF Inside
  <2>3. fd[b + k] = name[k]
    BY <1>1 DEF Shaped
  <2> QED
    BY <2>1, <2>2, <2>3
<1>6. line[B + Len(name) + 1] = "="
  <2> DEFINE k == b + Len(name) + 1
  <2>1. k \in 1 .. Len(fd) /\ Len(a) + k = B + Len(name) + 1
    BY <1>4
  <2>2. fd[k] = "="
    BY <1>1 DEF Shaped
  <2> HIDE DEF k
  <2>3. line[Len(a) + k] = fd[k]
    BY <1>2, <2>1 DEF Inside
  <2> QED
    BY <2>1, <2>2, <2>3
<1>7. ASSUME NEW k \in 1 .. Len(e) PROVE line[B + Len(name) + 1 + k] = e[k]
  <2> DEFINE q == b + Len(name) + 1 + k
  <2>1. q \in 1 .. Len(fd) /\ Len(a) + q = B + Len(name) + 1 + k
    BY <1>4
  <2>2. fd[q] = e[k]
    BY <1>1 DEF Shaped
  <2> HIDE DEF q
  <2>3. line[Len(a) + q] = fd[q]
    BY <1>2, <2>1 DEF Inside
  <2> QED
    BY <2>1, <2>2, <2>3
<1>8. b = 1 => line[Len(a) + 1] = "&"
  <2> SUFFICES ASSUME b = 1 PROVE line[Len(a) + 1] = "&"
    OBVIOUS
  <2>1. 1 \in 1 .. Len(fd)
    BY <1>4
  <2>2. line[Len(a) + 1] = fd[1] /\ fd[1] = "&"
    BY <1>1, <1>2, <2>1 DEF Inside, Shaped
  <2> QED
    BY <2>2
<1>9. Plain(name) /\ Plain(e)
  BY <1>1 DEF Shaped
<1> DEFINE end == Len(c)
<1>10. Laid(line, B, name, e, end)
  <2>1. end \in Nat
    BY <1>4
  <2> HIDE DEF B
  <2> QED
    BY <1>3, <1>4, <1>5, <1>6, <1>7, <1>9, <2>1 DEF Laid
<1> QED
  BY <1>4, <1>8, <1>10 DEF Before, Ends, Separated, a, b, c, e, name

\* A field has no "&" from its name on.
LEMMA NoAmp ==
  ASSUME NEW line, NEW B, NEW name, NEW e, NEW end, Laid(line, B, name, e, end),
         NEW q \in Nat, B < q, q <= end
  PROVE  line[q] # "&"
<1>1. B \in Nat /\ Len(name) \in Nat /\ Len(e) \in Nat /\ end = B + Len(name) + 1 + Len(e)
  BY DEF Laid
<1>2. CASE q <= B + Len(name)
  <2>1. q - B \in 1 .. Len(name) /\ B + (q - B) = q
    BY <1>1, <1>2
  <2>2. line[B + (q - B)] = name[q - B] /\ name[q - B] # "&"
    BY <2>1 DEF Laid, Plain
  <2> QED
    BY <2>1, <2>2
<1>3. CASE q = B + Len(name) + 1
  <2>1. line[B + Len(name) + 1] = "="
    BY DEF Laid
  <2> QED
    BY <1>3, <2>1
<1>4. CASE B + Len(name) + 1 < q
  <2> DEFINE k == q - (B + Len(name) + 1)
  <2>1. k \in 1 .. Len(e) /\ B + Len(name) + 1 + k = q
    BY <1>1, <1>4
  <2> HIDE DEF k
  <2>2. line[B + Len(name) + 1 + k] = e[k] /\ e[k] # "&"
    BY <2>1 DEF Laid, Plain
  <2> QED
    BY <2>1, <2>2
<1> QED
  BY <1>1, <1>2, <1>3, <1>4

\* An "&" is what separates two fields.
LEMMA AmpsSeparate ==
  ASSUME NEW pairs \in FormPairs, NEW up, NEW line, Lined(pairs, up, line),
         NEW q \in 1 .. Len(line), line[q] = "&"
  PROVE  \E i \in 1 .. Len(pairs) : i # 1 /\ q = Before(up, i)
<1>1. PICK i \in 1 .. Len(pairs) : Len(up[i - 1]) < q /\ q <= Len(up[i])
  BY CutFinds DEF Lined
<1>2. Laid(line, Before(up, i), pairs[i].name, F!Encoded(pairs[i].value), Ends(up, i))
      /\ Len(up[i - 1]) \in Nat
  BY FieldLaid
<1>3. ~ (Before(up, i) < q)
  BY <1>1, <1>2, NoAmp DEF Ends
<1> DEFINE a == Len(up[i - 1])
<1>4. a < q /\ ~ (a + Apart(i) < q) /\ a \in Nat /\ q \in Nat
  <2>1. q \in Nat
    BY DEF Lined, Cuts
  <2> QED
    BY <1>1, <1>2, <1>3, <2>1 DEF Before
<1> HIDE DEF a
<1>5. Apart(i) = 1 /\ q = a + Apart(i)
  <2>1. Apart(i) = 0 \/ Apart(i) = 1
    BY DEF Apart
  <2> QED
    BY <1>4, <2>1
<1>6. i # 1
  BY <1>5 DEF Apart
<1> QED
  BY <1>5, <1>6 DEF Before, a

\* httpdFindArg looks where the fields begin.
LEMMA StartsAreFields ==
  ASSUME NEW pairs \in FormPairs, NEW up, NEW line, Lined(pairs, up, line)
  PROVE  F!FieldStarts(line) = {Before(up, i) + 1 : i \in 1 .. Len(pairs)}
<1>0. Len(line) \in Nat
  BY DEF Lined, Cuts
<1>1. ASSUME NEW i \in 1 .. Len(pairs) PROVE Before(up, i) + 1 \in F!FieldStarts(line)
  <2> DEFINE B == Before(up, i)
  <2>1. Laid(line, B, pairs[i].name, F!Encoded(pairs[i].value), Ends(up, i))
        /\ Separated(up, i, line) /\ Len(up[i - 1]) \in Nat
    BY FieldLaid
  <2>2. B = Len(up[i - 1]) + Apart(i)
    BY DEF Before
  <2> HIDE DEF B
  <2>3. B \in Nat /\ B + 1 \in 1 .. Len(line)
    <3> DEFINE m == Len(pairs[i].name)
               l == Len(F!Encoded(pairs[i].value))
               end == Ends(up, i)
    <3>1. B \in Nat /\ m \in Nat /\ l \in Nat /\ end \in Nat /\ end = B + m + 1 + l /\ end <= Len(line)
      BY <2>1 DEF Laid
    <3> HIDE DEF m, l, end
    <3> QED
      BY <1>0, <3>1
  <2>4. CASE i = 1
    <3>1. up[0] = <<>>
      BY DEF Lined, Cuts, Grows
    <3>2. Len(up[i - 1]) = 0 /\ Apart(i) = 0
      BY <2>4, <3>1 DEF Apart
    <3> QED
      BY <2>2, <2>3, <2>4, <3>2 DEF F!FieldStarts, B
  <2>5. CASE i # 1
    <3>1. Apart(i) = 1
      BY <2>5 DEF Apart
    <3>2. line[B] = "&"
      BY <2>1, <2>2, <3>1 DEF Separated
    <3>3. B + 1 - 1 = B
      BY <2>3
    <3>4. B + 1 \in F!FieldStarts(line)
      BY <2>3, <3>2, <3>3 DEF F!FieldStarts
    <3> QED
      BY <3>4 DEF B
  <2> QED
    BY <2>4, <2>5
<1>2. ASSUME NEW p \in F!FieldStarts(line)
      PROVE  \E i \in 1 .. Len(pairs) : p = Before(up, i) + 1
  <2>1. p \in 1 .. Len(line) /\ (p = 1 \/ line[p - 1] = "&")
    BY DEF F!FieldStarts
  <2>2. CASE p = 1
    <3>1. PICK i \in 1 .. Len(pairs) : Len(up[i - 1]) < p /\ p <= Len(up[i])
      BY <2>1, CutFinds DEF Lined
    <3>2. 1 \in 1 .. Len(pairs)
      BY <3>1 DEF Lined
    <3>3. Before(up, 1) = 0
      <4>1. up[0] = <<>>
        BY DEF Lined, Cuts, Grows
      <4>2. Len(up[1 - 1]) = 0 /\ Apart(1) = 0
        BY <4>1 DEF Apart
      <4> QED
        BY <4>2 DEF Before
    <3> QED
      BY <2>2, <3>2, <3>3
  <2>3. CASE p # 1
    <3>1. p - 1 \in 1 .. Len(line) /\ line[p - 1] = "&"
      BY <1>0, <2>1, <2>3
    <3> DEFINE q == p - 1
    <3>2. q \in 1 .. Len(line) /\ line[q] = "&"
      BY <3>1
    <3> HIDE DEF q
    <3>3. PICK i \in 1 .. Len(pairs) : q = Before(up, i)
      BY <3>2, AmpsSeparate
    <3>4. p = q + 1
      BY <2>1 DEF q
    <3> QED
      BY <3>3, <3>4
  <2> QED
    BY <2>2, <2>3
<1> QED
  BY <1>1, <1>2

\* Where the field of a name begins.
LEMMA FieldAtName ==
  ASSUME NEW line, NEW B, NEW name, NEW e, NEW end, Laid(line, B, name, e, end),
         NEW wanted, Plain(wanted)
  PROVE  F!FieldAt(line, B + 1, wanted) <=> wanted = name
<1>1. /\ B \in Nat /\ Len(name) \in Nat /\ Len(e) \in Nat /\ Len(wanted) \in Nat /\ Len(line) \in Nat
      /\ end = B + Len(name) + 1 + Len(e) /\ end <= Len(line)
      /\ name \in Seq(Text) /\ wanted \in Seq(Text) /\ line \in Seq(Text)
  BY DEF Laid, Plain
<1> DEFINE m == Len(name)
           w == Len(wanted)
           part == SubSeq(line, B + 1, B + 1 + w - 1)
<1>2. B + 1 + w <= Len(line) =>
        part \in Seq(Text) /\ Len(part) = w /\ \A k \in 1 .. w : part[k] = line[B + k]
  <2> SUFFICES ASSUME B + 1 + w <= Len(line)
               PROVE  part \in Seq(Text) /\ Len(part) = w /\ \A k \in 1 .. w : part[k] = line[B + k]
    OBVIOUS
  <2> DEFINE lo == B + 1
             hi == B + 1 + w - 1
  <2>1. lo \in Int /\ hi \in Int /\ hi - lo + 1 = w /\ (lo <= hi <=> w # 0) /\ w \in Nat
        /\ \A i \in lo .. hi : line[i] \in Text
    BY <1>1
  <2>2. part = SubSeq(line, lo, hi)
    OBVIOUS
  <2>5. \A k \in 1 .. w : lo + k - 1 = B + k
    BY <1>1
  <2> HIDE DEF lo, hi, part, w
  <2>3. /\ part \in Seq(Text) /\ Len(part) = IF lo <= hi THEN hi - lo + 1 ELSE 0
        /\ \A k \in 1 .. hi - lo + 1 : part[k] = line[lo + k - 1]
    BY <2>1, <2>2, SubSeqProperties
  <2>4. \A k \in 1 .. w : part[k] = line[lo + k - 1]
    BY <2>1, <2>3
  <2>6. Len(part) = w
    BY <2>1, <2>3
  <2> QED
    BY <2>3, <2>4, <2>5, <2>6
<1> HIDE DEF part
<1>3. ASSUME wanted = name PROVE F!FieldAt(line, B + 1, wanted)
  <2>1. w = m /\ B + 1 + w <= Len(line)
    BY <1>1, <1>3
  <2>2. \A k \in 1 .. w : part[k] = wanted[k]
    BY <1>2, <1>3, <2>1 DEF Laid
  <2>3. part = wanted
    BY <1>1, <1>2, <2>1, <2>2, SeqEqual
  <2>4. line[B + 1 + w] = "="
    <3>1. B + 1 + w = B + Len(name) + 1
      BY <1>1, <2>1
    <3> QED
      BY <3>1 DEF Laid
  <2> QED
    BY <2>1, <2>3, <2>4 DEF F!FieldAt, part
<1>4. ASSUME F!FieldAt(line, B + 1, wanted) PROVE wanted = name
  <2>1. B + 1 + w <= Len(line) /\ part = wanted /\ line[B + 1 + w] = "="
    BY <1>4 DEF F!FieldAt, part
  <2>2. \A k \in 1 .. w : wanted[k] = line[B + k]
    BY <1>2, <2>1
  <2>3. CASE w < m
    <3>1. w + 1 \in 1 .. m /\ B + (w + 1) = B + 1 + w
      BY <1>1, <2>3
    <3>2. line[B + (w + 1)] = name[w + 1] /\ name[w + 1] # "="
      BY <3>1 DEF Laid, Plain
    <3> QED
      BY <2>1, <3>1, <3>2
  <2>4. CASE m < w
    <3>1. m + 1 \in 1 .. w /\ B + (m + 1) = B + m + 1
      BY <1>1, <2>4
    <3>2. wanted[m + 1] = line[B + (m + 1)] /\ wanted[m + 1] # "="
      BY <2>2, <3>1 DEF Plain
    <3>3. line[B + m + 1] = "="
      BY DEF Laid
    <3> QED
      BY <3>1, <3>2, <3>3
  <2>5. CASE w = m
    <3>1. \A k \in 1 .. m : line[B + k] = name[k]
      BY DEF Laid
    <3>2. \A k \in 1 .. w : wanted[k] = name[k]
      BY <2>2, <2>5, <3>1
    <3> QED
      BY <1>1, <2>5, <3>2, SeqEqual
  <2> QED
    BY <1>1, <2>3, <2>4, <2>5
<1> QED
  BY <1>3, <1>4

\* A value goes up to its field's end, where the line ends or an "&" is.
LEMMA ValueEnds ==
  ASSUME NEW line, NEW B, NEW name, NEW e, NEW end, Laid(line, B, name, e, end),
         end = Len(line) \/ (line[end + 1] = "&" /\ end + 1 <= Len(line))
  PROVE  LET v == B + 1 + Len(name) + 1
         IN SubSeq(line, v, F!AmpAt(line, v) - 1) = e
<1> DEFINE v == B + 1 + Len(name) + 1
           T == {i \in v .. Len(line) : line[i] = "&"} \cup {Len(line) + 1}
<1>1. /\ B \in Nat /\ Len(name) \in Nat /\ Len(e) \in Nat /\ Len(line) \in Nat /\ end \in Nat
      /\ end = B + Len(name) + 1 + Len(e) /\ end <= Len(line)
      /\ e \in Seq(Text) /\ line \in Seq(Text)
  BY DEF Laid, Plain
<1>2. v \in Nat /\ v = B + Len(name) + 2 /\ v <= end + 1 /\ B < v
  BY <1>1
<1> HIDE DEF v
<1>3. end + 1 \in T
  BY <1>1, <1>2
<1>4. ASSUME NEW i \in T PROVE end + 1 <= i
  <2>1. CASE i = Len(line) + 1
    BY <1>1, <2>1
  <2>2. CASE i \in v .. Len(line) /\ line[i] = "&"
    <3>1. i \in Nat /\ B < i
      BY <1>1, <1>2, <2>2
    <3>2. ~ (i <= end)
      BY <2>2, <3>1, NoAmp
    <3> QED
      BY <1>1, <3>1, <3>2
  <2> QED
    BY <2>1, <2>2
<1>5. \A i \in T : i \in Nat
  BY <1>1, <1>2
<1>6. F!AmpAt(line, v) = end + 1
  <2>1. F!AmpAt(line, v) = CHOOSE x \in T : \A y \in T : x <= y
    BY DEF F!AmpAt, F!Min
  <2> HIDE DEF T
  <2>2. ASSUME NEW x \in T, \A y \in T : x <= y PROVE x = end + 1
    <3>1. x <= end + 1 /\ end + 1 <= x /\ x \in Nat
      BY <1>3, <1>4, <1>5, <2>2
    <3> QED
      BY <1>1, <3>1
  <2>3. \A y \in T : end + 1 <= y
    BY <1>4
  <2> QED
    BY <1>3, <2>1, <2>2, <2>3
<1> DEFINE s == SubSeq(line, v, end)
<1>7. /\ s \in Seq(Text) /\ Len(s) = Len(e)
      /\ \A k \in 1 .. Len(e) : s[k] = line[v + k - 1]
  <2>1. v \in Int /\ end \in Int /\ \A i \in v .. end : line[i] \in Text
    BY <1>1, <1>2
  <2>2. /\ s \in Seq(Text) /\ Len(s) = IF v <= end THEN end - v + 1 ELSE 0
        /\ \A i \in 1 .. end - v + 1 : s[i] = line[v + i - 1]
    BY <2>1, SubSeqProperties
  <2>3. end - v + 1 = Len(e)
    BY <1>1, <1>2
  <2> HIDE DEF s
  <2>4. Len(s) = Len(e)
    BY <1>1, <1>2, <2>2, <2>3
  <2> QED
    BY <2>2, <2>3, <2>4
<1> HIDE DEF s
<1>8. ASSUME NEW k \in 1 .. Len(e) PROVE s[k] = e[k]
  <2>1. v + k - 1 = B + Len(name) + 1 + k
    BY <1>1, <1>2
  <2>2. line[B + Len(name) + 1 + k] = e[k]
    BY DEF Laid
  <2> QED
    BY <1>7, <2>1, <2>2
<1>9. s = e
  BY <1>1, <1>7, <1>8, SeqEqual
<1>10. F!AmpAt(line, v) - 1 = end
  BY <1>1, <1>6
<1>11. SubSeq(line, v, F!AmpAt(line, v) - 1) = e
  BY <1>9, <1>10 DEF s
<1> QED
  BY <1>11 DEF v

\* A field begins before the fields after it, and ends where the line does or
\* the next begins.
LEMMA FieldsInOrder ==
  ASSUME NEW pairs \in FormPairs, NEW up, NEW line, Lined(pairs, up, line),
         NEW i \in 1 .. Len(pairs)
  PROVE  /\ \A j \in 1 .. Len(pairs) : i < j => Before(up, i) < Before(up, j)
         /\ \/ Ends(up, i) = Len(line)
            \/ line[Ends(up, i) + 1] = "&" /\ Ends(up, i) + 1 <= Len(line)
<1>0. Len(pairs) \in Nat /\ Len(Fields(pairs)) = Len(pairs)
  BY DEF Lined
<1>1. ASSUME NEW j \in 1 .. Len(pairs)
      PROVE  /\ Before(up, j) \in Nat /\ Before(up, j) < Ends(up, j) /\ Ends(up, j) <= Len(line)
             /\ Len(up[j - 1]) \in Nat /\ Separated(up, j, line) /\ Ends(up, j) \in Nat
             /\ Len(line) \in Nat
  <2> DEFINE B == Before(up, j)
             name == pairs[j].name
             e == F!Encoded(pairs[j].value)
             end == Ends(up, j)
  <2>1. /\ Laid(line, B, name, e, end) /\ Separated(up, j, line) /\ Len(up[j - 1]) \in Nat
    BY FieldLaid
  <2> HIDE DEF B, name, e, end
  <2>2. /\ B \in Nat /\ end \in Nat /\ Len(name) \in Nat /\ Len(e) \in Nat /\ Len(line) \in Nat
        /\ end = B + Len(name) + 1 + Len(e) /\ end <= Len(line)
    BY <2>1 DEF Laid
  <2>3. B < end
    BY <2>2
  <2> QED
    BY <2>1, <2>2, <2>3 DEF B, end
<1>2. ASSUME NEW j \in 1 .. Len(pairs), i < j PROVE Before(up, i) < Before(up, j)
  <2>1. i \in 0 .. Len(Fields(pairs)) /\ j - 1 \in i .. Len(Fields(pairs))
    BY <1>0, <1>2
  <2>2. Len(up[i]) <= Len(up[j - 1])
    BY <2>1, CutPrefix DEF Lined
  <2> DEFINE a == Len(up[j - 1])
             Bi == Before(up, i)
             ei == Ends(up, i)
  <2>3. a \in Nat /\ Bi \in Nat /\ ei \in Nat /\ Bi < ei /\ ei <= a
    BY <1>1, <2>2 DEF Ends
  <2>4. Apart(j) \in {0, 1} /\ Before(up, j) = a + Apart(j)
    BY DEF Apart, Before
  <2> HIDE DEF a, Bi, ei
  <2>5. Bi < a + Apart(j)
    BY <2>3, <2>4
  <2> QED
    BY <2>4, <2>5 DEF Bi
<1>3. CASE i = Len(pairs)
  BY <1>2, <1>3 DEF Lined, Ends
<1>4. CASE i # Len(pairs)
  <2> DEFINE j == i + 1
  <2>1. j \in 1 .. Len(pairs) /\ j - 1 = i /\ j # 1
    BY <1>0, <1>4
  <2> HIDE DEF j
  <2>2. Apart(j) = 1 /\ Before(up, j) = Ends(up, i) + 1
    BY <2>1 DEF Apart, Before, Ends
  <2>3. line[Ends(up, i) + 1] = "&"
    <3>1. line[Len(up[j - 1]) + 1] = "&"
      BY <1>1, <2>1, <2>2 DEF Separated
    <3> QED
      BY <2>1, <3>1 DEF Ends
  <2>4. Ends(up, i) + 1 <= Len(line)
    <3> DEFINE x == Before(up, j)
               y == Ends(up, j)
    <3>1. x \in Nat /\ y \in Nat /\ Len(line) \in Nat /\ x < y /\ y <= Len(line)
      BY <1>1, <2>1
    <3> HIDE DEF x, y
    <3>2. x <= Len(line)
      BY <3>1
    <3> QED
      BY <2>2, <3>2 DEF x
  <2> QED
    BY <1>2, <2>3, <2>4
<1> QED
  BY <1>3, <1>4

\* What a CGI should find.
Typed(pairs, name, retLen) ==
  LET at == {i \in DOMAIN pairs : pairs[i].name = name} IN
  IF at = {} THEN F!NotFound
  ELSE LET v == pairs[F!Min(at)].value
       IN SubSeq(v, 1, IF Len(v) < retLen THEN Len(v) ELSE retLen)

LEMMA LeastIs ==
  ASSUME NEW S, NEW T \in SUBSET Nat, S = T, NEW n \in T, \A m \in T : n <= m
  PROVE  F!Min(S) = n
<1>1. ASSUME NEW x \in S, \A y \in S : x <= y PROVE x = n
  BY <1>1
<1> QED
  BY <1>1 DEF F!Min

LEMMA FindsTyped ==
  ASSUME NEW pairs \in FormPairs, NEW name \in Names, NEW retLen \in Nat
  PROVE  F!httpdFindArg(F!Line(pairs), name, retLen) = Typed(pairs, name, retLen)
<1> DEFINE line == F!Line(pairs)
           n == Len(pairs)
           at == {p \in F!FieldStarts(line) : F!FieldAt(line, p, name)}
           fields == {i \in 1 .. n : pairs[i].name = name}
<1>1. PICK up : Lined(pairs, up, line)
  BY LineGrows DEF Lined
<1>2. DOMAIN pairs = 1 .. n /\ n \in Nat
  BY LenProperties DEF FormPairs
<1> HIDE DEF line
<1>3. ASSUME NEW i \in 1 .. n
      PROVE  /\ F!FieldAt(line, Before(up, i) + 1, name) <=> i \in fields
             /\ Before(up, i) \in Nat
  <2>1. Laid(line, Before(up, i), pairs[i].name, F!Encoded(pairs[i].value), Ends(up, i))
    BY <1>1, FieldLaid
  <2>2. F!FieldAt(line, Before(up, i) + 1, name) <=> name = pairs[i].name
    BY <2>1, FieldAtName, NamesArePlain
  <2>3. Before(up, i) \in Nat
    BY <2>1 DEF Laid
  <2> QED
    BY <2>2, <2>3
<1>4. at = {Before(up, i) + 1 : i \in fields}
  <2>1. F!FieldStarts(line) = {Before(up, i) + 1 : i \in 1 .. n}
    BY <1>1, StartsAreFields
  <2> QED
    BY <1>3, <2>1
<1>5. CASE fields = {}
  <2>1. at = {}
    BY <1>4, <1>5
  <2>2. F!httpdFindArg(line, name, retLen) = F!NotFound
    BY <2>1 DEF F!httpdFindArg
  <2> QED
    BY <1>2, <1>5, <2>2 DEF Typed, line
<1>6. CASE fields # {}
  <2>1. fields \in SUBSET Nat
    BY <1>2
  <2>2. PICK i \in fields : \A j \in fields : i <= j
    BY <1>6, <2>1, LeastNumber
  <2>3. i \in 1 .. n /\ pairs[i].name = name
    OBVIOUS
  <2> DEFINE B == Before(up, i)
             v == pairs[i].value
             e == F!Encoded(v)
  <2>4. F!Min(fields) = i
    BY <2>1, <2>2, LeastIs
  <2>5. B + 1 \in at /\ at \in SUBSET Nat
    BY <1>3, <1>4
  <2>6. ASSUME NEW p \in at PROVE B + 1 <= p
    <3>1. PICK j \in fields : p = Before(up, j) + 1
      BY <1>4
    <3>2. j \in 1 .. n /\ (i = j \/ i < j)
      BY <1>2, <2>2
    <3>3. i < j => B < Before(up, j)
      BY <1>1, <2>3, <3>2, FieldsInOrder
    <3>4. B \in Nat /\ Before(up, j) \in Nat
      BY <1>3, <2>3, <3>2
    <3> QED
      BY <3>1, <3>2, <3>3, <3>4
  <2>7. F!Min(at) = B + 1
    <3> HIDE DEF at, B
    <3> QED
      BY <2>5, <2>6, LeastIs
  <2>8. Laid(line, B, name, e, Ends(up, i))
    BY <1>1, <2>3, FieldLaid
  <2>9. \/ Ends(up, i) = Len(line)
        \/ line[Ends(up, i) + 1] = "&" /\ Ends(up, i) + 1 <= Len(line)
    BY <1>1, <2>3, FieldsInOrder
  <2> DEFINE p == B + 1 + Len(name) + 1
  <2>10. SubSeq(line, p, F!AmpAt(line, p) - 1) = e
    <3> HIDE DEF B, e
    <3> QED
      BY <2>8, <2>9, ValueEnds
  <2>11. F!httpdFindArg(line, name, retLen) = F!httpdUrlDecode(e, retLen)
    <3>1. at # {} /\ F!Min(at) + Len(name) + 1 = p
      BY <2>5, <2>7
    <3> HIDE DEF p, e
    <3> QED
      BY <2>10, <3>1 DEF F!httpdFindArg
  <2>12. v \in Seq(Text)
    <3>1. pairs[i] \in [name : Names, value : Values]
      BY <2>3, ElementOfSeq DEF FormPairs
    <3> QED
      BY <3>1, ValuesAreText
  <2>13. F!httpdUrlDecode(e, retLen) = First(v, Len(v), retLen)
    BY <2>12, DecodesBack
  <2>14. Typed(pairs, name, retLen) = First(v, Len(v), retLen)
    BY <1>2, <1>6, <2>4 DEF Typed, First
  <2> QED
    BY <2>11, <2>13, <2>14 DEF line
<1> QED
  BY <1>5, <1>6

FormInv ==
  /\ form \in FormPairs /\ arg \in Names /\ room \in Nat
  /\ buff = F!Unread \/ buff = Typed(form, arg, room)

\* What a CGI finds for a name is what was typed into the first field of that
\* name, as much as has room: whatever the names, if they are plain, the
\* values, the forms and the room (libesphttpd/core/httpd.c:146-197).
THEOREM FieldsReadBack == FormSpec => []FieldReadsBack
<1>1. F!Init => FormInv
  <2> SUFFICES ASSUME F!Init PROVE FormInv
    OBVIOUS
  <2>1. PICK n \in 0 .. Pairs : form \in [1 .. n -> [name : Names, value : Values]]
    BY DEF F!Init
  <2>2. n \in Nat
    <3>1. Pairs \in Nat
      BY FormAssumption
    <3> QED
      BY <3>1
  <2>3. form \in FormPairs
    BY <2>1, <2>2, SeqDef DEF FormPairs
  <2> QED
    BY <2>3, FormAssumption DEF F!Init, FormInv
<1>2. FormInv /\ [F!Next]_formVars => FormInv'
  <2> SUFFICES ASSUME FormInv, [F!Next]_formVars PROVE FormInv'
    OBVIOUS
  <2>1. CASE F!Read
    <3>1. buff' = Typed(form, arg, room)
      BY <2>1, FindsTyped DEF F!Read, FormInv
    <3> QED
      BY <2>1, <3>1 DEF F!Read, FormInv
  <2>2. CASE UNCHANGED formVars
    BY <2>2 DEF formVars, FormInv
  <2>3. CASE F!HasRead
    BY <2>3 DEF F!HasRead, F!vars, FormInv
  <2> QED
    BY <2>1, <2>2, <2>3 DEF F!Next
<1>3. FormInv => FieldReadsBack
  BY DEF FormInv, Typed, FieldReadsBack, F!FieldReadsBack
<1> QED
  BY <1>1, <1>2, <1>3, PTL DEF FormSpec
=============================================================================
