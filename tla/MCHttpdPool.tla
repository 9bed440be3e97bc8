---------------------------- MODULE MCHttpdPool ----------------------------
(* What the server keeps for several browsers (Browsing), one part of it at  *)
(* a time: the pool of connections with four sockets, two slots, and two     *)
(* ports at each of two addresses, so that all addresses and all ports are   *)
(* shared and reused; the lists of the Wi-Fi page with two browsers; and      *)
(* every form of two fields over the characters that have a meaning in one.  *)
EXTENDS Browsing, TLC

CONSTANTS s1, s2, s3, s4

MCSockets == {s1, s2, s3, s4}
MCScans == {<<>>, <<"n">>, <<"n", "m">>, <<"m", "n", "o">>}
Symmetry == Permutations(MCSockets)
MCNames == {<<"a">>, <<"a", "b">>, <<"b">>}
MCValues == UNION {[1 .. n -> {"b", "&", "=", "%", "+", " "}] : n \in 0 .. 2}
-----------------------------------------------------------------------------
\* Which of the three is looked at.
VARIABLE part

MCInit ==
  /\ part \in {"pool", "scan", "form"}
  /\ IF part = "form" THEN TRUE ELSE form = <<>> /\ arg = <<"a">> /\ room = 1
  /\ IF part = "pool" THEN TRUE ELSE peer = [s \in MCSockets |-> [ip |-> 1, port |-> 1]]
  /\ Init /\ W!Init /\ F!Init

\* Both browsers have had all their requests answered.
Served == W!AllServed /\ UNCHANGED scanVars

MCNext ==
  \/ part = "pool" /\ Next /\ UNCHANGED <<scanVars, formVars, part>>
  \/ part = "scan" /\ (W!Next \/ Served) /\ UNCHANGED <<vars, formVars, part>>
  \/ part = "form" /\ F!Next /\ UNCHANGED <<vars, scanVars, part>>

MCSpec == MCInit /\ [][MCNext]_<<vars, scanVars, formVars, part>>
=============================================================================
