----------------------------- MODULE MCNetwork -----------------------------
(* Network for TLC: two clients, one of which sends two packets.           *)
EXTENDS Network

CONSTANTS c1, c2

TwoClients == {c1, c2}
TwoSockets == {1, 2}
Two == [c \in TwoClients |-> IF c = c1 THEN 2 ELSE 0]
=============================================================================
