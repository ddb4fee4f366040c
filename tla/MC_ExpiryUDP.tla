---------------------------- MODULE MC_ExpiryUDP ----------------------------
EXTENDS ExpiryUDP

CONSTANTS c1, c2

MCClients == {c1, c2}
====
