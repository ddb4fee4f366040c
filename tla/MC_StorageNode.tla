--------------------------- MODULE MC_StorageNode ---------------------------
EXTENDS StorageNode, TLC

CONSTANTS th1, th2, s1, s2, t1, t2

MCOneThread == {th1}
MCTwoThreads == {th1, th2}
MCStyles == {s1, s2}
MCTiles == {t1, t2}
====
