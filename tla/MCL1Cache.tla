------------------------------ MODULE MCL1Cache ------------------------------
EXTENDS L1Cache
CONSTANTS t1, t2, t3, v1, v2

Ask(kind, t, s, b, write, v) ==
  [kind |-> kind, tag |-> t, set |-> s, beat |-> b, write |-> write, value |-> v]
Load(t, s, b) == Ask("cached", t, s, b, FALSE, v1)
Store(t, s, b) == Ask("cached", t, s, b, TRUE, v2)

(* Three lines of one set, two of them stored to, each in another beat.    *)
Evictions == {Ask("refused", t1, 0, 0, FALSE, v1), Ask("uncached", t1, 0, 0, FALSE, v1),
              Store(t1, 0, 0), Load(t1, 0, 0), Store(t2, 0, 1), Load(t2, 0, 1),
              Load(t3, 0, 0)}

(* A line stored to in each of two sets, for the scan.                     *)
Scans == {Store(t1, 0, 0), Store(t2, 1, 1), Load(t2, 0, 0)}
=============================================================================
