------------------------------ MODULE MCTL2 -------------------------------
(***************************************************************************)
(* Instances of TL2 for TLC: who the threads are and which calls they      *)
(* make.                                                                   *)
(***************************************************************************)
EXTENDS TL2

CONSTANTS t1, t2, x, y, u1, u2

Fill(v) == [u \in Unit |-> v]

\* What a thread may ask of the library.
Updater(rs, ws, vs) ==
  [modes |-> {FALSE}, reads |-> rs, writes |-> ws, stores |-> {Fill(v) : v \in vs}]

\* The bits of a word are those of its units; 2 has no zero byte, so that a word
\* full of it is hashed together with the next one, and y comes after x.
OwnBits(w, m) ==
  {m[w][u] : u \in Unit}
  \cup {m[y][u] : u \in {v \in Unit : w = x /\ m[x] = Fill(2)}}

\* Two writers of both words, each storing its own value.  The second reads both
\* as well and may run read-only transactions.
UpdateClient ==
  [t \in Tx |-> IF t = t1 THEN Updater({x}, {x, y}, {1})
                ELSE [Updater({x, y}, {x, y}, {2}) EXCEPT !.modes = BOOLEAN]]
===========================================================================
