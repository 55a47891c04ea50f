---------------------------- MODULE SnapshotTM ----------------------------
(***************************************************************************)
(* What src/353055 promises as a memory: a transaction sees the memory as  *)
(* it was when it began, and all its writes take effect at one timestamp   *)
(* or not at all.  Only the words it also WRITES are protected from other  *)
(* commits until then.  No locks, no versions, no filter.                  *)
(***************************************************************************)
EXTENDS Naturals

CONSTANTS Tx, Word, Data, InitData

VARIABLES
  now,      \* the last timestamp given out
  commits,  \* the committed update transactions: [ts, reads, writes]
  running,  \* the transactions that have begun and not yet ended
  snap,     \* per running transaction: the timestamp it reads at,
  seen,     \* what it has read, as [word, value],
  pend      \* and what it is about to write: a function on some words
svars == <<now, commits, running, snap, seen, pend>>

Init ==
  /\ now = 0 /\ commits = {} /\ running = {}
  /\ snap = [t \in Tx |-> 0]
  /\ seen = [t \in Tx |-> {}]
  /\ pend = [t \in Tx |-> <<>>]

\* What w held at timestamp n: the last commit to w up to n, or the zeros.
WritersUpTo(w, n) == {c \in commits : w \in DOMAIN c.writes /\ c.ts <= n}
LastWriter(w, n) ==
  CHOOSE c \in WritersUpTo(w, n) : \A d \in WritersUpTo(w, n) : d.ts <= c.ts
ValueAt(w, n) ==
  IF WritersUpTo(w, n) = {} THEN InitData ELSE LastWriter(w, n).writes[w]
TimestampAt(w, n) ==
  IF WritersUpTo(w, n) = {} THEN 0 ELSE LastWriter(w, n).ts

Begin(t) ==
  /\ t \notin running
  /\ running' = running \cup {t}
  /\ snap' = [snap EXCEPT ![t] = now]
  /\ UNCHANGED <<now, commits, seen, pend>>

Read(t, w) ==
  /\ t \in running /\ w \notin DOMAIN pend[t]
  /\ seen' = [seen EXCEPT ![t] =
       @ \cup {[word |-> w, value |-> ValueAt(w, snap[t])]}]
  /\ UNCHANGED <<now, commits, running, snap, pend>>

Write(t, w, d) ==
  /\ t \in running
  /\ pend' = [pend EXCEPT ![t] =
       [v \in DOMAIN @ \cup {w} |-> IF v = w THEN d ELSE @[v]]]
  /\ UNCHANGED <<now, commits, running, snap, seen>>

Forget(t) ==
  /\ running' = running \ {t}
  /\ snap' = [snap EXCEPT ![t] = 0]
  /\ seen' = [seen EXCEPT ![t] = {}]
  /\ pend' = [pend EXCEPT ![t] = <<>>]

\* Committed without writes, or aborted: no one else can tell.
End(t) == t \in running /\ Forget(t) /\ UNCHANGED <<now, commits>>

\* A timestamp is drawn, for a commit to come or for none.
Tick == now' = now + 1 /\ UNCHANGED <<commits, running, snap, seen, pend>>

SeenWords(t) == {o.word : o \in seen[t]}

\* Take effect at ts, after t's snapshot and perhaps before the present.
\* Nobody's past changes: the commits to a word come in the order of their
\* timestamps, no running transaction has read what t overwrites at a
\* timestamp it can see, and nobody wrote since snap[t] what t read and writes.
Commit(t, ts) ==
  /\ t \in running /\ DOMAIN pend[t] # {}
  /\ ts > snap[t] /\ \A c \in commits : c.ts # ts
  /\ \A c \in commits : c.ts > ts => DOMAIN c.writes \cap DOMAIN pend[t] = {}
  /\ \A u \in running \ {t} :
       snap[u] >= ts => SeenWords(u) \cap DOMAIN pend[t] = {}
  /\ \A c \in commits :
       c.ts > snap[t] => DOMAIN c.writes \cap DOMAIN pend[t] \cap SeenWords(t) = {}
  /\ commits' = commits \cup {[ts |-> ts, reads |-> seen[t], writes |-> pend[t]]}
  /\ Forget(t)

Next ==
  \/ Tick
  \/ \E t \in Tx :
       \/ Begin(t) \/ End(t)
       \/ \E w \in Word : Read(t, w)
       \/ \E w \in Word, d \in Data : Write(t, w, d)
       \/ now' \in {now, now + 1} /\ \E ts \in 1..now' : Commit(t, ts)

Spec == Init /\ [][Next]_svars
===========================================================================
