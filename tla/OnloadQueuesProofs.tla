------------------------- MODULE OnloadQueuesProofs -------------------------
(***************************************************************************)
(* Proofs about the accept queue and the non-blocking packet pool of an    *)
(* Onload stack, for any number of threads, sockets and packets and any    *)
(* width of the counters.  Each part has its own inductive invariant; a    *)
(* step of the other part leaves it alone.                                 *)
(***************************************************************************)
EXTENDS OnloadQueues, TLAPS

-----------------------------------------------------------------------------
(* The accept queue *)

(* What a place in ci_tcp_acceptq_put, in ci_tcp_acceptq_get or in         *)
(* ci_tcp_acceptq_put_back_tail says of the lists and of the socket in     *)
(* hand, which is on no list.                                              *)
AccPlaces ==
  /\ acc_ppc = "cas" => w_in \in Socks /\ w_in \notin Acc!Queued \cup acc_held
  /\ gpc = "tail_cas" => w_out \in acc_held
  /\ gpc = "grab" => acceptq_get = ListEnd /\ acceptq_put # ListEnd
  /\ gpc = "reverse" <=> from # ListEnd
  /\ gpc = "take" => acceptq_get # ListEnd

(* The counters differ by what both threads have counted, and a number of  *)
(* times that one of them has wrapped.                                     *)
Congruent(n, x, c) == \E k \in Int : x = c + n * k
AccCounted == Congruent(CounterMod, acceptq_n_in - acceptq_n_out, Acc!Counted)

AccInv == Acc!TypeOK /\ Acc!Fifo /\ AccPlaces /\ AccCounted

(* Quotient and remainder are unique. *)
LEMMA Remainder ==
  ASSUME NEW n \in Nat \ {0}, NEW m \in Int, NEW x \in 0 .. n - 1
  PROVE  (n * m + x) % n = x
<1>1. PICK y \in Int : y = n * m + x
  OBVIOUS
<1>2. PICK q \in Int, r \in 0 .. n - 1 : y = n * q + r /\ r = y % n
  <2>1. y \div n \in Int /\ y % n \in 0 .. n - 1 /\ y = n * (y \div n) + (y % n)
    OBVIOUS
  <2> QED  BY <2>1
<1>3. n * m \in Int /\ n * q \in Int /\ n * m + x = n * q + r
  BY <1>1, <1>2
<1>4. ASSUME m > q PROVE FALSE
  <2>1. m - q - 1 \in Nat /\ n * (m - q - 1) >= 0
    BY <1>4
  <2>2. n * (m - q - 1) = n * m - n * q - n
    OBVIOUS
  <2> QED  BY <1>3, <2>1, <2>2
<1>5. ASSUME q > m PROVE FALSE
  <2>1. q - m - 1 \in Nat /\ n * (q - m - 1) >= 0
    BY <1>5
  <2>2. n * (q - m - 1) = n * q - n * m - n
    OBVIOUS
  <2> QED  BY <1>3, <2>1, <2>2
<1>6. m = q
  BY <1>4, <1>5
<1>7. r = x
  BY <1>3, <1>6
<1> QED  BY <1>1, <1>2, <1>7

(* Numbers that differ by a multiple of n have the same remainder. *)
LEMMA SameRemainder ==
  ASSUME NEW n \in Nat \ {0}, NEW m \in Int, NEW x \in Int
  PROVE  (x + n * m) % n = x % n
<1>1. PICK q \in Int, r \in 0 .. n - 1 : x = n * q + r /\ r = x % n
  <2>1. x \div n \in Int /\ x % n \in 0 .. n - 1 /\ x = n * (x \div n) + (x % n)
    OBVIOUS
  <2> QED  BY <2>1
<1>2. PICK p \in Int : p = q + m
  OBVIOUS
<1>3. n * p = n * q + n * m /\ n * q \in Int /\ n * m \in Int
  BY <1>2
<1>4. x + n * m = n * p + r
  <2>1. x = n * q + r
    BY <1>1
  <2> QED  BY <1>3, <2>1
<1>5. (n * p + r) % n = r
  BY Remainder
<1> QED  BY <1>1, <1>4, <1>5

(* A counter that wraps moves by one, give or take the modulus. *)
LEMMA CounterMoves ==
  ASSUME NEW n \in Nat \ {0}, NEW a \in 0 .. n - 1
  PROVE  /\ (a + 1) % n \in 0 .. n - 1 /\ (a - 1) % n \in 0 .. n - 1
         /\ (a + 1) % n = a + 1 \/ (a + 1) % n = a + 1 - n
         /\ (a - 1) % n = a - 1 \/ (a - 1) % n = a - 1 + n
<1>1. \A x \in 0 .. n - 1 : (n * 1 + x) % n = x /\ (n * 0 + x) % n = x /\ (n * (-1) + x) % n = x
  BY Remainder
<1>2. \A x \in 0 .. n - 1 : n * 1 + x = n + x /\ n * 0 + x = x /\ n * (-1) + x = x - n
  OBVIOUS
<1>3. \A x \in 0 .. n - 1 : (n + x) % n = x /\ x % n = x /\ (x - n) % n = x
  BY <1>1, <1>2
<1>4. CASE a = n - 1
  <2>1. a + 1 = n + 0 /\ 0 \in 0 .. n - 1
    BY <1>4
  <2> QED  BY <1>3, <1>4, <2>1
<1>5. CASE a # n - 1
  BY <1>3, <1>5
<1> QED  BY <1>4, <1>5
(* When one of two counters moves by one, their difference does, but for a *)
(* multiple of the modulus.                                                *)
LEMMA DifferenceMoves ==
  ASSUME NEW n \in Nat \ {0}, NEW a \in 0 .. n - 1, NEW b \in 0 .. n - 1, NEW c \in Int,
         Congruent(n, a - b, c)
  PROVE  /\ Congruent(n, ((a + 1) % n) - b, c + 1)
         /\ Congruent(n, a - ((b - 1) % n), c + 1)
         /\ Congruent(n, a - ((b + 1) % n), c - 1)
<1>m. PICK m \in Int : a - b = c + n * m
  BY DEF Congruent
<1>1. PICK p \in Int, q \in Int : p = m - 1 /\ q = m + 1
  OBVIOUS
<1>2. n * p = n * m - n /\ n * q = n * m + n /\ n * m \in Int
  BY <1>1
<1>c. \A u \in 0 .. n - 1 :
        /\ (u + 1) % n \in 0 .. n - 1 /\ (u - 1) % n \in 0 .. n - 1
        /\ (u + 1) % n = u + 1 \/ (u + 1) % n = u + 1 - n
        /\ (u - 1) % n = u - 1 \/ (u - 1) % n = u - 1 + n
  BY CounterMoves
<1>3. PICK x \in Int, y \in Int, z \in Int :
        x = (a + 1) % n /\ y = (b - 1) % n /\ z = (b + 1) % n
  <2>1. (a + 1) % n \in Int /\ (b - 1) % n \in Int /\ (b + 1) % n \in Int
    BY <1>c
  <2> QED  BY <2>1
<1>4. /\ x = a + 1 \/ x = a + 1 - n
      /\ y = b - 1 \/ y = b - 1 + n
      /\ z = b + 1 \/ z = b + 1 - n
  BY <1>c, <1>3
<1>5. /\ x - b = c + 1 + n * m \/ x - b = c + 1 + n * p
      /\ a - y = c + 1 + n * m \/ a - y = c + 1 + n * p
      /\ a - z = c - 1 + n * m \/ a - z = c - 1 + n * q
  BY <1>m, <1>2, <1>4
<1>6. Congruent(n, x - b, c + 1) /\ Congruent(n, a - y, c + 1) /\ Congruent(n, a - z, c - 1)
  BY <1>5, Zenon DEF Congruent
<1> QED  BY <1>3, <1>6

(* The link of a socket that is not queued may be written. *)
LEMMA LinkOffQueue ==
  ASSUME Acc!TypeOK, Acc!Fifo, NEW w \in Socks, w \notin Acc!Queued, NEW x,
         wt_next' = [wt_next EXCEPT ![w] = x],
         UNCHANGED <<acceptq_put, acceptq_get, from, queue, acc_held>>
  PROVE  Acc!Fifo' /\ Acc!Queued' = Acc!Queued
<1>t. wt_next \in [Socks -> Acc!SockOrNull] /\ queue \in Seq(Socks)
  BY DEF Acc!TypeOK
<1>1. PICK i \in 0 .. Len(queue), j \in 0 .. Len(queue) : Acc!SharedOut(i, j)
  BY DEF Acc!Fifo
<1>2. \A k \in 1 .. Len(queue) : wt_next'[queue[k]] = wt_next[queue[k]]
  BY <1>t DEF Acc!Queued
<1>3. Acc!SharedOut(i, j)'
  BY <1>t, <1>1, <1>2 DEF Acc!SharedOut, Acc!YoungestFirst, Acc!OldestFirst
<1>4. Acc!Queued' = Acc!Queued
  BY DEF Acc!Queued
<1> QED  BY <1>3, <1>4 DEF Acc!Fifo

(* The swap that puts a socket at the head of the put list appends it to   *)
(* the queue.                                                              *)
LEMMA Appended ==
  ASSUME Acc!TypeOK, Acc!Fifo, NEW w \in Socks, w \notin Acc!Queued,
         wt_next[w] = acceptq_put, acceptq_put' = w, queue' = Append(queue, w),
         UNCHANGED <<acceptq_get, from, wt_next>>, acc_held' \subseteq acc_held \ {w}
  PROVE  Acc!Fifo' /\ Acc!Queued' = Acc!Queued \cup {w}
<1>t. wt_next \in [Socks -> Acc!SockOrNull] /\ queue \in Seq(Socks) /\ Len(queue) \in Nat
  BY DEF Acc!TypeOK
<1>1. PICK i \in 0 .. Len(queue), j \in 0 .. Len(queue) : Acc!SharedOut(i, j)
  BY DEF Acc!Fifo
<1>2. /\ Len(queue') = Len(queue) + 1 /\ queue'[Len(queue) + 1] = w
      /\ \A k \in 1 .. Len(queue) : queue'[k] = queue[k]
  BY <1>t
<1>3. Acc!SharedOut(i, j)'
  <2>1. Acc!YoungestFirst(from, 1, i)'
    BY <1>t, <1>1, <1>2 DEF Acc!SharedOut, Acc!YoungestFirst
  <2>2. Acc!OldestFirst(acceptq_get, i + 1, j)'
    BY <1>t, <1>1, <1>2 DEF Acc!SharedOut, Acc!OldestFirst
  <2>3. Acc!YoungestFirst(acceptq_put, j + 1, Len(queue))'
    BY <1>t, <1>1, <1>2 DEF Acc!SharedOut, Acc!YoungestFirst
  <2> QED  BY <1>1, <2>1, <2>2, <2>3 DEF Acc!SharedOut
<1>4. Acc!Queued' = Acc!Queued \cup {w}
  BY <1>t, <1>2 DEF Acc!Queued
<1>5. \A k, l \in 1 .. Len(queue') : queue'[k] = queue'[l] => k = l
  BY <1>t, <1>2 DEF Acc!Fifo, Acc!Queued
<1>6. i \in 0 .. Len(queue') /\ j \in 0 .. Len(queue')
  BY <1>t, <1>2
<1>7. Acc!Queued' \cap acc_held' = {}
  BY <1>4 DEF Acc!Fifo
<1>8. \E k, l \in 0 .. Len(queue') : Acc!SharedOut(k, l)'
  BY <1>3, <1>6
<1> QED  BY <1>4, <1>5, <1>7, <1>8, Zenon DEF Acc!Fifo

(* Steps that leave the lists alone. *)
LEMMA FifoStays ==
  ASSUME Acc!Fifo, UNCHANGED <<acceptq_put, acceptq_get, from, queue, wt_next>>,
         acc_held' \subseteq acc_held
  PROVE  Acc!Fifo' /\ Acc!Queued' = Acc!Queued
<1>1. Acc!Queued' = Acc!Queued
  BY DEF Acc!Queued
<1>2. ASSUME NEW i, NEW j, Acc!SharedOut(i, j) PROVE Acc!SharedOut(i, j)'
  BY <1>2 DEF Acc!SharedOut, Acc!YoungestFirst, Acc!OldestFirst
<1>3. (\E i, j \in 0 .. Len(queue) : Acc!SharedOut(i, j))'
  BY <1>2 DEF Acc!Fifo
<1>4. Acc!Queued' \cap acc_held' = {}
  BY <1>1 DEF Acc!Fifo
<1> QED  BY <1>1, <1>3, <1>4 DEF Acc!Fifo

(* Steps that leave both counters and what is counted alone. *)
LEMMA CountStays ==
  ASSUME AccCounted, Acc!Counted' = Acc!Counted, UNCHANGED <<acceptq_n_in, acceptq_n_out>>
  PROVE  AccCounted'
  BY DEF AccCounted

(* Steps that count a connection in or out. *)
LEMMA CountSteps ==
  ASSUME CounterMod \in Nat \ {0}, Acc!TypeOK, AccCounted,
         \/ /\ acceptq_n_in' = (acceptq_n_in + 1) % CounterMod /\ acceptq_n_out' = acceptq_n_out
            /\ Acc!Counted' = Acc!Counted + 1
         \/ /\ acceptq_n_out' = (acceptq_n_out - 1) % CounterMod /\ acceptq_n_in' = acceptq_n_in
            /\ Acc!Counted' = Acc!Counted + 1
         \/ /\ acceptq_n_out' = (acceptq_n_out + 1) % CounterMod /\ acceptq_n_in' = acceptq_n_in
            /\ Acc!Counted' = Acc!Counted - 1
  PROVE  /\ AccCounted'
         /\ acceptq_n_in' \in 0 .. CounterMod - 1 /\ acceptq_n_out' \in 0 .. CounterMod - 1
<1>t. acceptq_n_in \in 0 .. CounterMod - 1 /\ acceptq_n_out \in 0 .. CounterMod - 1
  BY DEF Acc!TypeOK
<1>1. PICK c \in Int : c = Acc!Counted
  <2>1. Len(queue) \in Nat
    BY DEF Acc!TypeOK
  <2>2. Acc!Counted \in Int
    BY <2>1 DEF Acc!Counted
  <2> QED  BY <2>2
<1>2. PICK a \in 0 .. CounterMod - 1, b \in 0 .. CounterMod - 1 :
        a = acceptq_n_in /\ b = acceptq_n_out
  BY <1>t
<1>3. Congruent(CounterMod, a - b, c)
  BY <1>1, <1>2 DEF AccCounted
<1>4. /\ Congruent(CounterMod, ((a + 1) % CounterMod) - b, c + 1)
      /\ Congruent(CounterMod, a - ((b - 1) % CounterMod), c + 1)
      /\ Congruent(CounterMod, a - ((b + 1) % CounterMod), c - 1)
  BY <1>3, DifferenceMoves, Zenon
<1>5. AccCounted'
  BY <1>1, <1>2, <1>4 DEF AccCounted
<1>6. \A u \in 0 .. CounterMod - 1 :
        (u + 1) % CounterMod \in 0 .. CounterMod - 1 /\ (u - 1) % CounterMod \in 0 .. CounterMod - 1
  BY CounterMoves
<1> QED  BY <1>t, <1>5, <1>6

(* ci_tcp_acceptq_put *)
LEMMA PutSteps ==
  ASSUME CounterMod \in Nat \ {0}, ListEnd \notin Socks, AccInv,
         (\E w \in Socks : Acc!PutLink(w)) \/ Acc!PutCas \/ Acc!PutCount
  PROVE  AccInv'
<1>t. /\ acceptq_put \in Acc!SockOrNull /\ wt_next \in [Socks -> Acc!SockOrNull]
      /\ queue \in Seq(Socks) /\ Len(queue) \in Nat
      /\ Acc!TypeOK /\ Acc!Fifo /\ AccPlaces /\ AccCounted
  BY DEF AccInv, Acc!TypeOK
<1>1. ASSUME NEW w \in Socks, Acc!PutLink(w) PROVE AccInv'
  <2>1. /\ acc_ppc = "idle" /\ w \notin Acc!Queued \cup acc_held
        /\ acc_ppc' = "cas" /\ w_in' = w /\ wt_next' = [wt_next EXCEPT ![w] = acceptq_put]
        /\ UNCHANGED <<acceptq_put, acceptq_get, acceptq_n_in, acceptq_n_out>>
        /\ UNCHANGED <<gpc, from, w_out, op, acc_held, queue>>
    BY <1>1 DEF Acc!PutLink, Acc!lists, Acc!counts, Acc!getter
  <2>2. Acc!TypeOK'
    BY <1>t, <2>1 DEF Acc!TypeOK, Acc!SockOrNull
  <2>3. Acc!Fifo' /\ Acc!Queued' = Acc!Queued
    BY <1>t, <2>1, LinkOffQueue, Zenon
  <2>4. AccPlaces'
    BY <1>t, <2>1, <2>3 DEF AccPlaces
  <2>5. AccCounted'
    BY <1>t, <2>1, CountStays DEF Acc!Counted
  <2> QED  BY <2>2, <2>3, <2>4, <2>5 DEF AccInv
<1>2. ASSUME Acc!PutCas, acceptq_put = wt_next[w_in] PROVE AccInv'
  <2>1. /\ acc_ppc = "cas" /\ acc_ppc' = "count" /\ acceptq_put' = w_in
        /\ queue' = Append(queue, w_in)
        /\ UNCHANGED <<wt_next, acceptq_get, acceptq_n_in, acceptq_n_out, w_in>>
        /\ UNCHANGED <<gpc, from, w_out, op, acc_held>>
    BY <1>2 DEF Acc!PutCas, Acc!counts, Acc!getter
  <2>2. w_in \in Socks /\ w_in \notin Acc!Queued /\ w_in \notin acc_held
    BY <1>t, <2>1 DEF AccPlaces
  <2>3. Acc!TypeOK'
    BY <1>t, <2>1, <2>2 DEF Acc!TypeOK, Acc!SockOrNull
  <2>4. Acc!Fifo'
    BY <1>t, <1>2, <2>1, <2>2, Appended
  <2>5. AccPlaces'
    BY <1>t, <2>1, <2>2 DEF AccPlaces
  <2>6. Acc!Counted' = Acc!Counted
    <3>1. Len(queue') = Len(queue) + 1
      BY <1>t, <2>1, <2>2
    <3> QED  BY <1>t, <2>1, <3>1 DEF Acc!Counted
  <2> QED  BY <1>t, <2>1, <2>3, <2>4, <2>5, <2>6, CountStays DEF AccInv
<1>3. ASSUME Acc!PutCas, acceptq_put # wt_next[w_in] PROVE AccInv'
  <2>1. /\ acc_ppc = "cas" /\ wt_next' = [wt_next EXCEPT ![w_in] = acceptq_put]
        /\ UNCHANGED <<acc_ppc, acceptq_put, queue, acceptq_get, acceptq_n_in, acceptq_n_out, w_in>>
        /\ UNCHANGED <<gpc, from, w_out, op, acc_held>>
    BY <1>3 DEF Acc!PutCas, Acc!counts, Acc!getter
  <2>2. w_in \in Socks /\ w_in \notin Acc!Queued
    BY <1>t, <2>1 DEF AccPlaces
  <2>3. Acc!TypeOK'
    BY <1>t, <2>1, <2>2 DEF Acc!TypeOK, Acc!SockOrNull
  <2>4. Acc!Fifo' /\ Acc!Queued' = Acc!Queued
    BY <1>t, <2>1, <2>2, LinkOffQueue, Zenon
  <2>5. AccPlaces'
    BY <1>t, <2>1, <2>4 DEF AccPlaces
  <2>6. AccCounted'
    BY <1>t, <2>1, CountStays DEF Acc!Counted
  <2> QED  BY <2>3, <2>4, <2>5, <2>6 DEF AccInv
<1>4. ASSUME Acc!PutCount PROVE AccInv'
  <2>1. /\ acc_ppc = "count" /\ acc_ppc' = "idle" /\ w_in' = ListEnd
        /\ acceptq_n_in' = (acceptq_n_in + 1) % CounterMod
        /\ UNCHANGED <<acceptq_put, acceptq_get, wt_next, acceptq_n_out>>
        /\ UNCHANGED <<gpc, from, w_out, op, acc_held, queue>>
    BY <1>4 DEF Acc!PutCount, Acc!lists, Acc!getter
  <2>2. Acc!Counted' = Acc!Counted + 1
    BY <1>t, <2>1 DEF Acc!Counted
  <2>3. AccCounted' /\ acceptq_n_in' \in 0 .. CounterMod - 1
    BY <1>t, <2>1, <2>2, CountSteps
  <2>4. Acc!TypeOK'
    BY <1>t, <2>1, <2>3 DEF Acc!TypeOK, Acc!SockOrNull
  <2>5. Acc!Fifo' /\ Acc!Queued' = Acc!Queued
    BY <1>t, <2>1, FifoStays
  <2>6. AccPlaces'
    BY <1>t, <2>1, <2>5 DEF AccPlaces
  <2> QED  BY <2>3, <2>4, <2>5, <2>6 DEF AccInv
<1> QED  BY <1>1, <1>2, <1>3, <1>4

(* An empty list holds no connection. *)
LEMMA ListEnds ==
  ASSUME CounterMod \in Nat \ {0}, ListEnd \notin Socks, queue \in Seq(Socks),
         NEW w, NEW lo \in 1 .. Len(queue) + 1, NEW hi \in 0 .. Len(queue), lo <= hi + 1
  PROVE  /\ Acc!YoungestFirst(w, lo, hi) => (w = ListEnd <=> lo > hi) /\ (w # ListEnd => w = queue[hi])
         /\ Acc!OldestFirst(w, lo, hi) => (w = ListEnd <=> lo > hi) /\ (w # ListEnd => w = queue[lo])
<1>1. Len(queue) \in Nat /\ \A k \in 1 .. Len(queue) : queue[k] \in Socks /\ queue[k] # ListEnd
  OBVIOUS
<1> QED  BY <1>1 DEF Acc!YoungestFirst, Acc!OldestFirst

(* The start of ci_tcp_acceptq_get and of ci_tcp_acceptq_peek *)
LEMMA GetStep ==
  ASSUME CounterMod \in Nat \ {0}, AccInv, Acc!Get
  PROVE  AccInv'
<1>t. /\ queue \in Seq(Socks) /\ Len(queue) \in Nat
      /\ Acc!TypeOK /\ Acc!Fifo /\ AccPlaces /\ AccCounted
  BY DEF AccInv, Acc!TypeOK
<1>1. /\ gpc = "idle" /\ (acceptq_put # ListEnd \/ acceptq_get # ListEnd)
      /\ op' \in {"get", "peek"}
      /\ acceptq_n_out' = IF op' = "get" THEN (acceptq_n_out + 1) % CounterMod ELSE acceptq_n_out
      /\ gpc' = IF acceptq_get = ListEnd THEN "grab" ELSE "take"
      /\ UNCHANGED <<acceptq_put, acceptq_get, wt_next, acceptq_n_in, acc_ppc, w_in>>
      /\ UNCHANGED <<from, w_out, acc_held, queue>>
  BY DEF Acc!Get, Acc!NotEmpty, Acc!lists, Acc!putter
<1>2. Acc!Fifo' /\ Acc!Queued' = Acc!Queued
  BY <1>t, <1>1, FifoStays
<1>3. AccPlaces'
  BY <1>t, <1>1, <1>2 DEF AccPlaces
<1>4. AccCounted' /\ acceptq_n_out' \in 0 .. CounterMod - 1
  <2>1. CASE op' = "get"
    <3>1. Acc!Counted' = Acc!Counted - 1
      BY <1>t, <1>1, <2>1 DEF Acc!Counted
    <3>2. acceptq_n_out' = (acceptq_n_out + 1) % CounterMod /\ acceptq_n_in' = acceptq_n_in
      BY <1>1, <2>1
    <3> QED  BY <1>t, <3>1, <3>2, CountSteps
  <2>2. CASE op' = "peek"
    <3>1. Acc!Counted' = Acc!Counted
      BY <1>t, <1>1, <2>2 DEF Acc!Counted
    <3>2. acceptq_n_out' = acceptq_n_out /\ acceptq_n_in' = acceptq_n_in
      BY <1>1, <2>2
    <3>3. acceptq_n_out \in 0 .. CounterMod - 1
      BY <1>t DEF Acc!TypeOK
    <3> QED  BY <1>t, <3>1, <3>2, <3>3, CountStays
  <2> QED  BY <1>1, <2>1, <2>2
<1>5. Acc!TypeOK'
  BY <1>t, <1>1, <1>4 DEF Acc!TypeOK, Acc!SockOrNull
<1> QED  BY <1>2, <1>3, <1>4, <1>5 DEF AccInv

(* ci_tcp_acceptq_get_swizzle grabs the put list: the whole queue is then  *)
(* in the list to be reversed.                                             *)
LEMMA GrabStep ==
  ASSUME CounterMod \in Nat \ {0}, ListEnd \notin Socks, AccInv, Acc!Grab
  PROVE  AccInv'
<1>t. /\ queue \in Seq(Socks) /\ Len(queue) \in Nat
      /\ Acc!TypeOK /\ Acc!Fifo /\ AccPlaces /\ AccCounted
  BY DEF AccInv, Acc!TypeOK
<1>1. /\ gpc = "grab" /\ gpc' = "reverse" /\ from' = acceptq_put /\ acceptq_put' = ListEnd
      /\ UNCHANGED <<acceptq_get, wt_next, acceptq_n_in, acceptq_n_out, acc_ppc, w_in>>
      /\ UNCHANGED <<w_out, op, acc_held, queue>>
  BY DEF Acc!Grab, Acc!counts, Acc!putter
<1>2. from = ListEnd /\ acceptq_get = ListEnd /\ acceptq_put # ListEnd
  BY <1>t, <1>1 DEF AccPlaces
<1>3. PICK i \in 0 .. Len(queue), j \in 0 .. Len(queue) : Acc!SharedOut(i, j)
  BY <1>t DEF Acc!Fifo
<1>4. i = 0 /\ j = 0
  <2>1. i <= j /\ Acc!YoungestFirst(from, 1, i) /\ Acc!OldestFirst(acceptq_get, i + 1, j)
    BY <1>3 DEF Acc!SharedOut
  <2>2. i = 0
    BY <1>t, <1>2, <2>1, ListEnds
  <2> QED  BY <1>t, <1>2, <2>1, <2>2, ListEnds
<1>5. Acc!YoungestFirst(acceptq_put, 1, Len(queue))
  BY <1>3, <1>4 DEF Acc!SharedOut
<1>6. PICK n \in 0 .. Len(queue) : n = Len(queue)
  BY <1>t
<1>7. Acc!SharedOut(n, n)'
  BY <1>t, <1>1, <1>2, <1>5, <1>6 DEF Acc!SharedOut, Acc!YoungestFirst, Acc!OldestFirst
<1>8. Acc!Queued' = Acc!Queued
  BY <1>1 DEF Acc!Queued
<1>9. Acc!Fifo'
  BY <1>t, <1>1, <1>7, <1>8 DEF Acc!Fifo
<1>10. AccPlaces'
  BY <1>t, <1>1, <1>2, <1>8 DEF AccPlaces
<1>11. AccCounted'
  BY <1>t, <1>1, CountStays DEF Acc!Counted
<1>12. Acc!TypeOK'
  BY <1>t, <1>1 DEF Acc!TypeOK, Acc!SockOrNull
<1> QED  BY <1>9, <1>10, <1>11, <1>12 DEF AccInv

(* One round of its loop: the first socket of the list, the youngest left  *)
(* in it, becomes the first of the get list.                               *)
LEMMA ReverseStep ==
  ASSUME CounterMod \in Nat \ {0}, ListEnd \notin Socks, AccInv, Acc!Reverse1
  PROVE  AccInv'
<1>t. /\ queue \in Seq(Socks) /\ Len(queue) \in Nat /\ wt_next \in [Socks -> Acc!SockOrNull]
      /\ Acc!TypeOK /\ Acc!Fifo /\ AccPlaces /\ AccCounted
      /\ \A k \in 1 .. Len(queue) : queue[k] \in Socks
  BY DEF AccInv, Acc!TypeOK
<1>1. /\ gpc = "reverse" /\ from' = wt_next[from] /\ wt_next' = [wt_next EXCEPT ![from] = acceptq_get]
      /\ acceptq_get' = from /\ gpc' = IF from' = ListEnd THEN "take" ELSE "reverse"
      /\ UNCHANGED <<acceptq_put, acceptq_n_in, acceptq_n_out, acc_ppc, w_in>>
      /\ UNCHANGED <<w_out, op, acc_held, queue>>
  BY DEF Acc!Reverse1, Acc!counts, Acc!putter
<1>2. from # ListEnd
  BY <1>t, <1>1 DEF AccPlaces
<1>3. PICK i \in 0 .. Len(queue), j \in 0 .. Len(queue) : Acc!SharedOut(i, j)
  BY <1>t DEF Acc!Fifo
<1>s. /\ i <= j /\ Acc!YoungestFirst(from, 1, i) /\ Acc!OldestFirst(acceptq_get, i + 1, j)
      /\ Acc!YoungestFirst(acceptq_put, j + 1, Len(queue))
  BY <1>3 DEF Acc!SharedOut
<1>4. i \in 1 .. Len(queue) /\ from = queue[i] /\ from \in Socks
  BY <1>t, <1>2, <1>s, ListEnds
<1>5. \A k \in 1 .. Len(queue) : k # i => wt_next'[queue[k]] = wt_next[queue[k]]
  BY <1>t, <1>1, <1>4 DEF Acc!Fifo
<1>6. wt_next'[queue[i]] = acceptq_get /\ wt_next' \in [Socks -> Acc!SockOrNull]
  BY <1>t, <1>1, <1>4 DEF Acc!TypeOK
<1>7. PICK h \in 0 .. Len(queue) : h = i - 1
  BY <1>t, <1>4
<1>8. Acc!SharedOut(h, j)'
  <2>1. Acc!YoungestFirst(from, 1, h)'
    BY <1>t, <1>1, <1>s, <1>4, <1>5, <1>7 DEF Acc!YoungestFirst
  <2>2. Acc!OldestFirst(acceptq_get, i, j)'
    <3>1. wt_next'[queue[i]] = IF i = j THEN ListEnd ELSE queue[i + 1]
      BY <1>s, <1>4, <1>6 DEF Acc!OldestFirst
    <3>2. \A k \in i + 1 .. j : wt_next'[queue[k]] = IF k = j THEN ListEnd ELSE queue[k + 1]
      BY <1>t, <1>s, <1>4, <1>5 DEF Acc!OldestFirst
    <3> QED  BY <1>1, <1>s, <1>4, <3>1, <3>2 DEF Acc!OldestFirst
  <2>3. Acc!YoungestFirst(acceptq_put, j + 1, Len(queue))'
    BY <1>t, <1>1, <1>s, <1>4, <1>5 DEF Acc!YoungestFirst
  <2>4. h <= j /\ h + 1 = i
    BY <1>s, <1>7, <1>4
  <2> QED  BY <1>1, <2>1, <2>2, <2>3, <2>4 DEF Acc!SharedOut
<1>9. Acc!Queued' = Acc!Queued
  BY <1>1 DEF Acc!Queued
<1>10. Acc!Fifo'
  BY <1>t, <1>1, <1>8, <1>9 DEF Acc!Fifo
<1>11. AccPlaces'
  BY <1>t, <1>1, <1>2, <1>9 DEF AccPlaces
<1>12. AccCounted'
  BY <1>t, <1>1, CountStays DEF Acc!Counted
<1>13. Acc!TypeOK'
  BY <1>t, <1>1, <1>4, <1>6 DEF Acc!TypeOK, Acc!SockOrNull
<1> QED  BY <1>10, <1>11, <1>12, <1>13 DEF AccInv

(* ci_tcp_acceptq_get unlinks the first socket of the get list, the oldest *)
(* of the queue.                                                           *)
LEMMA TakeStep ==
  ASSUME CounterMod \in Nat \ {0}, ListEnd \notin Socks, AccInv, Acc!Take
  PROVE  AccInv'
<1>t. /\ queue \in Seq(Socks) /\ Len(queue) \in Nat /\ wt_next \in [Socks -> Acc!SockOrNull]
      /\ Acc!TypeOK /\ Acc!Fifo /\ AccPlaces /\ AccCounted
      /\ \A k \in 1 .. Len(queue) : queue[k] \in Socks
  BY DEF AccInv, Acc!TypeOK
<1>1. /\ gpc = "take" /\ gpc' = "idle"
      /\ UNCHANGED <<acceptq_put, acceptq_n_in, acceptq_n_out, acc_ppc, w_in, from, w_out, op>>
  BY DEF Acc!Take, Acc!counts, Acc!putter
<1>2. CASE op # "get"
  <2>1. UNCHANGED <<acceptq_get, wt_next, acc_held, queue>>
    BY <1>2 DEF Acc!Take
  <2>2. Acc!Fifo' /\ Acc!Queued' = Acc!Queued
    BY <1>t, <1>1, <2>1, FifoStays
  <2>3. AccPlaces'
    BY <1>t, <1>1, <2>1, <2>2 DEF AccPlaces
  <2>4. AccCounted'
    BY <1>t, <1>1, <1>2, <2>1, CountStays DEF Acc!Counted
  <2>5. Acc!TypeOK'
    BY <1>t, <1>1, <2>1 DEF Acc!TypeOK, Acc!SockOrNull
  <2> QED  BY <2>2, <2>3, <2>4, <2>5 DEF AccInv
<1>3. CASE op = "get"
  <2>1. /\ acceptq_get' = wt_next[acceptq_get] /\ wt_next' = [wt_next EXCEPT ![acceptq_get] = ListEnd]
        /\ acc_held' = acc_held \cup {acceptq_get} /\ queue' = Tail(queue)
    BY <1>3 DEF Acc!Take
  <2>2. from = ListEnd /\ acceptq_get # ListEnd
    BY <1>t, <1>1 DEF AccPlaces
  <2>3. PICK i \in 0 .. Len(queue), j \in 0 .. Len(queue) : Acc!SharedOut(i, j)
    BY <1>t DEF Acc!Fifo
  <2>s. /\ i <= j /\ Acc!YoungestFirst(from, 1, i) /\ Acc!OldestFirst(acceptq_get, i + 1, j)
        /\ Acc!YoungestFirst(acceptq_put, j + 1, Len(queue))
    BY <2>3 DEF Acc!SharedOut
  <2>4. i = 0
    BY <1>t, <2>2, <2>s, ListEnds
  <2>5. j >= 1 /\ acceptq_get = queue[1] /\ acceptq_get \in Socks
    BY <1>t, <2>2, <2>s, <2>4, ListEnds
  <2>6. /\ queue' \in Seq(Socks) /\ Len(queue') = Len(queue) - 1
        /\ \A k \in 1 .. Len(queue) - 1 : queue'[k] = queue[k + 1]
    BY <1>t, <2>1, <2>5
  <2>7. \A k \in 2 .. Len(queue) : wt_next'[queue[k]] = wt_next[queue[k]]
    BY <1>t, <2>1, <2>5 DEF Acc!Fifo
  <2>8. PICK h \in 0 .. Len(queue') : h = j - 1
    BY <1>t, <2>5, <2>6
  <2>9. Acc!SharedOut(0, h)'
    <3>1. Acc!YoungestFirst(from, 1, 0)'
      BY <1>1, <2>2 DEF Acc!YoungestFirst
    <3>2. Acc!OldestFirst(acceptq_get, 1, h)'
      <4>1. ASSUME NEW k \in 1 .. h PROVE wt_next'[queue'[k]] = IF k = h THEN ListEnd ELSE queue'[k + 1]
        <5>1. PICK l \in 2 .. j : l = k + 1
          BY <2>8
        <5>2. wt_next[queue[l]] = IF l = j THEN ListEnd ELSE queue[l + 1]
          BY <2>s, <2>4 DEF Acc!OldestFirst
        <5>3. queue'[k] = queue[l] /\ (k # h => queue'[k + 1] = queue[l + 1])
          BY <1>t, <2>6, <2>8, <5>1
        <5> QED  BY <1>t, <2>7, <2>8, <5>1, <5>2, <5>3
      <4>2. acceptq_get' = IF 1 > h THEN ListEnd ELSE queue'[1]
        BY <1>t, <2>1, <2>s, <2>4, <2>5, <2>6, <2>8 DEF Acc!OldestFirst
      <4> QED  BY <4>1, <4>2 DEF Acc!OldestFirst
    <3>3. Acc!YoungestFirst(acceptq_put, h + 1, Len(queue))'
      <4>1. ASSUME NEW k \in h + 1 .. Len(queue')
            PROVE  wt_next'[queue'[k]] = IF k = h + 1 THEN ListEnd ELSE queue'[k - 1]
        <5>1. PICK l \in j + 1 .. Len(queue) : l = k + 1
          BY <1>t, <2>6, <2>8
        <5>2. wt_next[queue[l]] = IF l = j + 1 THEN ListEnd ELSE queue[l - 1]
          BY <2>s DEF Acc!YoungestFirst
        <5>3. queue'[k] = queue[l] /\ (k # h + 1 => queue'[k - 1] = queue[l - 1])
          BY <1>t, <2>5, <2>6, <2>8, <5>1
        <5> QED  BY <1>t, <2>5, <2>7, <2>8, <5>1, <5>2, <5>3
      <4>2. acceptq_put' = IF h + 1 > Len(queue') THEN ListEnd ELSE queue'[Len(queue')]
        BY <1>t, <1>1, <2>s, <2>5, <2>6, <2>8 DEF Acc!YoungestFirst
      <4> QED  BY <4>1, <4>2 DEF Acc!YoungestFirst
    <3>4. 0 <= h /\ 0 + 1 = 1
      OBVIOUS
    <3> QED  BY <3>1, <3>2, <3>3, <3>4 DEF Acc!SharedOut
  <2>10. ASSUME NEW k \in 1 .. Len(queue'), NEW l \in 1 .. Len(queue'), queue'[k] = queue'[l]
         PROVE  k = l
    <3>1. queue[k + 1] = queue[l + 1] /\ k + 1 \in 1 .. Len(queue) /\ l + 1 \in 1 .. Len(queue)
      BY <1>t, <2>6, <2>10
    <3>2. k + 1 = l + 1
      BY <1>t, <3>1 DEF Acc!Fifo
    <3> QED  BY <1>t, <2>6, <3>2
  <2>11. Acc!Queued' \subseteq Acc!Queued \ {acceptq_get} /\ acceptq_get \in Acc!Queued
    BY <1>t, <2>5, <2>6 DEF Acc!Fifo, Acc!Queued
  <2>12. Acc!Fifo'
    <3>1. \E k, l \in 0 .. Len(queue') : Acc!SharedOut(k, l)'
      BY <2>8, <2>9
    <3>2. Acc!Queued' \cap acc_held' = {}
      BY <1>t, <2>1, <2>11 DEF Acc!Fifo
    <3> QED  BY <2>10, <3>1, <3>2 DEF Acc!Fifo
  <2>13. AccPlaces'
    BY <1>t, <1>1, <2>1, <2>2, <2>11, Zenon DEF AccPlaces
  <2>14. Acc!Counted' = Acc!Counted
    BY <1>t, <1>1, <1>3, <2>6 DEF Acc!Counted
  <2>15. AccCounted'
    BY <1>t, <1>1, <2>14, CountStays, Zenon
  <2>16. Acc!TypeOK'
    BY <1>t, <1>1, <2>1, <2>5, <2>6 DEF Acc!TypeOK, Acc!SockOrNull
  <2> QED  BY <2>12, <2>13, <2>15, <2>16 DEF AccInv
<1> QED  BY <1>2, <1>3

(* ci_tcp_acceptq_put_back: the socket becomes the oldest again. *)
LEMMA PutBackStep ==
  ASSUME CounterMod \in Nat \ {0}, ListEnd \notin Socks, AccInv, NEW w \in Socks, Acc!PutBack(w)
  PROVE  AccInv'
<1>t. /\ queue \in Seq(Socks) /\ Len(queue) \in Nat /\ wt_next \in [Socks -> Acc!SockOrNull]
      /\ Acc!TypeOK /\ Acc!Fifo /\ AccPlaces /\ AccCounted
      /\ \A k \in 1 .. Len(queue) : queue[k] \in Socks
  BY DEF AccInv, Acc!TypeOK
<1>1. /\ gpc = "idle" /\ w \in acc_held
      /\ acceptq_n_out' = (acceptq_n_out - 1) % CounterMod
      /\ wt_next' = [wt_next EXCEPT ![w] = acceptq_get] /\ acceptq_get' = w
      /\ acc_held' = acc_held \ {w} /\ queue' = <<w>> \o queue
      /\ UNCHANGED <<acceptq_put, acceptq_n_in, acc_ppc, w_in, gpc, from, w_out, op>>
  BY DEF Acc!PutBack, Acc!putter, Acc!getter
<1>2. from = ListEnd /\ w \notin Acc!Queued
  BY <1>t, <1>1 DEF AccPlaces, Acc!Fifo
<1>3. PICK i \in 0 .. Len(queue), j \in 0 .. Len(queue) : Acc!SharedOut(i, j)
  BY <1>t DEF Acc!Fifo
<1>s. /\ i <= j /\ Acc!YoungestFirst(from, 1, i) /\ Acc!OldestFirst(acceptq_get, i + 1, j)
      /\ Acc!YoungestFirst(acceptq_put, j + 1, Len(queue))
  BY <1>3 DEF Acc!SharedOut
<1>4. i = 0
  BY <1>t, <1>2, <1>s, ListEnds
<1>6. /\ queue' \in Seq(Socks) /\ Len(queue') = Len(queue) + 1 /\ queue'[1] = w
      /\ \A k \in 1 .. Len(queue) + 1 : k # 1 => queue'[k] = queue[k - 1]
  BY <1>t, <1>1
<1>7. \A k \in 1 .. Len(queue) : wt_next'[queue[k]] = wt_next[queue[k]]
  BY <1>t, <1>1, <1>2 DEF Acc!Queued
<1>n. Len(queue) \in Nat /\ Len(queue') = Len(queue) + 1
  BY <1>t, <1>6
<1>8. PICK h \in 0 .. Len(queue') : h = j + 1
  BY <1>n
<1>9. Acc!SharedOut(0, h)'
  <2>1. Acc!YoungestFirst(from, 1, 0)'
    BY <1>1, <1>2 DEF Acc!YoungestFirst
  <2>2. Acc!OldestFirst(acceptq_get, 1, h)'
    <3>1. wt_next'[queue'[1]] = IF 1 = h THEN ListEnd ELSE queue'[2]
      BY <1>t, <1>1, <1>s, <1>4, <1>6, <1>8 DEF Acc!OldestFirst
    <3>2. ASSUME NEW k \in 2 .. h PROVE wt_next'[queue'[k]] = IF k = h THEN ListEnd ELSE queue'[k + 1]
      <4>1. PICK l \in 1 .. j : l = k - 1
        BY <1>8
      <4>2. wt_next[queue[l]] = IF l = j THEN ListEnd ELSE queue[l + 1]
        BY <1>s, <1>4 DEF Acc!OldestFirst
      <4>3. queue'[k] = queue[l] /\ (k # h => queue'[k + 1] = queue[l + 1])
        BY <1>t, <1>6, <1>8, <4>1
      <4> QED  BY <1>t, <1>7, <1>8, <4>1, <4>2, <4>3
    <3>3. ~(1 > h) /\ \A k \in 1 .. h : k = 1 \/ k \in 2 .. h
      BY <1>8
    <3>4. 1 + 1 = 2 /\ acceptq_get' = queue'[1]
      BY <1>1, <1>6
    <3>5. \A k \in 1 .. h : wt_next'[queue'[k]] = IF k = h THEN ListEnd ELSE queue'[k + 1]
      BY <3>1, <3>2, <3>3, <3>4, Zenon
    <3> QED  BY <3>3, <3>4, <3>5, Zenon DEF Acc!OldestFirst
  <2>3. Acc!YoungestFirst(acceptq_put, h + 1, Len(queue))'
    <3>1. ASSUME NEW k \in h + 1 .. Len(queue')
          PROVE  wt_next'[queue'[k]] = IF k = h + 1 THEN ListEnd ELSE queue'[k - 1]
      <4>1. PICK l \in j + 1 .. Len(queue) : l = k - 1
        BY <1>t, <1>6, <1>8
      <4>2. wt_next[queue[l]] = IF l = j + 1 THEN ListEnd ELSE queue[l - 1]
        BY <1>s DEF Acc!YoungestFirst
      <4>3. k \in 1 .. Len(queue) + 1 /\ k # 1 /\ l \in 1 .. Len(queue)
        BY <1>n, <1>8, <4>1
      <4>4. queue'[k] = queue[l]
        BY <1>6, <4>1, <4>3
      <4>5. ASSUME k # h + 1 PROVE queue'[k - 1] = queue[l - 1] /\ l # j + 1
        <5>1. k - 1 \in 1 .. Len(queue) + 1 /\ k - 1 # 1 /\ l # j + 1
          BY <1>n, <1>8, <4>1, <4>5
        <5> QED  BY <1>6, <4>1, <5>1
      <4>6. k = h + 1 => l = j + 1
        BY <1>8, <4>1
      <4>7. wt_next'[queue'[k]] = wt_next[queue[l]]
        BY <1>7, <4>3, <4>4, Zenon
      <4> QED  BY <4>2, <4>5, <4>6, <4>7
    <3>2. acceptq_put' = IF h + 1 > Len(queue') THEN ListEnd ELSE queue'[Len(queue')]
      BY <1>t, <1>1, <1>s, <1>6, <1>8 DEF Acc!YoungestFirst
    <3> QED  BY <3>1, <3>2 DEF Acc!YoungestFirst
  <2>4. 0 <= h /\ 0 + 1 = 1
    BY <1>8
  <2> QED  BY <2>1, <2>2, <2>3, <2>4 DEF Acc!SharedOut
<1>10. ASSUME NEW k \in 1 .. Len(queue'), NEW l \in 1 .. Len(queue'), queue'[k] = queue'[l]
       PROVE  k = l
  <2>1. \A n \in 2 .. Len(queue') : queue'[n] \in Acc!Queued
    BY <1>t, <1>6 DEF Acc!Queued
  <2>2. CASE k = 1 \/ l = 1
    BY <1>2, <1>6, <1>10, <2>1, <2>2
  <2>3. CASE k # 1 /\ l # 1
    <3>1. queue[k - 1] = queue[l - 1] /\ k - 1 \in 1 .. Len(queue) /\ l - 1 \in 1 .. Len(queue)
      BY <1>t, <1>6, <1>10, <2>3
    <3>2. k - 1 = l - 1
      BY <1>t, <3>1, Zenon DEF Acc!Fifo
    <3> QED  BY <1>t, <1>6, <3>2
  <2> QED  BY <2>2, <2>3, Zenon
<1>11. Acc!Queued' = Acc!Queued \cup {w}
  <2>1. ASSUME NEW n \in 1 .. Len(queue') PROVE queue'[n] \in Acc!Queued \cup {w}
    <3>1. CASE n = 1
      BY <1>6, <3>1
    <3>2. CASE n # 1
      <4>1. n \in 1 .. Len(queue) + 1 /\ n - 1 \in 1 .. Len(queue)
        BY <1>n, <3>2
      <4>2. queue'[n] = queue[n - 1]
        BY <1>6, <3>2, <4>1
      <4> QED  BY <4>1, <4>2 DEF Acc!Queued
    <3> QED  BY <3>1, <3>2
  <2>2. \A n \in 1 .. Len(queue) : \E m \in 1 .. Len(queue') : queue'[m] = queue[n]
    <3> SUFFICES ASSUME NEW n \in 1 .. Len(queue)
                 PROVE  n + 1 \in 1 .. Len(queue') /\ queue'[n + 1] = queue[n]
      OBVIOUS
    <3> QED  BY <1>t, <1>6
  <2>3. 1 \in 1 .. Len(queue')
    BY <1>t, <1>6
  <2>4. ASSUME NEW x \in Acc!Queued' PROVE x \in Acc!Queued \cup {w}
    <3>1. PICK n \in 1 .. Len(queue') : x = queue'[n]
      BY <2>4 DEF Acc!Queued
    <3> QED  BY <2>1, <3>1
  <2>5. w \in Acc!Queued'
    BY <1>6, <2>3 DEF Acc!Queued
  <2>6. ASSUME NEW x \in Acc!Queued PROVE x \in Acc!Queued'
    <3>1. PICK n \in 1 .. Len(queue) : x = queue[n]
      BY <2>6 DEF Acc!Queued
    <3> QED  BY <2>2, <3>1 DEF Acc!Queued
  <2> QED  BY <2>4, <2>5, <2>6
<1>12. Acc!Fifo'
  <2>1. \E k, l \in 0 .. Len(queue') : Acc!SharedOut(k, l)'
    BY <1>8, <1>9
  <2>2. Acc!Queued' \cap acc_held' = {}
    BY <1>t, <1>1, <1>11, Zenon DEF Acc!Fifo
  <2> QED  BY <1>10, <2>1, <2>2 DEF Acc!Fifo
<1>13. AccPlaces'
  BY <1>t, <1>1, <1>11 DEF AccPlaces
<1>14. Acc!Counted' = Acc!Counted + 1
  BY <1>t, <1>1, <1>6 DEF Acc!Counted
<1>15. AccCounted' /\ acceptq_n_out' \in 0 .. CounterMod - 1
  BY <1>t, <1>1, <1>14, CountSteps
<1>16. Acc!TypeOK'
  BY <1>t, <1>1, <1>6, <1>15 DEF Acc!TypeOK, Acc!SockOrNull
<1> QED  BY <1>12, <1>13, <1>15, <1>16 DEF AccInv

(* ci_tcp_acceptq_put_back_tail *)
LEMMA TailSteps ==
  ASSUME CounterMod \in Nat \ {0}, ListEnd \notin Socks, AccInv,
         (\E w \in Socks : Acc!PutBackTail(w)) \/ Acc!TailCas \/ Acc!TailCount
  PROVE  AccInv'
<1>t. /\ acceptq_put \in Acc!SockOrNull /\ wt_next \in [Socks -> Acc!SockOrNull]
      /\ queue \in Seq(Socks) /\ Len(queue) \in Nat /\ acc_held \subseteq Socks
      /\ Acc!TypeOK /\ Acc!Fifo /\ AccPlaces /\ AccCounted
  BY DEF AccInv, Acc!TypeOK
<1>1. ASSUME NEW w \in Socks, Acc!PutBackTail(w) PROVE AccInv'
  <2>1. /\ gpc = "idle" /\ w \in acc_held /\ gpc' = "tail_cas" /\ w_out' = w
        /\ wt_next' = [wt_next EXCEPT ![w] = acceptq_put]
        /\ UNCHANGED <<acceptq_put, acceptq_get, acceptq_n_in, acceptq_n_out, acc_ppc, w_in>>
        /\ UNCHANGED <<from, op, acc_held, queue>>
    BY <1>1 DEF Acc!PutBackTail, Acc!lists, Acc!counts, Acc!putter
  <2>2. Acc!TypeOK'
    BY <1>t, <2>1 DEF Acc!TypeOK, Acc!SockOrNull
  <2>3. w \notin Acc!Queued
    BY <1>t, <2>1 DEF Acc!Fifo
  <2>4. Acc!Fifo' /\ Acc!Queued' = Acc!Queued
    BY <1>t, <2>1, <2>3, LinkOffQueue, Zenon
  <2>5. AccPlaces'
    BY <1>t, <2>1, <2>4 DEF AccPlaces
  <2>6. AccCounted'
    BY <1>t, <2>1, CountStays DEF Acc!Counted
  <2> QED  BY <2>2, <2>4, <2>5, <2>6 DEF AccInv
<1>2. ASSUME Acc!TailCas, acceptq_put = wt_next[w_out] PROVE AccInv'
  <2>1. /\ gpc = "tail_cas" /\ gpc' = "tail_count" /\ acceptq_put' = w_out
        /\ acc_held' = acc_held \ {w_out} /\ queue' = Append(queue, w_out)
        /\ UNCHANGED <<wt_next, acceptq_get, acceptq_n_in, acceptq_n_out, acc_ppc, w_in>>
        /\ UNCHANGED <<from, w_out, op>>
    BY <1>2 DEF Acc!TailCas, Acc!counts, Acc!putter
  <2>2. w_out \in Socks /\ w_out \in acc_held /\ w_out \notin Acc!Queued
    BY <1>t, <2>1 DEF AccPlaces, Acc!Fifo
  <2>3. Acc!TypeOK'
    BY <1>t, <2>1, <2>2 DEF Acc!TypeOK, Acc!SockOrNull
  <2>4. Acc!Fifo' /\ Acc!Queued' = Acc!Queued \cup {w_out}
    BY <1>t, <1>2, <2>1, <2>2, Appended
  <2>5. AccPlaces'
    BY <1>t, <2>1, <2>2, <2>4 DEF AccPlaces
  <2>6. Acc!Counted' = Acc!Counted
    <3>1. Len(queue') = Len(queue) + 1
      BY <1>t, <2>1, <2>2
    <3> QED  BY <1>t, <2>1, <3>1 DEF Acc!Counted
  <2> QED  BY <1>t, <2>1, <2>3, <2>4, <2>5, <2>6, CountStays DEF AccInv
<1>3. ASSUME Acc!TailCas, acceptq_put # wt_next[w_out] PROVE AccInv'
  <2>1. /\ gpc = "tail_cas" /\ wt_next' = [wt_next EXCEPT ![w_out] = acceptq_put]
        /\ UNCHANGED <<gpc, acceptq_put, acc_held, queue, acceptq_get, acceptq_n_in, acceptq_n_out>>
        /\ UNCHANGED <<acc_ppc, w_in, from, w_out, op>>
    BY <1>3 DEF Acc!TailCas, Acc!counts, Acc!putter
  <2>2. w_out \in Socks /\ w_out \notin Acc!Queued
    BY <1>t, <2>1 DEF AccPlaces, Acc!Fifo
  <2>3. Acc!TypeOK'
    BY <1>t, <2>1, <2>2 DEF Acc!TypeOK, Acc!SockOrNull
  <2>4. Acc!Fifo' /\ Acc!Queued' = Acc!Queued
    BY <1>t, <2>1, <2>2, LinkOffQueue, Zenon
  <2>5. AccPlaces'
    BY <1>t, <2>1, <2>4 DEF AccPlaces
  <2>6. AccCounted'
    BY <1>t, <2>1, CountStays DEF Acc!Counted
  <2> QED  BY <2>3, <2>4, <2>5, <2>6 DEF AccInv
<1>4. ASSUME Acc!TailCount PROVE AccInv'
  <2>1. /\ gpc = "tail_count" /\ gpc' = "idle" /\ w_out' = ListEnd
        /\ acceptq_n_out' = (acceptq_n_out - 1) % CounterMod
        /\ UNCHANGED <<acceptq_put, acceptq_get, wt_next, acceptq_n_in, acc_ppc, w_in>>
        /\ UNCHANGED <<from, op, acc_held, queue>>
    BY <1>4 DEF Acc!TailCount, Acc!lists, Acc!putter
  <2>2. Acc!Counted' = Acc!Counted + 1
    BY <1>t, <2>1 DEF Acc!Counted
  <2>3. AccCounted' /\ acceptq_n_out' \in 0 .. CounterMod - 1
    BY <1>t, <2>1, <2>2, CountSteps, Zenon
  <2>4. Acc!TypeOK'
    BY <1>t, <2>1, <2>3 DEF Acc!TypeOK, Acc!SockOrNull
  <2>5. Acc!Fifo' /\ Acc!Queued' = Acc!Queued
    BY <1>t, <2>1, FifoStays
  <2>6. AccPlaces'
    BY <1>t, <2>1, <2>5 DEF AccPlaces
  <2> QED  BY <2>3, <2>4, <2>5, <2>6 DEF AccInv
<1> QED  BY <1>1, <1>2, <1>3, <1>4

(* An accepted connection is closed. *)
LEMMA LetGoStep ==
  ASSUME AccInv, NEW w \in Socks, Acc!LetGo(w)
  PROVE  AccInv'
<1>t. Acc!TypeOK /\ Acc!Fifo /\ AccPlaces /\ AccCounted
  BY DEF AccInv
<1>1. /\ gpc = "idle" /\ acc_held' = acc_held \ {w}
      /\ UNCHANGED <<acceptq_put, acceptq_get, wt_next, acceptq_n_in, acceptq_n_out>>
      /\ UNCHANGED <<acc_ppc, w_in, gpc, from, w_out, op, queue>>
  BY DEF Acc!LetGo, Acc!lists, Acc!counts, Acc!putter, Acc!getter
<1>2. Acc!Fifo' /\ Acc!Queued' = Acc!Queued
  BY <1>t, <1>1, FifoStays
<1>3. AccPlaces'
  BY <1>t, <1>1, <1>2 DEF AccPlaces
<1>4. AccCounted'
  BY <1>t, <1>1, CountStays DEF Acc!Counted
<1>5. Acc!TypeOK'
  BY <1>t, <1>1 DEF Acc!TypeOK
<1> QED  BY <1>2, <1>3, <1>4, <1>5 DEF AccInv

(* Every step of the two threads keeps the invariant. *)
LEMMA AccStep ==
  ASSUME CounterMod \in Nat \ {0}, ListEnd \notin Socks, AccInv, [Acc!Next]_accVars
  PROVE  AccInv'
<1>1. CASE UNCHANGED accVars
  <2>1. /\ UNCHANGED <<acceptq_put, acceptq_get, wt_next, acceptq_n_in, acceptq_n_out>>
        /\ UNCHANGED <<acc_ppc, w_in, gpc, from, w_out, op, acc_held, queue>>
    BY <1>1 DEF accVars
  <2>2. Acc!Fifo' /\ Acc!Queued' = Acc!Queued
    BY <2>1, FifoStays DEF AccInv
  <2>3. AccPlaces'
    BY <2>1, <2>2 DEF AccInv, AccPlaces
  <2>4. AccCounted'
    BY <2>1, CountStays DEF AccInv, Acc!Counted
  <2>5. Acc!TypeOK'
    BY <2>1 DEF AccInv, Acc!TypeOK
  <2> QED  BY <2>2, <2>3, <2>4, <2>5 DEF AccInv
<1>2. CASE Acc!Next
  BY <1>2, PutSteps, GetStep, GrabStep, ReverseStep, TakeStep, PutBackStep, TailSteps, LetGoStep
     DEF Acc!Next
<1> QED  BY <1>1, <1>2

(* The queue starts empty. *)
LEMMA AccStarts ==
  ASSUME CounterMod \in Nat \ {0}, Acc!Init
  PROVE  AccInv
<1>1. /\ acceptq_put = ListEnd /\ acceptq_get = ListEnd /\ wt_next = [w \in Socks |-> ListEnd]
      /\ acceptq_n_in = 0 /\ acceptq_n_out = 0 /\ acc_ppc = "idle" /\ w_in = ListEnd
      /\ gpc = "idle" /\ from = ListEnd /\ w_out = ListEnd /\ op = "get"
      /\ acc_held = {} /\ queue = << >>
  BY DEF Acc!Init
<1>2. Len(queue) = 0 /\ queue \in Seq(Socks)
  BY <1>1
<1>3. Acc!TypeOK
  BY <1>1, <1>2 DEF Acc!TypeOK, Acc!SockOrNull
<1>4. Acc!SharedOut(0, 0)
  BY <1>1, <1>2 DEF Acc!SharedOut, Acc!YoungestFirst, Acc!OldestFirst
<1>5. Acc!Fifo
  BY <1>1, <1>2, <1>4 DEF Acc!Fifo, Acc!Queued
<1>6. AccPlaces
  BY <1>1 DEF AccPlaces
<1>7. AccCounted
  <2>1. Acc!Counted = 0
    BY <1>1, <1>2 DEF Acc!Counted
  <2>2. 0 - 0 = 0 + CounterMod * 0
    OBVIOUS
  <2> QED  BY <1>1, <2>1, <2>2 DEF AccCounted, Congruent
<1> QED  BY <1>3, <1>5, <1>6, <1>7 DEF AccInv

(* What both threads have counted is what ci_tcp_acceptq_n gives. *)
LEMMA AccKeeps ==
  ASSUME CounterMod \in Nat \ {0}, AccInv
  PROVE  Acc!Fifo /\ Acc!CountInStep
<1>1. PICK c \in Int : c = Acc!Counted
  <2>1. Len(queue) \in Nat
    BY DEF AccInv, Acc!TypeOK
  <2>2. Acc!Counted \in Int
    BY <2>1 DEF Acc!Counted
  <2> QED  BY <2>2
<1>2. PICK m \in Int : acceptq_n_in - acceptq_n_out = c + CounterMod * m
  BY <1>1, Zenon DEF AccInv, AccCounted, Congruent
<1>3. (c + CounterMod * m) % CounterMod = c % CounterMod
  BY SameRemainder, Zenon
<1> QED  BY <1>1, <1>2, <1>3 DEF AccInv, Acc!CountInStep

-----------------------------------------------------------------------------
(* The non-blocking pool *)

(* The packets a thread has, those of the list it returns included *)
PoolMine(t) == pool_held[t] \cup Pool!InList(t)

PoolTypes ==
  /\ pool \in [id : PoolPkts \cup {ListEnd}, tag : Nat]
  /\ pool_next \in [PoolPkts -> PoolPkts \cup {ListEnd}]
  /\ refcount \in [PoolPkts -> {0, 1}]
  /\ pool_held \in [PoolThreads -> SUBSET PoolPkts]
  /\ list \in [PoolThreads -> Seq(PoolPkts)]
  /\ link \in [PoolThreads -> [id : PoolPkts \cup {ListEnd}, tag : Nat]]
  /\ new_id \in [PoolThreads -> PoolPkts \cup {ListEnd}]
  /\ pool_pc \in [PoolThreads -> {"idle", "next", "cas", "push", "push_cas"}]
  /\ stack \in Seq(PoolPkts)

(* The swap of ci_netif_pkt_alloc_nonb: if the tag has not moved since the *)
(* word was read, and the packet is in the pool, then the successor that   *)
(* was read is the packet's successor still.                               *)
PoolTaker(t) ==
  /\ pool_pc[t] \in {"next", "cas"} => link[t].id \in PoolPkts /\ link[t].tag <= pool.tag
  /\ pool_pc[t] = "cas" /\ link[t].tag = pool.tag /\ link[t].id \in Pool!InPool =>
       new_id[t] = pool_next[link[t].id]

(* A list that is being returned: its links, the link from its tail to the *)
(* head that was read, and no references.                                  *)
PoolGiver(t) ==
  /\ pool_pc[t] \in {"push", "push_cas"} <=> list[t] # << >>
  /\ Len(list[t]) <= 2
  /\ Len(list[t]) = 2 => list[t][1] # list[t][2] /\ pool_next[list[t][1]] = list[t][2]
  /\ pool_pc[t] = "push_cas" => pool_next[Pool!Last(list[t])] = link[t].id
  /\ \A p \in Pool!InList(t) : refcount[p] = 0

PoolInv ==
  /\ PoolTypes /\ Pool!LinksSpellStack /\ Pool!PacketsConserved
  /\ \A t \in PoolThreads : PoolTaker(t) /\ PoolGiver(t)

(* The elements of a sequence, which is what Pool!InPool and Pool!InList   *)
(* are of the stack and of a list                                          *)
LEMMA PoolElements ==
  ASSUME NEW S, NEW s \in Seq(S)
  PROVE  {s[i] : i \in 1 .. Len(s)} \subseteq S
  OBVIOUS

(* The first and the last *)
LEMMA PoolEnds ==
  ASSUME NEW S, NEW s \in Seq(S), s # << >>
  PROVE  Len(s) \in 1 .. Len(s) /\ s[1] \in S /\ s[Len(s)] \in S
  OBVIOUS

(* The empty sequence has no element. *)
LEMMA PoolNoElement ==
  ASSUME NEW s, s = << >>
  PROVE  {s[i] : i \in 1 .. Len(s)} = {} /\ Len(s) = 0
  OBVIOUS

(* The packets of the pool and of the lists are packets. *)
LEMMA PoolSets ==
  ASSUME PoolTypes
  PROVE  /\ Pool!InPool \subseteq PoolPkts
         /\ \A t \in PoolThreads : Pool!InList(t) \subseteq PoolPkts /\ PoolMine(t) \subseteq PoolPkts
  BY DEF PoolTypes, Pool!InPool, Pool!InList, PoolMine

(* Who has which packet, as it is used below *)
LEMMA PoolOwners ==
  ASSUME PoolInv
  PROVE  /\ \A i, j \in 1 .. Len(stack) : stack[i] = stack[j] => i = j
         /\ \A t \in PoolThreads, p \in PoolPkts : p \in pool_held[t] => p \notin Pool!InList(t)
         /\ \A t \in PoolThreads, p \in PoolPkts : p \in PoolMine(t) => p \notin Pool!InPool
         /\ \A t, u \in PoolThreads, p \in PoolPkts :
              p \in PoolMine(t) /\ p \in PoolMine(u) => t = u
         /\ \A p \in PoolPkts : p \in Pool!InPool \/ \E t \in PoolThreads : p \in PoolMine(t)
         /\ \A p \in Pool!InPool : refcount[p] = 0
  BY Zenon DEF PoolInv, Pool!PacketsConserved, PoolMine

(* PoolSets, for the state after a step *)
LEMMA PoolSetsAfter ==
  ASSUME PoolTypes'
  PROVE  (Pool!InPool)' \subseteq PoolPkts /\ \A t \in PoolThreads : PoolMine(t)' \subseteq PoolPkts
<1>1. /\ stack' \in Seq(PoolPkts)
      /\ \A t \in PoolThreads : (pool_held[t])' \subseteq PoolPkts /\ (list[t])' \in Seq(PoolPkts)
  BY DEF PoolTypes
<1>2. (Pool!InPool)' \subseteq PoolPkts
  BY <1>1, PoolElements, Zenon DEF Pool!InPool
<1>3. ASSUME NEW t \in PoolThreads PROVE Pool!InList(t)' \subseteq PoolPkts
  <2>1. (list[t])' \in Seq(PoolPkts)
    BY <1>1, Zenon
  <2> QED  BY <2>1, PoolElements, Zenon DEF Pool!InList
<1> QED  BY <1>1, <1>2, <1>3, Zenon DEF PoolMine

(* The converse of PoolOwners, for the state after a step *)
LEMMA PoolOwned ==
  ASSUME PoolTypes',
         \A i, j \in 1 .. Len(stack') : stack'[i] = stack'[j] => i = j,
         \A t \in PoolThreads, p \in PoolPkts : p \in (pool_held[t])' => p \notin Pool!InList(t)',
         \A t \in PoolThreads, p \in PoolPkts : p \in PoolMine(t)' => p \notin (Pool!InPool)',
         \A t, u \in PoolThreads, p \in PoolPkts :
           p \in PoolMine(t)' /\ p \in PoolMine(u)' => t = u,
         \A p \in PoolPkts : p \in (Pool!InPool)' \/ \E t \in PoolThreads : p \in PoolMine(t)',
         \A p \in (Pool!InPool)' : refcount'[p] = 0
  PROVE  (Pool!PacketsConserved)'
<1>1. (Pool!InPool)' \subseteq PoolPkts /\ \A t \in PoolThreads : PoolMine(t)' \subseteq PoolPkts
  BY PoolSetsAfter, Zenon
<1>2. \A t \in PoolThreads : PoolMine(t)' = (pool_held[t])' \cup Pool!InList(t)'
  BY Zenon DEF PoolMine
<1>3. PoolPkts = (Pool!InPool)' \cup UNION {(pool_held[t])' \cup Pool!InList(t)' : t \in PoolThreads}
  BY <1>1, <1>2
<1>4. ASSUME NEW t \in PoolThreads
      PROVE  /\ (pool_held[t])' \cap Pool!InList(t)' = {}
             /\ ((pool_held[t])' \cup Pool!InList(t)') \cap (Pool!InPool)' = {}
             /\ \A u \in PoolThreads \ {t} :
                  ((pool_held[t])' \cup Pool!InList(t)') \cap ((pool_held[u])' \cup Pool!InList(u)') = {}
  BY <1>1, <1>2, Zenon
<1> QED  BY <1>3, <1>4, Zenon DEF Pool!PacketsConserved

(* A step that leaves the links of the pool's packets alone *)
LEMMA PoolLinksKept ==
  ASSUME Pool!LinksSpellStack, pool' = pool, stack' = stack,
         \A p \in Pool!InPool : pool_next'[p] = pool_next[p]
  PROVE  (Pool!LinksSpellStack)'
<1>1. \A i \in 1 .. Len(stack) : pool_next'[stack[i]] = pool_next[stack[i]]
  BY Zenon DEF Pool!InPool
<1> QED  BY <1>1, Zenon DEF Pool!LinksSpellStack

(* A step that leaves the packets where they are *)
LEMMA PoolOwnersKept ==
  ASSUME Pool!PacketsConserved, UNCHANGED <<refcount, pool_held, list, stack>>
  PROVE  (Pool!PacketsConserved)'
<1>1. (Pool!InPool)' = Pool!InPool /\ \A u : Pool!InList(u)' = Pool!InList(u)
  BY Zenon DEF Pool!InPool, Pool!InList
<1>2. PoolPkts = Pool!InPool \cup UNION {(pool_held[t])' \cup Pool!InList(t)' : t \in PoolThreads}
  BY <1>1 DEF Pool!PacketsConserved
<1> QED  BY <1>1, <1>2, Zenon DEF Pool!PacketsConserved

(* The word is read, the successor is read, or a swap fails: only what the *)
(* thread has read, and where it is, change.                               *)
LEMMA PoolReads ==
  ASSUME PoolInv, NEW t \in PoolThreads,
         \/ Pool!AllocRead(t)
         \/ Pool!AllocNext(t)
         \/ Pool!AllocCas(t) /\ ~Pool!Unchanged(pool, link[t])
         \/ Pool!FreeCas(t) /\ ~Pool!Unchanged(pool, link[t])
  PROVE  PoolInv'
<1>1. UNCHANGED <<pool, pool_next, refcount, pool_held, list, stack>>
  BY Zenon DEF Pool!AllocRead, Pool!AllocNext, Pool!AllocCas, Pool!FreeCas
<1>2. /\ pool \in [id : PoolPkts \cup {ListEnd}, tag : Nat]
      /\ pool_next \in [PoolPkts -> PoolPkts \cup {ListEnd}]
      /\ link \in [PoolThreads -> [id : PoolPkts \cup {ListEnd}, tag : Nat]]
      /\ new_id \in [PoolThreads -> PoolPkts \cup {ListEnd}]
      /\ pool_pc \in [PoolThreads -> {"idle", "next", "cas", "push", "push_cas"}]
  BY Zenon DEF PoolInv, PoolTypes
<1>3. PICK w \in [id : PoolPkts \cup {ListEnd}, tag : Nat], n \in PoolPkts \cup {ListEnd},
           c \in {"idle", "next", "cas", "push"} :
        /\ link' = [link EXCEPT ![t] = w] /\ new_id' = [new_id EXCEPT ![t] = n]
        /\ pool_pc' = [pool_pc EXCEPT ![t] = c]
        /\ c \in {"next", "cas"} => w.id \in PoolPkts /\ w.tag <= pool.tag
        /\ c = "cas" => n = pool_next[w.id]
        /\ c = "push" <=> pool_pc[t] \in {"push", "push_cas"}
  <2>1. CASE Pool!AllocRead(t)
    <3>1. /\ link' = [link EXCEPT ![t] = pool] /\ new_id' = [new_id EXCEPT ![t] = new_id[t]]
          /\ pool_pc' = [pool_pc EXCEPT ![t] = "next"] /\ pool_pc[t] = "idle"
          /\ new_id[t] \in PoolPkts \cup {ListEnd}
      BY <1>2, <2>1 DEF Pool!AllocRead, Pool!Goto
    <3>2. pool.id \in PoolPkts /\ pool.tag <= pool.tag
      BY <1>2, <2>1 DEF Pool!AllocRead
    <3> QED  BY <1>2, <3>1, <3>2, Zenon
  <2>2. CASE Pool!AllocNext(t)
    <3>1. pool_pc[t] = "next" /\ link[t].id \in PoolPkts /\ link[t].tag <= pool.tag
      BY <2>2, Zenon DEF Pool!AllocNext, Pool!Goto, PoolInv, PoolTaker
    <3>2. pool_next[link[t].id] \in PoolPkts \cup {ListEnd} /\ link' = [link EXCEPT ![t] = link[t]]
      BY <1>2, <2>2, <3>1 DEF Pool!AllocNext
    <3> QED  BY <1>2, <2>2, <3>1, <3>2, Zenon DEF Pool!AllocNext, Pool!Goto
  <2>3. CASE Pool!AllocCas(t)
    BY <1>2, <2>3, Zenon DEF Pool!AllocCas, Pool!Goto, Pool!NoWord
  <2>4. CASE Pool!FreeCas(t) /\ ~Pool!Unchanged(pool, link[t])
    <3>1. new_id' = [new_id EXCEPT ![t] = new_id[t]]
      BY <1>2, <2>4, Zenon DEF Pool!FreeCas
    <3> QED  BY <1>2, <2>4, <3>1, Zenon DEF Pool!FreeCas, Pool!Goto, Pool!NoWord
  <2> QED  BY <2>1, <2>2, <2>3, <2>4, Zenon
<1>4. PoolTypes'
  <2>1. c \in {"idle", "next", "cas", "push", "push_cas"}
    BY Zenon
  <2> QED  BY <1>1, <1>3, <2>1, Zenon DEF PoolInv, PoolTypes
<1>5. (Pool!LinksSpellStack)' /\ (Pool!PacketsConserved)'
  BY <1>1, PoolLinksKept, PoolOwnersKept, Zenon DEF PoolInv
<1>6. (Pool!InPool)' = Pool!InPool /\ \A u : Pool!InList(u)' = Pool!InList(u)
  BY <1>1, Zenon DEF Pool!InPool, Pool!InList
<1>7. ASSUME NEW u \in PoolThreads PROVE PoolTaker(u)' /\ PoolGiver(u)'
  <2>1. PoolTaker(u) /\ PoolGiver(u)
    BY DEF PoolInv
  <2>2. CASE u = t
    <3>1. link'[u] = w /\ new_id'[u] = n /\ pool_pc'[u] = c
      BY <1>2, <1>3, <2>2, Zenon
    <3>2. PoolTaker(u)'
      BY <1>1, <1>3, <3>1, Zenon DEF PoolTaker
    <3>3. PoolGiver(u)'
      BY <1>1, <1>3, <1>6, <2>1, <2>2, <3>1, Zenon DEF PoolGiver, Pool!Last
    <3> QED  BY <3>2, <3>3
  <2>3. CASE u # t
    <3>1. link'[u] = link[u] /\ new_id'[u] = new_id[u] /\ pool_pc'[u] = pool_pc[u]
      BY <1>2, <1>3, <2>3, Zenon
    <3> QED  BY <1>1, <1>6, <2>1, <3>1, Zenon DEF PoolTaker, PoolGiver, Pool!Last
  <2> QED  BY <2>2, <2>3
<1> QED  BY <1>4, <1>5, <1>7 DEF PoolInv

(* A tag that was not above another one is below it when that is raised. *)
LEMMA TagRaised == \A x, y \in Nat : x <= y => x <= y + 1 /\ x # y + 1
  OBVIOUS

(* A thread that does not move keeps what it knows of the packet it would  *)
(* take, while the tag stays the same or when it is raised.                *)
LEMMA PoolTakerKept ==
  ASSUME NEW u \in PoolThreads, PoolTypes, PoolTaker(u),
         link'[u] = link[u], new_id'[u] = new_id[u], pool_pc'[u] = pool_pc[u],
         \/ /\ pool'.tag = pool.tag /\ (Pool!InPool)' = Pool!InPool
            /\ \A p \in Pool!InPool : pool_next'[p] = pool_next[p]
         \/ pool'.tag = pool.tag + 1
  PROVE  PoolTaker(u)'
<1>1. pool.tag \in Nat /\ link[u].tag \in Nat
  BY DEF PoolTypes
<1>2. CASE /\ pool'.tag = pool.tag /\ (Pool!InPool)' = Pool!InPool
           /\ \A p \in Pool!InPool : pool_next'[p] = pool_next[p]
  BY <1>2, Zenon DEF PoolTaker
<1>3. CASE pool'.tag = pool.tag + 1
  <2>1. link[u].tag <= pool.tag => link[u].tag <= pool'.tag /\ link[u].tag # pool'.tag
    <3>1. PICK x \in Nat, y \in Nat : x = link[u].tag /\ y = pool.tag
      BY <1>1, Zenon
    <3>2. x <= y => x <= y + 1 /\ x # y + 1
      BY TagRaised, Zenon
    <3> QED  BY <1>3, <3>1, <3>2, Zenon
  <2> QED  BY <2>1, Zenon DEF PoolTaker
<1> QED  BY <1>2, <1>3, Zenon

(* The ends of a list of packets are in it, and the empty list has none. *)
LEMMA PoolListEnds ==
  ASSUME NEW S, NEW s \in Seq(S)
  PROVE  /\ s # << >> => s[Len(s)] \in {s[i] : i \in 1 .. Len(s)}
         /\ Len(s) = 2 => s[1] \in {s[i] : i \in 1 .. Len(s)}
         /\ s = << >> => {s[i] : i \in 1 .. Len(s)} = {}
<1>1. Len(s) \in Nat /\ (s # << >> => Len(s) \in 1 .. Len(s))
  OBVIOUS
<1>2. Len(s) = 2 => 1 \in 1 .. Len(s)
  OBVIOUS
<1>3. s = << >> => 1 .. Len(s) = {}
  OBVIOUS
<1> QED  BY <1>1, <1>2, <1>3, Zenon

(* A thread that does not move, and whose list nobody touches, keeps it. *)
LEMMA PoolGiverKept ==
  ASSUME NEW u \in PoolThreads, PoolTypes, PoolGiver(u),
         link'[u] = link[u], pool_pc'[u] = pool_pc[u], list'[u] = list[u],
         \A p \in Pool!InList(u) : pool_next'[p] = pool_next[p] /\ refcount'[p] = refcount[p]
  PROVE  PoolGiver(u)'
<1>1. Pool!InList(u)' = Pool!InList(u)
  BY Zenon DEF Pool!InList
<1>2. list[u] \in Seq(PoolPkts)
  BY Zenon DEF PoolTypes
<1>3. /\ list[u] # << >> => Pool!Last(list[u]) \in Pool!InList(u)
      /\ Len(list[u]) = 2 => list[u][1] \in Pool!InList(u)
  BY <1>2, PoolListEnds, Zenon DEF Pool!InList, Pool!Last
<1>4. /\ pool_pc[u] = "push_cas" => pool_next'[Pool!Last(list[u])] = pool_next[Pool!Last(list[u])]
      /\ Len(list[u]) = 2 => pool_next'[list[u][1]] = pool_next[list[u][1]]
  BY <1>3, Zenon DEF PoolGiver
<1> QED  BY <1>1, <1>4, Zenon DEF PoolGiver, Pool!Last

(* The swap of ci_netif_pkt_alloc_nonb takes the first packet of the pool: *)
(* the word is the one that was read, so its tag is, and the successor is  *)
(* the one that was read.                                                  *)
LEMMA PoolTakes ==
  ASSUME ListEnd \notin PoolPkts, PoolInv, NEW t \in PoolThreads, Pool!AllocCas(t),
         Pool!Unchanged(pool, link[t])
  PROVE  PoolInv'
<1>1. /\ pool_pc[t] = "cas" /\ pool = link[t]
      /\ pool_pc' = [pool_pc EXCEPT ![t] = "idle"]
      /\ pool' = [pool EXCEPT !.id = new_id[t]]
      /\ refcount' = [refcount EXCEPT ![pool.id] = 1]
      /\ pool_held' = [pool_held EXCEPT ![t] = @ \cup {pool.id}]
      /\ stack' = Tail(stack)
      /\ link' = [link EXCEPT ![t] = Pool!NoWord] /\ new_id' = [new_id EXCEPT ![t] = ListEnd]
      /\ UNCHANGED <<pool_next, list>>
  BY Zenon DEF Pool!AllocCas, Pool!Goto, Pool!Unchanged
<1>t. PoolTypes
  BY DEF PoolInv
<1>2. /\ pool \in [id : PoolPkts \cup {ListEnd}, tag : Nat] /\ stack \in Seq(PoolPkts)
      /\ refcount \in [PoolPkts -> {0, 1}] /\ pool_held \in [PoolThreads -> SUBSET PoolPkts]
      /\ link \in [PoolThreads -> [id : PoolPkts \cup {ListEnd}, tag : Nat]]
      /\ new_id \in [PoolThreads -> PoolPkts \cup {ListEnd}]
      /\ pool_pc \in [PoolThreads -> {"idle", "next", "cas", "push", "push_cas"}]
  BY <1>t, Zenon DEF PoolTypes
<1>3. pool.id \in PoolPkts
  BY <1>1, Zenon DEF PoolInv, PoolTaker
<1>4. stack # << >> /\ pool.id = stack[1]
  BY <1>3, Zenon DEF PoolInv, Pool!LinksSpellStack
<1>5. 1 \in 1 .. Len(stack) /\ Len(stack) \in Nat \ {0}
  BY <1>2, <1>4
<1>6. pool.id \in Pool!InPool
  BY <1>4, <1>5, Zenon DEF Pool!InPool
<1>7. new_id[t] = IF 1 = Len(stack) THEN ListEnd ELSE stack[1 + 1]
  <2>1. new_id[t] = pool_next[pool.id]
    BY <1>1, <1>6, Zenon DEF PoolInv, PoolTaker
  <2> QED  BY <1>4, <1>5, <2>1, Zenon DEF PoolInv, Pool!LinksSpellStack
<1>8. PICK s \in Seq(PoolPkts) : s = Tail(stack) /\ s = stack'
  <2>1. Tail(stack) \in Seq(PoolPkts)
    BY <1>2, <1>4
  <2> QED  BY <1>1, <2>1, Zenon
<1>o1. \A i, j \in 1 .. Len(stack) : stack[i] = stack[j] => i = j
  BY PoolOwners, Zenon
<1>o2. \A u \in PoolThreads, p \in PoolPkts : p \in pool_held[u] => p \notin Pool!InList(u)
  BY PoolOwners, Zenon
<1>o3. \A u \in PoolThreads, p \in PoolPkts : p \in PoolMine(u) => p \notin Pool!InPool
  BY PoolOwners, Zenon
<1>o4. \A u, x \in PoolThreads, p \in PoolPkts : p \in PoolMine(u) /\ p \in PoolMine(x) => u = x
  BY PoolOwners, Zenon
<1>o5. \A p \in PoolPkts : p \in Pool!InPool \/ \E u \in PoolThreads : p \in PoolMine(u)
  BY PoolOwners, Zenon
<1>9. /\ Len(s) = Len(stack) - 1
      /\ \A i \in 1 .. Len(stack) - 1 : s[i] = stack[i + 1] /\ i + 1 \in 1 .. Len(stack)
  BY <1>2, <1>4, <1>8
<1>10. PoolTypes'
  <2>1. /\ pool' \in [id : PoolPkts \cup {ListEnd}, tag : Nat] /\ pool'.id = new_id[t]
        /\ Pool!NoWord \in [id : PoolPkts \cup {ListEnd}, tag : Nat]
    BY <1>1, <1>2, Zenon DEF Pool!NoWord
  <2>2. refcount' \in [PoolPkts -> {0, 1}] /\ pool_held' \in [PoolThreads -> SUBSET PoolPkts]
    BY <1>1, <1>2, <1>3
  <2>3. pool_pc' \in [PoolThreads -> {"idle", "next", "cas", "push", "push_cas"}]
    BY <1>1, <1>2
  <2> QED  BY <1>1, <1>t, <1>8, <2>1, <2>2, <2>3, Zenon DEF PoolTypes
<1>11. pool'.id = new_id[t] /\ pool'.tag = pool.tag
  BY <1>1, <1>2
<1>12. (Pool!LinksSpellStack)'
  <2>1. pool'.id = IF s = << >> THEN ListEnd ELSE s[1]
    <3>1. CASE Len(stack) = 1
      BY <1>7, <1>8, <1>9, <1>11, <3>1
    <3>2. CASE Len(stack) # 1
      <4>0. Len(s) = Len(stack) - 1
        BY <1>9
      <4>1. s # << >> /\ 1 \in 1 .. Len(stack) - 1
        BY <1>5, <3>2, <4>0
      <4>2. s[1] = stack[1 + 1]
        BY <1>9, <4>1, Zenon
      <4> QED  BY <1>7, <1>11, <3>2, <4>1, <4>2, Zenon
    <3> QED  BY <3>1, <3>2, Zenon
  <2>2. ASSUME NEW i \in 1 .. Len(s)
        PROVE  pool_next[s[i]] = IF i = Len(s) THEN ListEnd ELSE s[i + 1]
    <3>1. /\ i \in 1 .. Len(stack) - 1 /\ i + 1 \in 1 .. Len(stack)
          /\ i = Len(s) <=> i + 1 = Len(stack)
          /\ i # Len(s) => i + 1 \in 1 .. Len(stack) - 1
      BY <1>5, <1>9
    <3>2. pool_next[stack[i + 1]] = IF i + 1 = Len(stack) THEN ListEnd ELSE stack[i + 1 + 1]
      BY <3>1, Zenon DEF PoolInv, Pool!LinksSpellStack
    <3> QED  BY <1>9, <3>1, <3>2, Zenon
  <2> QED  BY <1>1, <1>8, <2>1, <2>2, Zenon DEF Pool!LinksSpellStack
<1>13. (Pool!InPool)' = Pool!InPool \ {pool.id}
  <2>1. ASSUME NEW p \in (Pool!InPool)' PROVE p \in Pool!InPool \ {pool.id}
    <3>1. PICK i \in 1 .. Len(s) : p = s[i]
      BY <1>8, Zenon DEF Pool!InPool
    <3>2. i \in 1 .. Len(stack) - 1 /\ i + 1 # 1
      BY <1>5, <1>9
    <3>3. p = stack[i + 1] /\ stack[i + 1] # stack[1]
      BY <1>5, <1>9, <3>1, <3>2, PoolOwners, Zenon
    <3> QED  BY <1>4, <1>9, <3>2, <3>3, Zenon DEF Pool!InPool
  <2>2. ASSUME NEW p \in Pool!InPool, p # pool.id PROVE p \in (Pool!InPool)'
    <3>1. PICK i \in 1 .. Len(stack) : p = stack[i]
      BY Zenon DEF Pool!InPool
    <3>2. i # 1
      BY <1>4, <2>2, <3>1, Zenon
    <3>3. PICK j \in 1 .. Len(s) : j + 1 = i
      <4>1. i - 1 \in 1 .. Len(s) /\ (i - 1) + 1 = i
        BY <1>5, <1>9, <3>2
      <4> QED  BY <4>1, Zenon
    <3>4. j \in 1 .. Len(stack) - 1
      BY <1>9
    <3>5. s[j] = p
      BY <1>9, <3>1, <3>3, <3>4, Zenon
    <3> QED  BY <1>8, <3>5, Zenon DEF Pool!InPool
  <2> QED  BY <2>1, <2>2, Zenon
<1>14. /\ \A u : Pool!InList(u)' = Pool!InList(u)
       /\ PoolMine(t)' = PoolMine(t) \cup {pool.id}
       /\ \A u \in PoolThreads \ {t} : PoolMine(u)' = PoolMine(u)
  <2>1. /\ pool_held'[t] = pool_held[t] \cup {pool.id}
        /\ \A u \in PoolThreads \ {t} : pool_held'[u] = pool_held[u]
    BY <1>1, <1>2, Zenon
  <2>2. \A u : Pool!InList(u)' = Pool!InList(u)
    BY <1>1, Zenon DEF Pool!InList
  <2> QED  BY <2>1, <2>2, Zenon DEF PoolMine
<1>15. (Pool!PacketsConserved)'
  <2>1. \A i, j \in 1 .. Len(stack') : stack'[i] = stack'[j] => i = j
    <3> SUFFICES ASSUME NEW i \in 1 .. Len(s), NEW j \in 1 .. Len(s), s[i] = s[j] PROVE i = j
      BY <1>8, Zenon
    <3>1. i \in 1 .. Len(stack) - 1 /\ j \in 1 .. Len(stack) - 1
      BY <1>9
    <3>2. /\ i + 1 \in 1 .. Len(stack) /\ j + 1 \in 1 .. Len(stack)
          /\ stack[i + 1] = stack[j + 1]
      BY <1>9, <3>1, Zenon
    <3>3. i + 1 = j + 1
      BY <1>o1, <3>2, Zenon
    <3> QED  BY <3>1, <3>3
  <2>2. \A u \in PoolThreads, p \in PoolPkts : p \in (pool_held[u])' => p \notin Pool!InList(u)'
    <3>1. pool_held'[t] = pool_held[t] \cup {pool.id} /\ pool.id \notin Pool!InList(t)
      BY <1>1, <1>2, <1>3, <1>6, <1>o3, Zenon DEF PoolMine
    <3>2. \A u \in PoolThreads \ {t} : pool_held'[u] = pool_held[u]
      BY <1>1, <1>2, Zenon
    <3> QED  BY <1>14, <1>o2, <3>1, <3>2, Zenon
  <2>a. \A u \in PoolThreads, p \in PoolPkts :
          p \in PoolMine(u)' <=> p \in PoolMine(u) \/ (u = t /\ p = pool.id)
    BY <1>14, Zenon
  <2>b. \A p \in PoolPkts : p \in (Pool!InPool)' <=> p \in Pool!InPool /\ p # pool.id
    BY <1>13, Zenon
  <2>3. \A u \in PoolThreads, p \in PoolPkts : p \in PoolMine(u)' => p \notin (Pool!InPool)'
    BY <1>o3, <1>3, <2>a, <2>b, Zenon
  <2>4. \A u, x \in PoolThreads, p \in PoolPkts : p \in PoolMine(u)' /\ p \in PoolMine(x)' => u = x
    <3>1. \A u \in PoolThreads : pool.id \notin PoolMine(u)
      BY <1>3, <1>6, <1>o3, Zenon
    <3> TAKE u, x \in PoolThreads, p \in PoolPkts
    <3>2. CASE p = pool.id
      BY <2>a, <3>1, <3>2, Zenon
    <3>3. CASE p # pool.id
      BY <1>o4, <2>a, <3>3, Zenon
    <3> QED  BY <3>2, <3>3
  <2>5. \A p \in PoolPkts : p \in (Pool!InPool)' \/ \E u \in PoolThreads : p \in PoolMine(u)'
    <3> TAKE p \in PoolPkts
    <3>1. CASE p = pool.id
      BY <2>a, <3>1, Zenon
    <3>2. CASE p # pool.id /\ p \notin (Pool!InPool)'
      <4>1. PICK u \in PoolThreads : p \in PoolMine(u)
        BY <1>o5, <2>b, <3>2, Zenon
      <4> QED  BY <2>a, <4>1, Zenon
    <3> QED  BY <3>1, <3>2, Zenon
  <2>6. \A p \in (Pool!InPool)' : refcount'[p] = 0
    <3>1. \A p \in PoolPkts : p # pool.id => refcount'[p] = refcount[p]
      BY <1>1, <1>2, Zenon
    <3> QED  BY <1>13, <1>t, <3>1, PoolOwners, PoolSets, Zenon
  <2> QED  BY <1>10, <2>1, <2>2, <2>3, <2>4, <2>5, <2>6, PoolOwned, Zenon
<1>16. ASSUME NEW u \in PoolThreads PROVE PoolTaker(u)' /\ PoolGiver(u)'
  <2>1. PoolTaker(u) /\ PoolGiver(u)
    BY DEF PoolInv
  <2>2. \A p \in Pool!InList(u) : refcount'[p] = 0
    <3>1. \A p \in Pool!InList(u) : p # pool.id /\ p \in PoolPkts /\ refcount[p] = 0
      BY <1>6, <1>t, <2>1, PoolOwners, PoolSets, Zenon DEF PoolMine, PoolGiver
    <3> QED  BY <1>1, <1>2, <3>1, Zenon
  <2>3. CASE u = t
    <3>1. pool_pc'[u] = "idle" /\ list'[u] = list[u] /\ list[u] = << >>
      BY <1>1, <1>2, <2>1, <2>3, Zenon DEF PoolGiver
    <3>2. PoolTaker(u)'
      BY <3>1, Zenon DEF PoolTaker
    <3>3. PoolGiver(u)'
      BY <1>1, <1>14, <2>1, <2>2, <3>1, Zenon DEF PoolGiver
    <3> QED  BY <3>2, <3>3
  <2>4. CASE u # t
    <3>1. link'[u] = link[u] /\ new_id'[u] = new_id[u] /\ pool_pc'[u] = pool_pc[u]
      BY <1>1, <1>2, <2>4, Zenon
    <3>2. PoolTaker(u)'
      <4>1. pool'.tag = pool.tag /\ pool_next' = pool_next
        BY <1>1, <1>11, Zenon
      <4>2. link[u].id \in (Pool!InPool)' => link[u].id \in Pool!InPool
        BY <1>13, Zenon
      <4> QED  BY <2>1, <3>1, <4>1, <4>2, Zenon DEF PoolTaker
    <3>3. PoolGiver(u)'
      BY <1>1, <1>14, <2>1, <2>2, <3>1, Zenon DEF PoolGiver, Pool!Last
    <3> QED  BY <3>2, <3>3
  <2> QED  BY <2>3, <2>4
<1> QED  BY <1>10, <1>12, <1>15, <1>16 DEF PoolInv

(* The caller of ci_netif_pkt_free_nonb_list makes a list of packets that  *)
(* it has.                                                                 *)
LEMMA PoolLists ==
  ASSUME PoolInv, NEW t \in PoolThreads, Pool!MakeList(t)
  PROVE  PoolInv'
<1>t. PoolTypes
  BY DEF PoolInv
<1>2. /\ pool_next \in [PoolPkts -> PoolPkts \cup {ListEnd}] /\ refcount \in [PoolPkts -> {0, 1}]
      /\ pool_held \in [PoolThreads -> SUBSET PoolPkts] /\ list \in [PoolThreads -> Seq(PoolPkts)]
      /\ pool_pc \in [PoolThreads -> {"idle", "next", "cas", "push", "push_cas"}]
  BY <1>t, Zenon DEF PoolTypes
<1>3. PICK s \in Pool!Chains(pool_held[t]) :
        /\ Len(s) = 2 => s[1] # s[2]
        /\ list' = [list EXCEPT ![t] = s]
        /\ pool_next' = IF Len(s) = 2 THEN [pool_next EXCEPT ![s[1]] = s[2]] ELSE pool_next
        /\ pool_held' = [pool_held EXCEPT ![t] = @ \ {s[i] : i \in 1 .. Len(s)}]
        /\ refcount' = [p \in PoolPkts |-> IF \E i \in 1 .. Len(s) : s[i] = p THEN 0 ELSE refcount[p]]
  BY Zenon DEF Pool!MakeList
<1>1. /\ pool_pc[t] = "idle" /\ pool_pc' = [pool_pc EXCEPT ![t] = "push"]
      /\ UNCHANGED <<pool, link, new_id, stack>>
  BY Zenon DEF Pool!MakeList, Pool!Goto
<1> DEFINE R == {s[i] : i \in 1 .. Len(s)}
<1>4. /\ s \in Seq(PoolPkts) /\ Len(s) \in {1, 2} /\ R \subseteq pool_held[t] /\ R \subseteq PoolPkts
      /\ s[1] \in PoolPkts /\ s[1] \in R /\ (Len(s) = 2 => s[2] \in PoolPkts) /\ s # << >>
      /\ Len(s) <= 2
  <2>1. pool_held[t] \subseteq PoolPkts
    BY <1>2
  <2>2. CASE \E p \in pool_held[t] : s = <<p>>
    BY <2>1, <2>2
  <2>3. CASE \E p, q \in pool_held[t] : s = <<p, q>>
    BY <2>1, <2>3
  <2> QED  BY <2>2, <2>3 DEF Pool!Chains
<1>5. /\ list'[t] = s /\ pool_held'[t] = pool_held[t] \ R /\ pool_pc'[t] = "push"
      /\ \A u \in PoolThreads \ {t} :
           list'[u] = list[u] /\ pool_held'[u] = pool_held[u] /\ pool_pc'[u] = pool_pc[u]
  BY <1>1, <1>2, <1>3, Zenon
<1>6. /\ \A p \in R : refcount'[p] = 0
      /\ \A p \in PoolPkts : p \notin R => refcount'[p] = refcount[p] /\ pool_next'[p] = pool_next[p]
      /\ Len(s) = 2 => pool_next'[s[1]] = s[2]
  <2>1. \A p \in PoolPkts : refcount'[p] = IF p \in R THEN 0 ELSE refcount[p]
    BY <1>3, Zenon
  <2>2. \A p \in PoolPkts : p \notin R => pool_next'[p] = pool_next[p]
    BY <1>2, <1>3, <1>4, Zenon
  <2>3. Len(s) = 2 => pool_next'[s[1]] = s[2]
    BY <1>2, <1>3, <1>4, Zenon
  <2> QED  BY <1>4, <2>1, <2>2, <2>3, Zenon
<1>7. PoolTypes'
  <2>1. pool_next' \in [PoolPkts -> PoolPkts \cup {ListEnd}]
    BY <1>2, <1>3, <1>4, Zenon
  <2>2. refcount' \in [PoolPkts -> {0, 1}]
    BY <1>2, <1>3, Zenon
  <2>3. pool_held' \in [PoolThreads -> SUBSET PoolPkts] /\ list' \in [PoolThreads -> Seq(PoolPkts)]
    BY <1>2, <1>3, <1>4
  <2>4. pool_pc' \in [PoolThreads -> {"idle", "next", "cas", "push", "push_cas"}]
    BY <1>1, <1>2
  <2> QED  BY <1>1, <1>t, <2>1, <2>2, <2>3, <2>4, Zenon DEF PoolTypes
<1>o1. \A i, j \in 1 .. Len(stack) : stack[i] = stack[j] => i = j
  BY PoolOwners, Zenon
<1>o2. \A u \in PoolThreads, p \in PoolPkts : p \in pool_held[u] => p \notin Pool!InList(u)
  BY PoolOwners, Zenon
<1>o3. \A u \in PoolThreads, p \in PoolPkts : p \in PoolMine(u) => p \notin Pool!InPool
  BY PoolOwners, Zenon
<1>o4. \A u, x \in PoolThreads, p \in PoolPkts : p \in PoolMine(u) /\ p \in PoolMine(x) => u = x
  BY PoolOwners, Zenon
<1>o5. \A p \in PoolPkts : p \in Pool!InPool \/ \E u \in PoolThreads : p \in PoolMine(u)
  BY PoolOwners, Zenon
<1>8. /\ Pool!InList(t)' = R /\ Pool!InList(t) = {}
      /\ \A u \in PoolThreads \ {t} : Pool!InList(u)' = Pool!InList(u)
  <2>1. list[t] = << >>
    BY <1>1, Zenon DEF PoolInv, PoolGiver
  <2>2. Pool!InList(t) = {}
    BY <2>1, PoolNoElement, Zenon DEF Pool!InList
  <2>3. Pool!InList(t)' = R
    BY <1>5, Zenon DEF Pool!InList
  <2>4. \A u \in PoolThreads \ {t} : Pool!InList(u)' = Pool!InList(u)
    BY <1>5 DEF Pool!InList
  <2> QED  BY <2>2, <2>3, <2>4
<1> HIDE DEF R
<1>9. \A u \in PoolThreads : PoolMine(u)' = PoolMine(u)
  <2>1. PoolMine(t)' = PoolMine(t)
    BY <1>4, <1>5, <1>8, Zenon DEF PoolMine
  <2> QED  BY <1>5, <1>8, <2>1, Zenon DEF PoolMine
<1>10. (Pool!InPool)' = Pool!InPool /\ \A p \in Pool!InPool : p \in PoolPkts /\ p \notin R
  <2>1. (Pool!InPool)' = Pool!InPool
    BY <1>1, Zenon DEF Pool!InPool
  <2>2. \A p \in Pool!InPool : p \in PoolPkts
    BY <1>t, PoolSets, Zenon
  <2>3. \A p \in R : p \in PoolPkts /\ p \in PoolMine(t)
    BY <1>4, Zenon DEF PoolMine
  <2> QED  BY <1>o3, <2>1, <2>2, <2>3, Zenon
<1>11. (Pool!LinksSpellStack)'
  BY <1>1, <1>6, <1>10, PoolLinksKept, Zenon DEF PoolInv
<1>12. (Pool!PacketsConserved)'
  <2>1. \A i, j \in 1 .. Len(stack') : stack'[i] = stack'[j] => i = j
    BY <1>1, <1>o1, Zenon
  <2>2. \A u \in PoolThreads, p \in PoolPkts : p \in (pool_held[u])' => p \notin Pool!InList(u)'
    <3>1. \A p \in PoolPkts : p \in pool_held'[t] => p \notin Pool!InList(t)'
      BY <1>5, <1>8, Zenon
    <3>2. \A u \in PoolThreads \ {t} : pool_held'[u] = pool_held[u] /\ Pool!InList(u)' = Pool!InList(u)
      BY <1>5, <1>8, Zenon
    <3> QED  BY <1>o2, <3>1, <3>2, Zenon
  <2>3. \A u \in PoolThreads, p \in PoolPkts : p \in PoolMine(u)' => p \notin (Pool!InPool)'
    <3>1. (Pool!InPool)' = Pool!InPool
      BY <1>10
    <3> QED  BY <1>9, <1>o3, <3>1, Zenon
  <2>4. \A u, x \in PoolThreads, p \in PoolPkts : p \in PoolMine(u)' /\ p \in PoolMine(x)' => u = x
    <3> TAKE u, x \in PoolThreads, p \in PoolPkts
    <3>1. PoolMine(u)' = PoolMine(u) /\ PoolMine(x)' = PoolMine(x)
      BY <1>9, Zenon
    <3> QED  BY <1>o4, <3>1, Zenon
  <2>5. \A p \in PoolPkts : p \in (Pool!InPool)' \/ \E u \in PoolThreads : p \in PoolMine(u)'
    <3> TAKE p \in PoolPkts
    <3>1. CASE p \in Pool!InPool
      BY <1>10, <3>1, Zenon
    <3>2. CASE p \notin Pool!InPool
      <4>1. PICK u \in PoolThreads : p \in PoolMine(u)
        BY <1>o5, <3>2, Zenon
      <4> QED  BY <1>9, <4>1, Zenon
    <3> QED  BY <3>1, <3>2
  <2>6. \A p \in (Pool!InPool)' : refcount'[p] = 0
    BY <1>6, <1>10, PoolOwners, Zenon
  <2> QED  BY <1>7, <2>1, <2>2, <2>3, <2>4, <2>5, <2>6, PoolOwned, Zenon
<1>13. ASSUME NEW u \in PoolThreads, u # t PROVE PoolTaker(u)' /\ PoolGiver(u)'
  <2>1. PoolTaker(u) /\ PoolGiver(u)
    BY DEF PoolInv
  <2>2. /\ link'[u] = link[u] /\ new_id'[u] = new_id[u] /\ pool_pc'[u] = pool_pc[u]
        /\ list'[u] = list[u] /\ pool'.tag = pool.tag
    BY <1>1, <1>5, <1>13, Zenon
  <2>3. \A p \in Pool!InList(u) : p \in PoolPkts /\ p \notin R
    <3>1. \A p \in Pool!InList(u) : p \in PoolPkts /\ p \in PoolMine(u)
      BY <1>t, PoolSets, Zenon DEF PoolMine
    <3>2. \A p \in R : p \in PoolMine(t)
      BY <1>4, Zenon DEF PoolMine
    <3> QED  BY <1>13, <1>o4, <3>1, <3>2, Zenon
  <2>4. PoolTaker(u)'
    BY <1>6, <1>10, <1>t, <2>1, <2>2, PoolTakerKept, Zenon
  <2>5. PoolGiver(u)'
    BY <1>6, <1>t, <2>1, <2>2, <2>3, PoolGiverKept, Zenon
  <2> QED  BY <2>4, <2>5
<1>14. PoolTaker(t)'
  BY <1>5, Zenon DEF PoolTaker
<1>15. PoolGiver(t)'
  BY <1>3, <1>4, <1>5, <1>6, <1>8, Zenon DEF PoolGiver
<1> QED  BY <1>7, <1>11, <1>12, <1>13, <1>14, <1>15, Zenon DEF PoolInv

(* The tail of the list is linked to the head of the pool that was read. *)
LEMMA PoolLinks ==
  ASSUME PoolInv, NEW t \in PoolThreads, Pool!FreeRead(t)
  PROVE  PoolInv'
<1>t. PoolTypes
  BY DEF PoolInv
<1>2. /\ pool \in [id : PoolPkts \cup {ListEnd}, tag : Nat]
      /\ pool_next \in [PoolPkts -> PoolPkts \cup {ListEnd}] /\ list[t] \in Seq(PoolPkts)
      /\ link \in [PoolThreads -> [id : PoolPkts \cup {ListEnd}, tag : Nat]]
      /\ pool_pc \in [PoolThreads -> {"idle", "next", "cas", "push", "push_cas"}]
  BY <1>t DEF PoolTypes
<1>1. /\ pool_pc[t] = "push" /\ pool_pc' = [pool_pc EXCEPT ![t] = "push_cas"]
      /\ link' = [link EXCEPT ![t] = pool]
      /\ pool_next' = [pool_next EXCEPT ![Pool!Last(list[t])] = pool.id]
      /\ UNCHANGED <<pool, refcount, pool_held, list, new_id, stack>>
  BY Zenon DEF Pool!FreeRead, Pool!Goto
<1>3. PoolGiver(t) /\ list[t] # << >>
  BY <1>1, Zenon DEF PoolInv, PoolGiver
<1>4. PICK x \in PoolPkts : x = Pool!Last(list[t]) /\ x \in Pool!InList(t)
  <2>1. Len(list[t]) \in 1 .. Len(list[t]) /\ list[t][Len(list[t])] \in PoolPkts
    BY <1>2, <1>3, PoolEnds, Zenon
  <2> QED  BY <2>1, Zenon DEF Pool!Last, Pool!InList
<1>5. /\ pool_next' \in [PoolPkts -> PoolPkts \cup {ListEnd}] /\ pool_next'[x] = pool.id
      /\ \A p \in PoolPkts : p # x => pool_next'[p] = pool_next[p]
  BY <1>1, <1>2, <1>4
<1>6. /\ link'[t] = pool /\ pool_pc'[t] = "push_cas"
      /\ \A u \in PoolThreads \ {t} : link'[u] = link[u] /\ pool_pc'[u] = pool_pc[u]
  BY <1>1, <1>2, Zenon
<1>7. PoolTypes'
  <2>1. /\ pool_pc' \in [PoolThreads -> {"idle", "next", "cas", "push", "push_cas"}]
        /\ link' \in [PoolThreads -> [id : PoolPkts \cup {ListEnd}, tag : Nat]]
    BY <1>1, <1>2, Zenon
  <2> QED  BY <1>1, <1>5, <1>t, <2>1, Zenon DEF PoolTypes
<1>8. /\ (Pool!InPool)' = Pool!InPool /\ x \notin Pool!InPool
      /\ \A p \in Pool!InPool : pool_next'[p] = pool_next[p]
  <2>1. (Pool!InPool)' = Pool!InPool
    BY <1>1, Zenon DEF Pool!InPool
  <2>2. x \notin Pool!InPool
    BY <1>4, PoolOwners, Zenon DEF PoolMine
  <2> QED  BY <1>5, <1>t, <2>1, <2>2, PoolSets, Zenon
<1>9. (Pool!LinksSpellStack)' /\ (Pool!PacketsConserved)'
  BY <1>1, <1>8, PoolLinksKept, PoolOwnersKept, Zenon DEF PoolInv
<1>10. ASSUME NEW u \in PoolThreads, u # t PROVE PoolTaker(u)' /\ PoolGiver(u)'
  <2>1. PoolTaker(u) /\ PoolGiver(u)
    BY DEF PoolInv
  <2>2. /\ link'[u] = link[u] /\ new_id'[u] = new_id[u] /\ pool_pc'[u] = pool_pc[u]
        /\ list'[u] = list[u] /\ pool'.tag = pool.tag /\ refcount' = refcount
    BY <1>1, <1>6, <1>10, Zenon
  <2>3. \A p \in Pool!InList(u) : p \in PoolPkts /\ p # x
    <3>1. \A p \in Pool!InList(u) : p \in PoolPkts /\ p \in PoolMine(u)
      BY <1>t, PoolSets, Zenon DEF PoolMine
    <3>2. \A y, z \in PoolThreads, p \in PoolPkts : p \in PoolMine(y) /\ p \in PoolMine(z) => y = z
      BY PoolOwners, Zenon
    <3>3. x \in PoolMine(t)
      BY <1>4, Zenon DEF PoolMine
    <3> QED  BY <1>10, <3>1, <3>2, <3>3, Zenon
  <2>4. PoolTaker(u)'
    BY <1>8, <1>t, <2>1, <2>2, PoolTakerKept, Zenon
  <2>5. PoolGiver(u)'
    BY <1>5, <1>t, <2>1, <2>2, <2>3, PoolGiverKept, Zenon
  <2> QED  BY <2>4, <2>5
<1>11. PoolTaker(t)'
  BY <1>6, Zenon DEF PoolTaker
<1>12. PoolGiver(t)'
  <2>1. Pool!InList(t)' = Pool!InList(t)
    BY <1>1, Zenon DEF Pool!InList
  <2>2. Len(list[t]) = 2 => list[t][1] \in PoolPkts /\ list[t][1] # x
    <3>1. list[t][1] \in PoolPkts
      BY <1>2, <1>3, PoolEnds, Zenon
    <3>2. Len(list[t]) = 2 => list[t][1] # list[t][2]
      BY <1>3, Zenon DEF PoolGiver
    <3>3. x = list[t][Len(list[t])]
      BY <1>4, Zenon DEF Pool!Last
    <3> QED  BY <3>1, <3>2, <3>3, Zenon
  <2>3. /\ pool_next'[Pool!Last(list[t])] = pool.id
        /\ Len(list[t]) = 2 => pool_next'[list[t][1]] = pool_next[list[t][1]]
    BY <1>4, <1>5, <2>2, Zenon
  <2>4. list'[t] = list[t] /\ refcount' = refcount
    BY <1>1, Zenon
  <2> QED  BY <1>3, <1>6, <2>1, <2>3, <2>4, Zenon DEF PoolGiver, Pool!Last
<1> QED  BY <1>7, <1>9, <1>10, <1>11, <1>12, Zenon DEF PoolInv

(* The places in a sequence of n + m items *)
LEMMA PoolIndex ==
  ASSUME NEW n \in Nat, NEW m \in Nat
  PROVE  /\ \A i \in 1 .. n + m : i \in 1 .. n \/ \E k \in 1 .. m : i = k + n
         /\ \A i \in 1 .. n : i \in 1 .. n + m
         /\ \A k \in 1 .. m : /\ k + n \in 1 .. n + m /\ k + n \in n + 1 .. n + m
                              /\ k + n - n = k
                              /\ k + n = n + m <=> k = m
                              /\ k # m => k + 1 \in 1 .. m /\ (k + 1) + n = (k + n) + 1
<1>1. ASSUME NEW i \in 1 .. n + m, i \notin 1 .. n PROVE \E k \in 1 .. m : i = k + n
  <2>1. i - n \in 1 .. m /\ i = (i - n) + n
    BY <1>1
  <2> QED  BY <2>1, Zenon
<1>2. \A i \in 1 .. n + m : i \in 1 .. n \/ \E k \in 1 .. m : i = k + n
  BY <1>1, Zenon
<1>3. \A i \in 1 .. n : i \in 1 .. n + m
  OBVIOUS
<1>4. \A k \in 1 .. m : /\ k + n \in 1 .. n + m /\ k + n \in n + 1 .. n + m
                        /\ k + n - n = k
                        /\ k + n = n + m <=> k = m
                        /\ k # m => k + 1 \in 1 .. m /\ (k + 1) + n = (k + n) + 1
  OBVIOUS
<1> QED  BY <1>2, <1>3, <1>4, Zenon

(* The place that follows that of k in such a sequence *)
LEMMA PoolPlace ==
  ASSUME NEW n \in Nat, NEW m \in Nat, NEW k \in 1 .. m
  PROVE  /\ k + n = n + m <=> k = m
         /\ k # m => k + 1 \in 1 .. m /\ (k + 1) + n = (k + n) + 1
  OBVIOUS

(* Whether anything follows the first n places *)
LEMMA PoolRest ==
  ASSUME NEW n \in Nat, NEW m \in Nat
  PROVE  (n = n + m <=> m = 0) /\ (m # 0 => 1 \in 1 .. m)
  OBVIOUS

(* Two sequences one after the other *)
LEMMA PoolJoined ==
  ASSUME NEW S, NEW a \in Seq(S), NEW b \in Seq(S)
  PROVE  /\ a \o b \in Seq(S) /\ Len(a \o b) = Len(a) + Len(b)
         /\ \A i \in 1 .. Len(a) : (a \o b)[i] = a[i]
         /\ \A k \in 1 .. Len(b) : (a \o b)[k + Len(a)] = b[k]
<1>1. /\ a \o b \in Seq(S) /\ Len(a \o b) = Len(a) + Len(b)
      /\ \A i \in 1 .. Len(a) : (a \o b)[i] = a[i]
      /\ \A i \in Len(a) + 1 .. Len(a) + Len(b) : (a \o b)[i] = b[i - Len(a)]
  OBVIOUS
<1>2. Len(a) \in Nat /\ Len(b) \in Nat
  OBVIOUS
<1>3. \A k \in 1 .. Len(b) :
        k + Len(a) \in Len(a) + 1 .. Len(a) + Len(b) /\ k + Len(a) - Len(a) = k
  BY <1>2, PoolIndex
<1>4. ASSUME NEW k \in 1 .. Len(b) PROVE (a \o b)[k + Len(a)] = b[k]
  BY <1>1, <1>3
<1> QED  BY <1>1, <1>4, Zenon

(* A sequence of n + m items: a and then b; what links spell; and that no  *)
(* item comes twice                                                        *)
PoolIsJoined(r, a, n, b, m) ==
  (\A i \in 1 .. n : r[i] = a[i]) /\ (\A k \in 1 .. m : r[k + n] = b[k])
PoolSpells(nx, s, n) == \A i \in 1 .. n : nx[s[i]] = IF i = n THEN ListEnd ELSE s[i + 1]
PoolItems(s, n) == {s[i] : i \in 1 .. n}
PoolDistinct(s, n) == \A i, j \in 1 .. n : s[i] = s[j] => i = j

(* The links of a list of one or two packets, linked to the head of the    *)
(* pool and put in front of it                                             *)
LEMMA PoolSpelled ==
  ASSUME NEW n \in 1 .. 2, NEW m \in Nat, NEW a, NEW b, NEW r, NEW nx,
         PoolIsJoined(r, a, n, b, m), PoolSpells(nx, b, m),
         n = 2 => nx[a[1]] = a[2],
         nx[a[n]] = IF m = 0 THEN ListEnd ELSE b[1]
  PROVE  PoolSpells(nx, r, n + m)
<1>j. /\ \A i \in 1 .. n : r[i] = a[i]
      /\ \A k \in 1 .. m : r[k + n] = b[k]
      /\ \A k \in 1 .. m : nx[b[k]] = IF k = m THEN ListEnd ELSE b[k + 1]
  BY Zenon DEF PoolIsJoined, PoolSpells
<1>n. n \in Nat /\ n \in 1 .. n /\ (n = 1 \/ n = 2) /\ 1 + n = n + 1
  OBVIOUS
<1>1. ASSUME NEW i \in 1 .. n, i # n
      PROVE  i = 1 /\ n = 2 /\ 1 # n + m /\ 1 + 1 = 2 /\ 1 \in 1 .. n /\ 2 \in 1 .. n
  BY <1>1
<1>2. (n = n + m <=> m = 0) /\ (m # 0 => 1 \in 1 .. m)
  BY <1>n, PoolRest, Zenon
<1>3. ASSUME NEW i \in 1 .. n PROVE nx[r[i]] = IF i = n + m THEN ListEnd ELSE r[i + 1]
  <2>1. CASE i = n
    <3>1. r[n] = a[n]
      BY <1>j, <1>n, Zenon
    <3>2. m # 0 => r[1 + n] = b[1]
      BY <1>j, <1>2, Zenon
    <3>3. m # 0 => r[n + 1] = b[1]
      BY <1>n, <3>2, Zenon
    <3> QED  BY <1>2, <2>1, <3>1, <3>3, Zenon
  <2>2. CASE i # n
    <3>1. i = 1 /\ n = 2 /\ 1 # n + m /\ 1 + 1 = 2 /\ 1 \in 1 .. n /\ 2 \in 1 .. n
      BY <1>1, <2>2, Zenon
    <3>2. r[1] = a[1] /\ r[2] = a[2]
      BY <1>j, <3>1, Zenon
    <3>3. nx[a[1]] = a[2]
      BY <3>1, Zenon
    <3>4. i + 1 = 2 /\ i # n + m
      BY <3>1, Zenon
    <3> QED  BY <3>1, <3>2, <3>3, <3>4, Zenon
  <2> QED  BY <2>1, <2>2, Zenon
<1>4. ASSUME NEW k \in 1 .. m
      PROVE  nx[r[k + n]] = IF k + n = n + m THEN ListEnd ELSE r[(k + n) + 1]
  <2>1. /\ k + n = n + m <=> k = m
        /\ k # m => k + 1 \in 1 .. m /\ (k + 1) + n = (k + n) + 1
    <3>1. n \in Nat
      BY <1>n, Zenon
    <3> QED  BY <3>1, PoolPlace, ZenonT(30)
  <2>2. ASSUME k # m PROVE r[(k + n) + 1] = b[k + 1]
    <3>1. PICK j \in 1 .. m : j = k + 1 /\ j + n = (k + n) + 1
      BY <2>1, <2>2, Zenon
    <3>2. r[j + n] = b[j]
      BY <1>j, Zenon
    <3> QED  BY <3>1, <3>2, Zenon
  <2> QED  BY <1>j, <2>1, <2>2, Zenon
<1>5. \A i \in 1 .. n + m : i \in 1 .. n \/ \E k \in 1 .. m : i = k + n
  BY <1>n, PoolIndex, Zenon
<1> QED  BY <1>3, <1>4, <1>5 DEF PoolSpells

(* Two sequences without repetitions and with nothing in common *)
LEMMA PoolApart ==
  ASSUME NEW n \in Nat, NEW m \in Nat, NEW a, NEW b, NEW r,
         PoolIsJoined(r, a, n, b, m), PoolDistinct(a, n), PoolDistinct(b, m),
         PoolItems(a, n) \cap PoolItems(b, m) = {}
  PROVE  /\ PoolDistinct(r, n + m)
         /\ PoolItems(r, n + m) = PoolItems(a, n) \cup PoolItems(b, m)
<1>j. /\ \A i \in 1 .. n : r[i] = a[i]
      /\ \A k \in 1 .. m : r[k + n] = b[k]
  BY Zenon DEF PoolIsJoined
<1>x. \A i \in 1 .. n, j \in 1 .. m : a[i] # b[j]
  BY Zenon DEF PoolItems
<1>d. /\ \A i, j \in 1 .. n : a[i] = a[j] => i = j
      /\ \A i, j \in 1 .. m : b[i] = b[j] => i = j
  BY Zenon DEF PoolDistinct
<1>1. /\ \A i \in 1 .. n + m : i \in 1 .. n \/ \E k \in 1 .. m : i = k + n
      /\ \A i \in 1 .. n : i \in 1 .. n + m
      /\ \A k \in 1 .. m : k + n \in 1 .. n + m
  BY PoolIndex, Zenon
<1>2. ASSUME NEW i \in 1 .. n + m, NEW j \in 1 .. n + m, r[i] = r[j] PROVE i = j
  <2>1. CASE i \in 1 .. n /\ j \in 1 .. n
    BY <1>2, <1>j, <1>d, <2>1, Zenon
  <2>2. ASSUME NEW k \in 1 .. m, i = k + n, j \in 1 .. n PROVE FALSE
    BY <1>2, <1>j, <1>x, <2>2, Zenon
  <2>3. ASSUME NEW k \in 1 .. m, j = k + n, i \in 1 .. n PROVE FALSE
    BY <1>2, <1>j, <1>x, <2>3
  <2>4. ASSUME NEW k \in 1 .. m, NEW l \in 1 .. m, i = k + n, j = l + n PROVE i = j
    <3>1. b[k] = b[l]
      BY <1>2, <1>j, <2>4
    <3>2. k = l
      BY <1>d, <3>1, Zenon
    <3> QED  BY <2>4, <3>2, Zenon
  <2> QED  BY <1>1, <2>1, <2>2, <2>3, <2>4
<1>3. ASSUME NEW p \in {r[i] : i \in 1 .. n + m}
      PROVE  p \in {a[i] : i \in 1 .. n} \cup {b[i] : i \in 1 .. m}
  <2>1. PICK i \in 1 .. n + m : p = r[i]
    BY Zenon
  <2>2. CASE i \in 1 .. n
    BY <1>j, <2>1, <2>2, Zenon
  <2>3. ASSUME NEW k \in 1 .. m, i = k + n PROVE p \in {b[j] : j \in 1 .. m}
    BY <1>j, <2>1, <2>3, Zenon
  <2> QED  BY <1>1, <2>2, <2>3, Zenon
<1>4. ASSUME NEW p \in {a[i] : i \in 1 .. n} PROVE p \in {r[i] : i \in 1 .. n + m}
  BY <1>1, <1>j
<1>5. ASSUME NEW p \in {b[i] : i \in 1 .. m} PROVE p \in {r[i] : i \in 1 .. n + m}
  BY <1>1, <1>j
<1> QED  BY <1>2, <1>3, <1>4, <1>5, Zenon DEF PoolDistinct, PoolItems

(* The swap of ci_netif_pkt_free_nonb_list puts the list in front of the   *)
(* pool, and raises the tag.                                               *)
LEMMA PoolGives ==
  ASSUME ListEnd \notin PoolPkts, PoolInv, NEW t \in PoolThreads, Pool!FreeCas(t),
         Pool!Unchanged(pool, link[t])
  PROVE  PoolInv'
<1>t. PoolTypes /\ PoolGiver(t)
  BY DEF PoolInv
<1>1. /\ pool_pc[t] = "push_cas" /\ pool_pc' = [pool_pc EXCEPT ![t] = "idle"] /\ pool = link[t]
      /\ pool' = [id |-> list[t][1], tag |-> pool.tag + 1]
      /\ list' = [list EXCEPT ![t] = << >>] /\ stack' = list[t] \o stack
      /\ link' = [link EXCEPT ![t] = Pool!NoWord]
      /\ UNCHANGED <<pool_next, refcount, pool_held, new_id>>
  BY Zenon DEF Pool!FreeCas, Pool!Goto, Pool!Unchanged
<1>2. /\ pool \in [id : PoolPkts \cup {ListEnd}, tag : Nat] /\ stack \in Seq(PoolPkts)
      /\ pool_held \in [PoolThreads -> SUBSET PoolPkts] /\ list \in [PoolThreads -> Seq(PoolPkts)]
      /\ link \in [PoolThreads -> [id : PoolPkts \cup {ListEnd}, tag : Nat]]
      /\ pool_pc \in [PoolThreads -> {"idle", "next", "cas", "push", "push_cas"}]
  BY <1>t, Zenon DEF PoolTypes
<1>3. PICK a \in Seq(PoolPkts) : a = list[t]
  BY <1>2, Zenon
<1>4. PICK b \in Seq(PoolPkts) : b = stack
  BY <1>2, Zenon
<1>5. PICK r \in Seq(PoolPkts) :
        /\ r = stack' /\ Len(r) = Len(a) + Len(b)
        /\ \A i \in 1 .. Len(a) : r[i] = a[i]
        /\ \A k \in 1 .. Len(b) : r[k + Len(a)] = b[k]
  <2>1. PICK S : S = PoolPkts
    OBVIOUS
  <2>2. a \in Seq(S) /\ b \in Seq(S)
    BY <2>1, Zenon
  <2>3. /\ a \o b \in Seq(S) /\ Len(a \o b) = Len(a) + Len(b)
        /\ \A i \in 1 .. Len(a) : (a \o b)[i] = a[i]
        /\ \A k \in 1 .. Len(b) : (a \o b)[k + Len(a)] = b[k]
    BY <2>2, PoolJoined
  <2>4. stack' = a \o b
    BY <1>1, <1>3, <1>4, Zenon
  <2> QED  BY <2>1, <2>3, <2>4, Zenon
<1>6. PICK m \in Nat : m = Len(b) /\ (m = 0 <=> b = << >>)
  <2>1. Len(b) \in Nat /\ (Len(b) = 0 <=> b = << >>)
    OBVIOUS
  <2> QED  BY <2>1, Zenon
<1>7. PICK n \in 1 .. 2 : n = Len(a)
  <2>1. a # << >> /\ Len(a) <= 2
    BY <1>1, <1>3, <1>t, Zenon DEF PoolGiver
  <2>2. PICK l \in Nat : l = Len(a) /\ (l = 0 => a = << >>)
    OBVIOUS
  <2>3. l <= 2 /\ l # 0
    BY <2>1, <2>2, Zenon
  <2>4. l \in 1 .. 2
    BY <2>3
  <2> QED  BY <2>2, <2>4, Zenon
<1>8. PoolIsJoined(r, a, n, b, m) /\ Len(r) = n + m /\ \A i \in 1 .. n : r[i] = a[i]
  BY <1>5, <1>6, <1>7, Zenon DEF PoolIsJoined
<1>n. n \in Nat /\ 1 \in 1 .. n /\ n \in 1 .. n /\ n + m # 0
  OBVIOUS
<1>9. a[1] \in PoolPkts /\ r[1] = a[1] /\ r # << >>
  <2>1. a[1] \in PoolPkts
    BY <1>7, <1>n
  <2>2. r[1] = a[1]
    BY <1>8, <1>n, Zenon
  <2>3. Len(r) # 0
    BY <1>8, <1>n, Zenon
  <2>4. r # << >>
    BY <2>3, PoolNoElement, Zenon
  <2> QED  BY <2>1, <2>2, <2>4
<1>10. /\ pool'.id = a[1] /\ pool'.tag = pool.tag + 1
       /\ pool' \in [id : PoolPkts \cup {ListEnd}, tag : Nat]
  <2>1. pool.tag \in Nat /\ pool.tag + 1 \in Nat
    BY <1>2
  <2> QED  BY <1>1, <1>3, <1>9, <2>1
<1>11. PoolTypes'
  <2>1. Pool!NoWord \in [id : PoolPkts \cup {ListEnd}, tag : Nat]
    BY DEF Pool!NoWord
  <2>2. << >> \in Seq(PoolPkts)
    OBVIOUS
  <2>3. /\ link' \in [PoolThreads -> [id : PoolPkts \cup {ListEnd}, tag : Nat]]
        /\ list' \in [PoolThreads -> Seq(PoolPkts)]
        /\ pool_pc' \in [PoolThreads -> {"idle", "next", "cas", "push", "push_cas"}]
    BY <1>1, <1>2, <2>1, <2>2, Zenon
  <2> QED  BY <1>1, <1>t, <1>5, <1>10, <2>3, Zenon DEF PoolTypes
<1>12. (Pool!LinksSpellStack)'
  <2>1. n = 2 => pool_next[a[1]] = a[2]
    BY <1>3, <1>7, <1>t, Zenon DEF PoolGiver
  <2>2. pool_next[a[n]] = IF m = 0 THEN ListEnd ELSE b[1]
    <3>1. pool_next[a[n]] = pool.id
      BY <1>1, <1>3, <1>7, <1>t, Zenon DEF PoolGiver, Pool!Last
    <3>2. pool.id = IF b = << >> THEN ListEnd ELSE b[1]
      BY <1>4, Zenon DEF PoolInv, Pool!LinksSpellStack
    <3> QED  BY <1>6, <3>1, <3>2, Zenon
  <2>3. PoolSpells(pool_next, b, m)
    BY <1>4, <1>6, Zenon DEF PoolInv, Pool!LinksSpellStack, PoolSpells
  <2>4. PICK nx : nx = pool_next
    OBVIOUS
  <2>5. PoolSpells(nx, r, n + m)
    <3>1. /\ n = 2 => nx[a[1]] = a[2]
          /\ nx[a[n]] = IF m = 0 THEN ListEnd ELSE b[1]
          /\ PoolSpells(nx, b, m)
      BY <2>1, <2>2, <2>3, <2>4, Zenon
    <3> QED  BY <1>8, <3>1, PoolSpelled, Zenon
  <2>6. pool_next' = nx /\ stack' = r /\ Len(r) = n + m /\ pool'.id = r[1] /\ r # << >>
    BY <1>1, <1>5, <1>8, <1>9, <1>10, <2>4, Zenon
  <2> QED  BY <2>5, <2>6, Zenon DEF Pool!LinksSpellStack, PoolSpells
<1>o3. \A u \in PoolThreads, p \in PoolPkts : p \in PoolMine(u) => p \notin Pool!InPool
  BY PoolOwners, Zenon
<1>o4. \A u, x \in PoolThreads, p \in PoolPkts : p \in PoolMine(u) /\ p \in PoolMine(x) => u = x
  BY PoolOwners, Zenon
<1>13. /\ Pool!InList(t) = PoolItems(a, n) /\ Pool!InPool = PoolItems(b, m)
       /\ (Pool!InPool)' = PoolItems(r, n + m)
  <2>1. Pool!InList(t) = PoolItems(a, n)
    BY <1>3, <1>7, Zenon DEF Pool!InList, PoolItems
  <2>2. Pool!InPool = PoolItems(b, m)
    BY <1>4, <1>6, Zenon DEF Pool!InPool, PoolItems
  <2>3. stack' = r /\ Len(r) = n + m
    BY <1>5, <1>8, Zenon
  <2>4. (Pool!InPool)' = PoolItems(r, n + m)
    BY <2>3, Zenon DEF Pool!InPool, PoolItems
  <2> QED  BY <2>1, <2>2, <2>4
<1>14. /\ PoolDistinct(r, n + m)
       /\ PoolItems(r, n + m) = PoolItems(a, n) \cup PoolItems(b, m)
  <2>1. PoolDistinct(a, n)
    <3>1. n = 2 => a[1] # a[2]
      BY <1>3, <1>7, <1>t, Zenon DEF PoolGiver
    <3> QED  BY <3>1 DEF PoolDistinct
  <2>2. PoolDistinct(b, m)
    <3>1. PoolDistinct(stack, Len(stack))
      BY PoolOwners, Zenon DEF PoolDistinct
    <3> QED  BY <1>4, <1>6, <3>1, Zenon
  <2>3. \A p \in Pool!InList(t) : p \notin Pool!InPool
    BY <1>o3, <1>t, PoolSets, Zenon DEF PoolMine
  <2>4. PoolItems(a, n) \cap PoolItems(b, m) = {}
    BY <1>13, <2>3, Zenon
  <2>5. PICK k \in Nat : k = n
    BY <1>n, Zenon
  <2>6. /\ PoolIsJoined(r, a, k, b, m) /\ PoolDistinct(a, k) /\ PoolDistinct(b, m)
        /\ PoolItems(a, k) \cap PoolItems(b, m) = {}
    BY <1>8, <2>1, <2>2, <2>4, <2>5, Zenon
  <2>7. PoolDistinct(r, k + m) /\ PoolItems(r, k + m) = PoolItems(a, k) \cup PoolItems(b, m)
    BY <2>6, PoolApart
  <2> QED  BY <2>5, <2>7, Zenon
<1>15. (Pool!InPool)' = Pool!InPool \cup Pool!InList(t)
  BY <1>13, <1>14, Zenon
<1>16. /\ list'[t] = << >> /\ pool_pc'[t] = "idle"
       /\ \A u \in PoolThreads \ {t} :
            list'[u] = list[u] /\ link'[u] = link[u] /\ pool_pc'[u] = pool_pc[u]
  BY <1>1, <1>2, Zenon
<1>17. /\ Pool!InList(t)' = {} /\ \A u \in PoolThreads \ {t} : Pool!InList(u)' = Pool!InList(u)
  <2>1. Pool!InList(t)' = {}
    <3>1. list'[t] \in Seq(PoolPkts) /\ list'[t] = << >>
      BY <1>16
    <3> QED  BY <3>1, PoolListEnds, Zenon DEF Pool!InList
  <2>2. \A u \in PoolThreads \ {t} : Pool!InList(u)' = Pool!InList(u)
    BY <1>16 DEF Pool!InList
  <2> QED  BY <2>1, <2>2
<1>18. /\ \A u \in PoolThreads \ {t} : PoolMine(u)' = PoolMine(u)
       /\ PoolMine(t)' = pool_held[t]
       /\ \A p \in PoolPkts : p \in PoolMine(t) <=> p \in PoolMine(t)' \/ p \in Pool!InList(t)
       /\ \A p \in PoolPkts : p \in PoolMine(t)' => p \notin Pool!InList(t)
  <2>1. \A u \in PoolThreads \ {t} : PoolMine(u)' = PoolMine(u)
    BY <1>1, <1>17, Zenon DEF PoolMine
  <2>2. PoolMine(t)' = pool_held[t]
    BY <1>1, <1>17, Zenon DEF PoolMine
  <2>3. \A p \in PoolPkts : p \in pool_held[t] => p \notin Pool!InList(t)
    BY PoolOwners, Zenon
  <2> QED  BY <2>1, <2>2, <2>3, Zenon DEF PoolMine
<1>19. (Pool!PacketsConserved)'
  <2>1. \A i, j \in 1 .. Len(stack') : stack'[i] = stack'[j] => i = j
    BY <1>5, <1>8, <1>14, Zenon DEF PoolDistinct
  <2>2. \A u \in PoolThreads, p \in PoolPkts : p \in (pool_held[u])' => p \notin Pool!InList(u)'
    <3>1. \A u \in PoolThreads : Pool!InList(u)' = {} \/ Pool!InList(u)' = Pool!InList(u)
      BY <1>17, Zenon
    <3>2. \A u \in PoolThreads, p \in PoolPkts : p \in pool_held[u] => p \notin Pool!InList(u)
      BY PoolOwners, Zenon
    <3> QED  BY <1>1, <3>1, <3>2, Zenon
  <2>3. \A u \in PoolThreads, p \in PoolPkts : p \in PoolMine(u)' => p \notin (Pool!InPool)'
    <3> TAKE u \in PoolThreads, p \in PoolPkts
    <3>1. CASE u = t
      BY <1>15, <1>18, <1>o3, <3>1, Zenon
    <3>2. CASE u # t
      <4>1. PoolMine(u)' = PoolMine(u)
        BY <1>18, <3>2, Zenon
      <4>2. p \in PoolMine(u) => p \notin Pool!InList(t)
        BY <1>o4, <3>2, Zenon DEF PoolMine
      <4> QED  BY <1>15, <1>o3, <4>1, <4>2, Zenon
    <3> QED  BY <3>1, <3>2
  <2>4. \A u, x \in PoolThreads, p \in PoolPkts : p \in PoolMine(u)' /\ p \in PoolMine(x)' => u = x
    <3>1. \A u \in PoolThreads, p \in PoolPkts : p \in PoolMine(u)' => p \in PoolMine(u)
      BY <1>18, Zenon
    <3> TAKE u, x \in PoolThreads, p \in PoolPkts
    <3>2. p \in PoolMine(u)' /\ p \in PoolMine(x)' => p \in PoolMine(u) /\ p \in PoolMine(x)
      BY <3>1, Zenon
    <3> QED  BY <1>o4, <3>2, Zenon
  <2>5. \A p \in PoolPkts : p \in (Pool!InPool)' \/ \E u \in PoolThreads : p \in PoolMine(u)'
    <3> TAKE p \in PoolPkts
    <3>1. CASE p \in Pool!InPool
      BY <1>15, <3>1, Zenon
    <3>2. CASE p \notin Pool!InPool
      <4>1. PICK u \in PoolThreads : p \in PoolMine(u)
        BY <3>2, PoolOwners, Zenon
      <4>2. p \in PoolMine(u)' \/ p \in Pool!InList(t)
        BY <1>18, <4>1, Zenon
      <4> QED  BY <1>15, <4>2, Zenon
    <3> QED  BY <3>1, <3>2
  <2>6. \A p \in (Pool!InPool)' : refcount'[p] = 0
    <3>1. \A p \in Pool!InPool : refcount[p] = 0
      BY PoolOwners, Zenon
    <3>2. \A p \in Pool!InList(t) : refcount[p] = 0
      BY <1>t, Zenon DEF PoolGiver
    <3> QED  BY <1>1, <1>15, <3>1, <3>2, Zenon
  <2> QED  BY <1>11, <2>1, <2>2, <2>3, <2>4, <2>5, <2>6, PoolOwned, Zenon
<1>20. ASSUME NEW u \in PoolThreads, u # t PROVE PoolTaker(u)' /\ PoolGiver(u)'
  <2>1. PoolTaker(u) /\ PoolGiver(u)
    BY DEF PoolInv
  <2>2. /\ link'[u] = link[u] /\ new_id'[u] = new_id[u] /\ pool_pc'[u] = pool_pc[u]
        /\ list'[u] = list[u] /\ refcount' = refcount /\ pool_next' = pool_next
    BY <1>1, <1>16, <1>20, Zenon
  <2>3. PoolTaker(u)'
    BY <1>10, <1>t, <2>1, <2>2, PoolTakerKept, Zenon
  <2>4. PoolGiver(u)'
    BY <1>t, <2>1, <2>2, PoolGiverKept, Zenon
  <2> QED  BY <2>3, <2>4
<1>21. PoolTaker(t)' /\ PoolGiver(t)'
  <2>1. PoolTaker(t)'
    BY <1>16, Zenon DEF PoolTaker
  <2>2. Len(<< >>) = 0 /\ Len(<< >>) <= 2 /\ Len(<< >>) # 2
    OBVIOUS
  <2>3. PoolGiver(t)'
    BY <1>16, <1>17, <2>2, Zenon DEF PoolGiver
  <2> QED  BY <2>1, <2>3
<1> QED  BY <1>11, <1>12, <1>19, <1>20, <1>21, Zenon DEF PoolInv

(* Every step of the pool keeps the invariant. *)
LEMMA PoolStep ==
  ASSUME ListEnd \notin PoolPkts, PoolInv, [Pool!Next]_poolVars
  PROVE  PoolInv'
<1>1. CASE Pool!Next
  <2>1. PICK t \in PoolThreads :
          \/ Pool!AllocRead(t) \/ Pool!AllocNext(t) \/ Pool!AllocCas(t)
          \/ Pool!MakeList(t) \/ Pool!FreeRead(t) \/ Pool!FreeCas(t)
    BY <1>1, Zenon DEF Pool!Next
  <2>2. CASE Pool!MakeList(t)
    BY <2>2, PoolLists, Zenon
  <2>3. CASE Pool!FreeRead(t)
    BY <2>3, PoolLinks, Zenon
  <2>4. CASE Pool!AllocCas(t) /\ Pool!Unchanged(pool, link[t])
    BY <2>4, PoolTakes, Zenon
  <2>5. CASE Pool!FreeCas(t) /\ Pool!Unchanged(pool, link[t])
    BY <2>5, PoolGives, Zenon
  <2>6. CASE \/ Pool!AllocRead(t)
             \/ Pool!AllocNext(t)
             \/ Pool!AllocCas(t) /\ ~Pool!Unchanged(pool, link[t])
             \/ Pool!FreeCas(t) /\ ~Pool!Unchanged(pool, link[t])
    BY <2>6, PoolReads, Zenon
  <2> QED  BY <2>1, <2>2, <2>3, <2>4, <2>5, <2>6, Zenon
<1>2. CASE UNCHANGED poolVars
  <2>1. UNCHANGED <<pool, pool_next, refcount, pool_held, list, link, new_id, pool_pc, stack>>
    BY <1>2 DEF poolVars
  <2>2. PoolTypes'
    BY <2>1, Zenon DEF PoolInv, PoolTypes
  <2>3. (Pool!LinksSpellStack)' /\ (Pool!PacketsConserved)'
    BY <2>1, PoolLinksKept, PoolOwnersKept, Zenon DEF PoolInv
  <2>4. (Pool!InPool)' = Pool!InPool
    BY <2>1, Zenon DEF Pool!InPool
  <2>5. ASSUME NEW u \in PoolThreads PROVE PoolTaker(u)' /\ PoolGiver(u)'
    <3>1. PoolTaker(u) /\ PoolGiver(u) /\ PoolTypes
      BY DEF PoolInv
    <3> QED  BY <2>1, <2>4, <3>1, PoolTakerKept, PoolGiverKept, Zenon
  <2> QED  BY <2>2, <2>3, <2>5, Zenon DEF PoolInv
<1> QED  BY <1>1, <1>2

(* At first every packet is with a thread, and the pool is empty. *)
LEMMA PoolStarts ==
  ASSUME Pool!Init
  PROVE  PoolInv
<1>1. PICK owner \in [PoolPkts -> PoolThreads] :
        pool_held = [t \in PoolThreads |-> {p \in PoolPkts : owner[p] = t}]
  BY Zenon DEF Pool!Init
<1>2. /\ pool = [id |-> ListEnd, tag |-> 0] /\ pool_next = [p \in PoolPkts |-> ListEnd]
      /\ refcount = [p \in PoolPkts |-> 1] /\ list = [t \in PoolThreads |-> << >>]
      /\ link = [t \in PoolThreads |-> [id |-> ListEnd, tag |-> 0]]
      /\ new_id = [t \in PoolThreads |-> ListEnd] /\ pool_pc = [t \in PoolThreads |-> "idle"]
      /\ stack = << >>
  BY Zenon DEF Pool!Init, Pool!NoWord
<1>3. PoolTypes
  BY <1>1, <1>2 DEF PoolTypes
<1>4. Pool!InPool = {} /\ \A t \in PoolThreads : list[t] = << >> /\ Pool!InList(t) = {}
  BY <1>2 DEF Pool!InPool, Pool!InList
<1>5. Pool!LinksSpellStack
  BY <1>2 DEF Pool!LinksSpellStack
<1>6. \A t \in PoolThreads : pool_held[t] = {p \in PoolPkts : owner[p] = t}
  BY <1>1, Zenon
<1>7. Pool!PacketsConserved
  <2>1. \A i, j \in 1 .. Len(stack) : stack[i] = stack[j] => i = j
    BY <1>2
  <2>2. \A t \in PoolThreads : \A u \in PoolThreads \ {t} : pool_held[t] \cap pool_held[u] = {}
    BY <1>6
  <2>3. PoolPkts = Pool!InPool \cup UNION {pool_held[t] \cup Pool!InList(t) : t \in PoolThreads}
    <3>1. \A p \in PoolPkts : owner[p] \in PoolThreads /\ p \in pool_held[owner[p]]
      BY <1>6
    <3>2. \A t \in PoolThreads : pool_held[t] \subseteq PoolPkts
      BY <1>6
    <3> QED  BY <1>4, <3>1, <3>2
  <2> QED  BY <1>4, <2>1, <2>2, <2>3, Zenon DEF Pool!PacketsConserved
<1>8. ASSUME NEW t \in PoolThreads PROVE PoolTaker(t) /\ PoolGiver(t)
  <2>1. pool_pc[t] = "idle" /\ list[t] = << >> /\ Pool!InList(t) = {}
    BY <1>2, <1>4
  <2>2. Len(<< >>) = 0 /\ Len(<< >>) <= 2 /\ Len(<< >>) # 2
    OBVIOUS
  <2> QED  BY <2>1, <2>2, Zenon DEF PoolTaker, PoolGiver
<1> QED  BY <1>3, <1>5, <1>7, <1>8 DEF PoolInv

-----------------------------------------------------------------------------
(* The parts side by side *)

(* A step of the whole is a step of one part at most. *)
LEMMA QueuesSteps ==
  ASSUME [QueuesNext]_queuesVars
  PROVE  [Acc!Next]_accVars /\ [Pool!Next]_poolVars
  BY Zenon DEF QueuesNext, queuesVars, AccMoves, PoolMoves

(* The accept queue gives the connections in the order of their arrival,   *)
(* however ci_tcp_acceptq_put, ci_tcp_acceptq_get and put_back_tail        *)
(* interleave, and the count read without a lock is off by at most one for *)
(* each call under way: for any number of sockets and width of counters.   *)
THEOREM Accepted == QueuesSpec => []AcceptedInOrder
<1>1. QueuesInit => AccInv
  BY AccStarts, QueuesAssumption DEF QueuesInit
<1>2. AccInv /\ [QueuesNext]_queuesVars => AccInv'
  BY QueuesSteps, AccStep, QueuesAssumption, Zenon
<1>3. AccInv => AcceptedInOrder
  BY AccKeeps, QueuesAssumption DEF AcceptedInOrder
<1> QED  BY <1>1, <1>2, <1>3, PTL DEF QueuesSpec

(* The tag makes the non-blocking pool an atomic stack, however many       *)
(* threads take and return packets, and however often while the tag does   *)
(* not wrap: the links spell the stack, and every packet is in it once or  *)
(* with one thread.                                                        *)
THEOREM PoolAtomic == QueuesSpec => []PoolIsAStack
<1>1. QueuesInit => PoolInv
  BY PoolStarts, Zenon DEF QueuesInit
<1>2. PoolInv /\ [QueuesNext]_queuesVars => PoolInv'
  BY QueuesSteps, PoolStep, QueuesAssumption, Zenon
<1>3. PoolInv => PoolIsAStack
  BY Zenon DEF PoolInv, PoolIsAStack
<1> QED  BY <1>1, <1>2, <1>3, PTL DEF QueuesSpec
=============================================================================
