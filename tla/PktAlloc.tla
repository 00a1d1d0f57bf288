------------------------------ MODULE PktAlloc ------------------------------
(***************************************************************************)
(* The packet buffers of a stack (ci/internal/ip.h): sets of buffers with  *)
(* a free list each, allocation for receive and for TCP transmit from the  *)
(* current set, reference counts, and the one reference that a receive     *)
(* queue and an application share under CI_PKT_RX_FLAG_KEEP.  All of it    *)
(* runs under the stack lock.                                              *)
(***************************************************************************)
EXTENDS Integers, Sequences, FiniteSets, FiniteSetsExt, SequencesExt

CONSTANTS Pkts, SetOf,         \* the set a packet belongs to, numbered from 1
          SetsMax,             \* sets_max
          LowWater,            \* CI_CFG_PKT_SET_LOW_WATER
          MaxRx, MaxTx,        \* max_rx_packets, max_tx_packets
          MaxHolds             \* bound on the references taken to one packet

NoPkt == "NULL"
MaxPackets == Cardinality(Pkts)
Rx == "rx"
Tx == "tx"

VARIABLES free, nfree,         \* set[].free as the list it heads, set[].n_free
          n_free, id, sets_n,
          ref, n_rx, keep,     \* refcount, n_rx_pkts, packets with the KEEP flag
          pressure, need,      \* mem_pressure, CI_EPLOCK_NETIF_NEED_PKT_SET
          use, holders         \* what each packet is for, and who may release it

vars == <<free, nfree, n_free, id, sets_n, ref, n_rx, keep, pressure, need, use, holders>>
pool == <<free, nfree, n_free, sets_n>>

InSet(s) == {p \in Pkts : SetOf[p] = s}

TypeOK ==
  /\ free \in [1 .. SetsMax -> Seq(Pkts)] /\ nfree \in [1 .. SetsMax -> Nat] /\ n_free \in Nat
  /\ id \in 1 .. sets_n /\ sets_n \in 1 .. SetsMax
  /\ ref \in [Pkts -> Nat] /\ n_rx \in Nat /\ keep \subseteq Pkts
  /\ pressure \in BOOLEAN /\ need \in BOOLEAN
  /\ use \in [Pkts -> {Rx, Tx, NoPkt}] /\ holders \in [Pkts -> 0 .. MaxHolds]

Init ==
  /\ free = [s \in 1 .. SetsMax |-> IF s = 1 THEN SetToSeq(InSet(1)) ELSE << >>]
  /\ nfree = [s \in 1 .. SetsMax |-> IF s = 1 THEN Cardinality(InSet(1)) ELSE 0]
  /\ n_free = Cardinality(InSet(1)) /\ id = 1 /\ sets_n = 1
  /\ ref = [p \in Pkts |-> 0] /\ n_rx = 0 /\ keep = {} /\ pressure = FALSE /\ need = FALSE
  /\ use = [p \in Pkts |-> NoPkt] /\ holders = [p \in Pkts |-> 0]

-----------------------------------------------------------------------------
Allocated == Cardinality({p \in Pkts : SetOf[p] <= sets_n})      \* n_pkts_allocated
TxN == Allocated - n_rx - n_free
Mut_TxMayAlloc == TxN <= MaxPackets - MaxRx \/ (~pressure /\ TxN <= MaxTx)
Mut_TxMayAllocHigh == TxN < MaxPackets - MaxRx \/ TxN < MaxTx
TxMayAlloc == TxN < MaxPackets - MaxRx \/ (~pressure /\ TxN < MaxTx)

(* ci_netif_pkt_get *)
Get(s, for) ==
  LET p == Head(free[s]) IN
  /\ free' = [free EXCEPT ![s] = Tail(@)]
  /\ nfree' = [nfree EXCEPT ![s] = @ - 1]
  /\ n_free' = n_free - 1
  /\ ref' = [ref EXCEPT ![p] = 1]
  /\ use' = [use EXCEPT ![p] = for] /\ holders' = [holders EXCEPT ![p] = 1]
  /\ n_rx' = IF for = Rx THEN n_rx + 1 ELSE n_rx
  /\ UNCHANGED <<sets_n, keep, pressure>>

(* ci_netif_pkt_set_change *)
SetChange(s) == id' = s /\ need' = (need \/ (sets_n < SetsMax /\ nfree[s] < LowWater))

(* ci_netif_pkt_alloc_slow, not in the repository: another set with a free *)
(* packet becomes the current one, or a further set is asked for.          *)
AllocSlow(for) ==
  IF \E s \in 1 .. sets_n : nfree[s] > 0 /\ (for = Tx => TxMayAlloc)
  THEN \E s \in {k \in 1 .. sets_n : nfree[k] > 0} : SetChange(s) /\ Get(s, for)
  ELSE /\ need' = (need \/ sets_n < SetsMax)
       /\ UNCHANGED <<pool, id, ref, n_rx, keep, pressure, use, holders>>

Alloc ==
  IF nfree[id] > 0 THEN Get(id, Rx) /\ UNCHANGED <<id, need>> ELSE AllocSlow(Rx)
TxTcpAlloc ==
  IF TxMayAlloc /\ nfree[id] > 0 THEN Get(id, Tx) /\ UNCHANGED <<id, need>> ELSE AllocSlow(Tx)

(* The packet goes back to its own set, whichever is the current one. *)
Put(p) ==
  /\ free' = [free EXCEPT ![SetOf[p]] = <<p>> \o @]
  /\ nfree' = [nfree EXCEPT ![SetOf[p]] = @ + 1]
  /\ n_free' = n_free + 1

Hold(p) ==
  /\ holders[p] \in 1 .. MaxHolds - 1 /\ p \notin keep
  /\ ref' = [ref EXCEPT ![p] = @ + 1] /\ holders' = [holders EXCEPT ![p] = @ + 1]
  /\ UNCHANGED <<pool, id, n_rx, keep, pressure, need, use>>

(* ci_netif_pkt_release; ci_netif_pkt_free, not in the repository, gives   *)
(* up the place of a receive packet and puts it back.                      *)
Released(p) ==
  /\ ref' = [ref EXCEPT ![p] = @ - 1]
  /\ IF ref[p] = 1
     THEN /\ Put(p) /\ n_rx' = IF use[p] = Rx THEN n_rx - 1 ELSE n_rx
          /\ use' = [use EXCEPT ![p] = NoPkt]
     ELSE UNCHANGED <<free, nfree, n_free, n_rx, use>>
Release(p) ==
  /\ holders[p] > 0 /\ p \notin keep /\ Released(p)
  /\ holders' = [holders EXCEPT ![p] = @ - 1]
  /\ UNCHANGED <<id, sets_n, keep, pressure, need>>

(* The application answers ONLOAD_ZC_KEEP for a packet of a receive queue: *)
(* two contexts now share the reference.                                   *)
Keep(p) ==
  /\ use[p] = Rx /\ ref[p] = 1 /\ holders[p] = 1 /\ p \notin keep /\ MaxHolds > 1
  /\ keep' = keep \cup {p} /\ holders' = [holders EXCEPT ![p] = 2]
  /\ UNCHANGED <<pool, id, ref, n_rx, pressure, need, use>>
Mut_ReleaseCheckKeep(p) ==
  /\ use[p] = Rx /\ holders[p] > 0
  /\ Released(p) /\ keep' = keep \ {p}
  /\ holders' = [holders EXCEPT ![p] = @ - 1]
  /\ UNCHANGED <<id, sets_n, pressure, need>>
ReleaseCheckKeep(p) ==
  /\ use[p] = Rx /\ holders[p] > 0
  /\ IF p \in keep THEN keep' = keep \ {p} /\ UNCHANGED <<free, nfree, n_free, ref, n_rx, use>>
                   ELSE Released(p) /\ UNCHANGED keep
  /\ holders' = [holders EXCEPT ![p] = @ - 1]
  /\ UNCHANGED <<id, sets_n, pressure, need>>

(* Not in the repository: the kernel adds the set that was asked for, and  *)
(* the receive path enters and leaves memory pressure.                     *)
NewSet ==
  /\ need /\ need' = FALSE
  /\ IF sets_n < SetsMax
     THEN /\ sets_n' = sets_n + 1 /\ id' = sets_n + 1
          /\ free' = [free EXCEPT ![sets_n + 1] = SetToSeq(InSet(sets_n + 1))]
          /\ nfree' = [nfree EXCEPT ![sets_n + 1] = Cardinality(InSet(sets_n + 1))]
          /\ n_free' = n_free + Cardinality(InSet(sets_n + 1))
     ELSE UNCHANGED <<pool, id>>
  /\ UNCHANGED <<ref, n_rx, keep, pressure, use, holders>>
Pressure == pressure' = ~pressure /\ UNCHANGED <<pool, id, ref, n_rx, keep, need, use, holders>>

Next ==
  \/ Alloc \/ TxTcpAlloc \/ NewSet \/ Pressure
  \/ \E p \in Pkts : Hold(p) \/ Release(p) \/ Keep(p) \/ ReleaseCheckKeep(p)
Spec == Init /\ [][Next]_vars

-----------------------------------------------------------------------------
UsedFor(u) == {p \in Pkts : use[p] = u}

(* A packet is free exactly when nobody may release it, it is then once on *)
(* the list of its own set, and the counts are the lengths of the lists:   *)
(* no order of holds, releases and kept packets frees one twice or leaks.  *)
FreeOrHeld ==
  /\ \A s \in 1 .. sets_n :
       /\ ToSet(free[s]) = {p \in InSet(s) : holders[p] = 0}
       /\ Len(free[s]) = Cardinality(ToSet(free[s])) /\ nfree[s] = Len(free[s])
  /\ n_free = MapThenSumSet(LAMBDA s : nfree[s], 1 .. SetsMax)

(* Transmit never takes packets beyond its share: the greater of what is   *)
(* set aside for it and its limit, as ci_netif_pkt_tx_may_alloc promises.  *)
TxWithinLimit ==
  LET share == MaxPackets - MaxRx IN
  Cardinality(UsedFor(Tx)) <= (IF share > MaxTx THEN share ELSE MaxTx)

(* Under memory pressure transmit takes a packet only while it has fewer   *)
(* than are set aside for it: the rest is left for the receive rings.      *)
SparesRx ==
  pressure /\ UsedFor(Tx)' \ UsedFor(Tx) # {} => Cardinality(UsedFor(Tx)) < MaxPackets - MaxRx
=============================================================================
