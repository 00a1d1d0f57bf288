------------------------- MODULE OnloadCountsProofs -------------------------
(***************************************************************************)
(* Proofs about the read-write lock and the reference counts of an Onload  *)
(* stack, for any number of threads and holders and any limit.  Each part  *)
(* has its own inductive invariant; a step of the other part leaves it     *)
(* alone.                                                                  *)
(***************************************************************************)
EXTENDS OnloadCounts, FiniteSetTheorems, TLAPS

-----------------------------------------------------------------------------
(* The reference counts of a stack *)

Having(l) == {h \in RefHolders : ref_held[h] >= l}
Releasing(h, l) == ref_pc[h] = "release" /\ ref_held[h] = l - 1

(* What a place in oo_thr_ref_get and oo_thr_ref_drop says of the levels   *)
(* that the holder has.                                                    *)
RefPlaces ==
  \A h \in RefHolders :
    /\ ref_pc[h] \in {"get", "get_one"} => ref_held[h] < target[h]
    /\ ref_pc[h] = "drop" => ref_held[h] > 0
    /\ ref_pc[h] = "release" => ref_held[h] < 3

(* Each count is the number of those who have its level, and the base,     *)
(* which is tested, is within the limit.                                   *)
RefsCounted ==
  /\ \A l \in 1 .. 3 : ref[l] = Cardinality(Having(l))
  /\ ref[1] <= MaxRef

(* A level that somebody has is not released; one that nobody has either   *)
(* has been, once, or is being released by just one holder.                *)
ReleaseOnce ==
  \A l \in 1 .. 3 :
    /\ ref[l] > 0 => released[l] = 0
    /\ \A h \in RefHolders : Releasing(h, l) => ref[l] = 0 /\ released[l] = 0
    /\ ref[l] = 0 => released[l] = 1 \/ \E h \in RefHolders : Releasing(h, l)
    /\ \A g, h \in RefHolders : Releasing(g, l) /\ Releasing(h, l) => g = h

RefInv == Ref!TypeOK /\ RefPlaces /\ RefsCounted /\ ReleaseOnce

(* One more holder of a level, or one less, is one more or one less in its *)
(* count.                                                                  *)
LEMMA CountMoves ==
  ASSUME IsFiniteSet(RefHolders), NEW h \in RefHolders, NEW S \in SUBSET RefHolders
  PROVE  /\ IsFiniteSet(S) /\ Cardinality(S) \in Nat
         /\ h \notin S => Cardinality(S \cup {h}) = Cardinality(S) + 1
         /\ h \in S => Cardinality(S \ {h}) = Cardinality(S) - 1
<1>1. IsFiniteSet(S)
  BY FS_Subset
<1>2. Cardinality(S) \in Nat
  BY <1>1, FS_CardinalityType
<1>3. ASSUME h \notin S PROVE Cardinality(S \cup {h}) = Cardinality(S) + 1
  BY <1>1, <1>3, FS_AddElement
<1>4. ASSUME h \in S PROVE Cardinality(S \ {h}) = Cardinality(S) - 1
  BY <1>1, <1>4, FS_RemoveElement
<1> QED  BY <1>1, <1>2, <1>3, <1>4

(* The steps that touch neither a count nor the levels of a holder, and    *)
(* neither start nor end a release: the start of oo_thr_ref_get and of     *)
(* oo_thr_ref_drop, and a get that is refused.                             *)
LEMMA RefQuietStep ==
  ASSUME RefInv, NEW h \in RefHolders, NEW p \in {"idle", "get", "get_one", "drop"},
         NEW n \in 0 .. 3,
         ref_pc[h] # "release",
         p \in {"get", "get_one"} => ref_held[h] < n, p = "drop" => ref_held[h] > 0,
         ref_pc' = [ref_pc EXCEPT ![h] = p], target' = [target EXCEPT ![h] = n],
         UNCHANGED <<ref, released, ref_held>>
  PROVE  RefInv'
<1>1. Ref!TypeOK'
  BY DEF RefInv, Ref!TypeOK, Ref!Levels, Ref!BASE, Ref!APP
<1>2. RefPlaces'
  BY DEF RefInv, RefPlaces, Ref!TypeOK, Ref!Levels, Ref!BASE, Ref!APP
<1>3. \A l \in 1 .. 3 : Having(l)' = Having(l)
  BY DEF Having
<1>4. RefsCounted'
  BY <1>3 DEF RefInv, RefsCounted
<1>5. \A g \in RefHolders, l \in 1 .. 3 : Releasing(g, l)' <=> Releasing(g, l)
  BY DEF RefInv, Releasing, Ref!TypeOK
<1>6. ReleaseOnce'
  BY <1>5 DEF RefInv, ReleaseOnce
<1> QED  BY <1>1, <1>2, <1>4, <1>6 DEF RefInv

(* oo_thr_ref_get_one: the level taken is counted, and it is not one that  *)
(* has been released, as its count was not 0.                              *)
LEMMA GetOneStep ==
  ASSUME IsFiniteSet(RefHolders), MaxRef \in Nat, RefInv,
         NEW h \in RefHolders, Ref!GetOne(h)
  PROVE  RefInv'
<1>t. /\ ref \in [1 .. 3 -> Nat] /\ released \in [1 .. 3 -> Nat]
      /\ ref_held \in [RefHolders -> 0 .. 3] /\ target \in [RefHolders -> 0 .. 3]
      /\ ref_pc \in [RefHolders -> {"idle", "get", "get_one", "drop", "release"}]
  BY DEF RefInv, Ref!TypeOK, Ref!Levels, Ref!BASE, Ref!APP
<1>p. ref_pc[h] \in {"get", "get_one"}
  BY DEF Ref!GetOne
<1>l. PICK l \in 1 .. 3 : l = ref_held[h] + 1
  BY <1>t, <1>p DEF RefInv, RefPlaces
<1>0. /\ ref_held[h] \in 0 .. 3 /\ target[h] \in 0 .. 3
      /\ l <= target[h] /\ ref[l] \in Nat
  BY <1>t, <1>p, <1>l DEF RefInv, RefPlaces
<1>1. CASE Ref!Refused(l)
  <2> DEFINE p == IF ref_pc[h] = "get" /\ ref_held[h] > 0 THEN "drop" ELSE "idle"
  <2>1. /\ ref_pc' = [ref_pc EXCEPT ![h] = p] /\ target' = [target EXCEPT ![h] = 0]
        /\ UNCHANGED <<ref, released, ref_held>>
    BY <1>l, <1>1 DEF Ref!GetOne, Ref!Goto
  <2>2. /\ p \in {"idle", "get", "get_one", "drop"} /\ p \notin {"get", "get_one"}
        /\ p = "drop" => ref_held[h] > 0
        /\ ref_pc[h] # "release"
    BY <1>0, <1>p
  <2>3. 0 \in 0 .. 3 /\ (p \in {"get", "get_one"} => ref_held[h] < 0)
    BY <2>2
  <2> HIDE DEF p
  <2> QED  BY <2>1, <2>2, <2>3, RefQuietStep, Zenon
<1>2. CASE ~Ref!Refused(l)
  <2> DEFINE p == IF l = target[h] THEN "idle" ELSE ref_pc[h]
  <2>1. /\ ref' = [ref EXCEPT ![l] = ref[l] + 1] /\ ref_held' = [ref_held EXCEPT ![h] = l]
        /\ ref_pc' = [ref_pc EXCEPT ![h] = p]
        /\ UNCHANGED <<target, released>>
    BY <1>l, <1>2 DEF Ref!GetOne, Ref!Goto
  <2>2. ref[l] > 0 /\ (l = 1 => ref[1] + 1 <= MaxRef)
    BY <1>0, <1>2 DEF Ref!Refused, Ref!TooMany, Ref!BASE, RefInv, Ref!TypeOK, Ref!Levels, Ref!APP
  <2>3. p \in {"idle", "get", "get_one"} /\ (p # "idle" => l < target[h])
    BY <1>0, <1>p
  <2> HIDE DEF p
  <2>4. Ref!TypeOK'
    BY <1>0, <1>l, <2>1, <2>3, <1>t DEF Ref!TypeOK, Ref!Levels, Ref!BASE, Ref!APP
  <2>5. RefPlaces'
    BY <1>0, <1>l, <2>1, <2>3, <1>t DEF RefInv, RefPlaces
  <2>6. Having(l)' = Having(l) \cup {h} /\ h \notin Having(l)
    BY <1>0, <1>l, <2>1, <1>t DEF Having
  <2>7. \A m \in 1 .. 3 : m # l => Having(m)' = Having(m)
    BY <1>0, <1>l, <2>1, <1>t DEF Having
  <2>8. Cardinality(Having(l))' = Cardinality(Having(l)) + 1
    <3>1. PICK S \in SUBSET RefHolders : S = Having(l)
      BY Zenon DEF Having
    <3>2. Cardinality(S \cup {h}) = Cardinality(S) + 1
      BY <2>6, <3>1, CountMoves, Zenon
    <3> QED  BY <2>6, <3>1, <3>2, Zenon
  <2>9. RefsCounted'
    BY <1>0, <1>l, <2>1, <2>2, <2>7, <2>8, <1>t DEF RefInv, RefsCounted
  <2>10. \A g \in RefHolders, m \in 1 .. 3 : Releasing(g, m)' <=> Releasing(g, m)
    BY <1>0, <1>p, <2>1, <2>3, <1>t DEF Releasing
  <2>11. ReleaseOnce'
    <3>1. \A m \in 1 .. 3 : ref'[m] > 0 <=> ref[m] > 0
      BY <1>0, <1>l, <2>1, <2>2, <1>t
    <3>2. ref' \in [1 .. 3 -> Nat]
      BY <2>4 DEF Ref!TypeOK, Ref!Levels, Ref!BASE, Ref!APP
    <3> QED  BY <2>1, <2>10, <1>t, <3>1, <3>2 DEF RefInv, ReleaseOnce
  <2> QED  BY <2>4, <2>5, <2>9, <2>11 DEF RefInv
<1> QED  BY <1>1, <1>2

(* oo_thr_ref_drop_one: who takes a count to 0 is the one that releases    *)
(* the level.                                                              *)
LEMMA DropOneStep ==
  ASSUME IsFiniteSet(RefHolders), MaxRef \in Nat, RefInv,
         NEW h \in RefHolders, Ref!DropOne(h)
  PROVE  RefInv'
<1>t. /\ ref \in [1 .. 3 -> Nat] /\ released \in [1 .. 3 -> Nat]
      /\ ref_held \in [RefHolders -> 0 .. 3] /\ target \in [RefHolders -> 0 .. 3]
      /\ ref_pc \in [RefHolders -> {"idle", "get", "get_one", "drop", "release"}]
  BY DEF RefInv, Ref!TypeOK, Ref!Levels, Ref!BASE, Ref!APP
<1>p. ref_pc[h] = "drop"
  BY DEF Ref!DropOne
<1>l. PICK l \in 1 .. 3 : l = ref_held[h]
  BY <1>t, <1>p DEF RefInv, RefPlaces
<1> DEFINE p == IF ref[l] - 1 = 0 THEN "release" ELSE IF l - 1 = 0 THEN "idle" ELSE "drop"
<1>1. /\ ref' = [ref EXCEPT ![l] = ref[l] - 1] /\ ref_held' = [ref_held EXCEPT ![h] = l - 1]
      /\ UNCHANGED <<target, released>>
  BY <1>t, <1>l DEF Ref!DropOne
<1>2. ref_pc' = [ref_pc EXCEPT ![h] = p]
  BY <1>t, <1>l, <1>1, Zenon DEF Ref!DropOne, Ref!Goto
<1>3. /\ p \in {"idle", "drop", "release"} /\ (p = "drop" => l > 1)
      /\ p = "release" <=> ref[l] = 1
  BY <1>t
<1> HIDE DEF p
<1>4. Having(l)' = Having(l) \ {h} /\ h \in Having(l)
  BY <1>t, <1>l, <1>1 DEF Having
<1>5. \A m \in 1 .. 3 : m # l => Having(m)' = Having(m)
  BY <1>t, <1>l, <1>1 DEF Having
<1>6. Cardinality(Having(l))' = Cardinality(Having(l)) - 1 /\ Cardinality(Having(l)) # 0
  <2>1. PICK S \in SUBSET RefHolders : S = Having(l)
    BY Zenon DEF Having
  <2>2. Cardinality(S \ {h}) = Cardinality(S) - 1 /\ IsFiniteSet(S) /\ S # {}
    BY <1>4, <2>1, CountMoves, Zenon
  <2>3. Cardinality(S) # 0
    BY <2>2, FS_EmptySet, Zenon
  <2> QED  BY <1>4, <2>1, <2>2, <2>3, Zenon
<1>7. ref[l] \in Nat \ {0} /\ ref[l] = Cardinality(Having(l))
  BY <1>t, <1>6 DEF RefInv, RefsCounted
<1>8. Ref!TypeOK'
  BY <1>t, <1>1, <1>2, <1>3, <1>7 DEF Ref!TypeOK, Ref!Levels, Ref!BASE, Ref!APP
<1>9. RefPlaces'
  BY <1>t, <1>1, <1>2, <1>3 DEF RefInv, RefPlaces
<1>10. RefsCounted'
  BY <1>t, <1>1, <1>5, <1>6, <1>7 DEF RefInv, RefsCounted
<1>11. \A g \in RefHolders, m \in 1 .. 3 :
         Releasing(g, m)' <=> Releasing(g, m) \/ (g = h /\ m = l /\ ref[l] = 1)
  BY <1>t, <1>p, <1>1, <1>2, <1>3 DEF Releasing
<1>12. ReleaseOnce'
  <2>1. released[l] = 0 /\ \A g \in RefHolders : ~Releasing(g, l)
    BY <1>7 DEF RefInv, ReleaseOnce
  <2>2. ref'[l] = ref[l] - 1 /\ (\A m \in 1 .. 3 : m # l => ref'[m] = ref[m])
    BY <1>t, <1>1
  <2>3. ReleaseOnce
    BY DEF RefInv
  <2>4. released' = released
    BY <1>1
  <2> QED  BY <1>t, <1>7, <1>11, <2>1, <2>2, <2>3, <2>4 DEF ReleaseOnce
<1> QED  BY <1>8, <1>9, <1>10, <1>12 DEF RefInv

(* The release function of a level has run. *)
LEMMA ReleaseStep ==
  ASSUME RefInv, NEW h \in RefHolders, Ref!Release(h)
  PROVE  RefInv'
<1>t. /\ ref \in [1 .. 3 -> Nat] /\ released \in [1 .. 3 -> Nat]
      /\ ref_held \in [RefHolders -> 0 .. 3] /\ target \in [RefHolders -> 0 .. 3]
      /\ ref_pc \in [RefHolders -> {"idle", "get", "get_one", "drop", "release"}]
  BY DEF RefInv, Ref!TypeOK, Ref!Levels, Ref!BASE, Ref!APP
<1>p. ref_pc[h] = "release"
  BY DEF Ref!Release
<1>l. PICK l \in 1 .. 3 : l = ref_held[h] + 1
  BY <1>t, <1>p DEF RefInv, RefPlaces
<1> DEFINE p == IF ref_held[h] = 0 THEN "idle" ELSE "drop"
<1>1. /\ released' = [released EXCEPT ![l] = released[l] + 1]
      /\ ref_pc' = [ref_pc EXCEPT ![h] = p]
      /\ UNCHANGED <<ref, ref_held, target>>
  BY <1>l DEF Ref!Release, Ref!Goto
<1>2. p \in {"idle", "drop"} /\ (p = "drop" => ref_held[h] > 0)
  BY <1>t
<1> HIDE DEF p
<1>3. Ref!TypeOK'
  BY <1>t, <1>1, <1>2 DEF Ref!TypeOK, Ref!Levels, Ref!BASE, Ref!APP
<1>4. RefPlaces'
  BY <1>t, <1>1, <1>2 DEF RefInv, RefPlaces
<1>5. \A m \in 1 .. 3 : Having(m)' = Having(m)
  BY <1>1 DEF Having
<1>6. RefsCounted'
  BY <1>1, <1>5 DEF RefInv, RefsCounted
<1>7. Releasing(h, l) /\ \A m \in 1 .. 3 : Releasing(h, m) => m = l
  BY <1>t, <1>p, <1>l DEF Releasing
<1>8. \A g \in RefHolders, m \in 1 .. 3 : Releasing(g, m)' <=> Releasing(g, m) /\ g # h
  BY <1>t, <1>1, <1>2 DEF Releasing
<1>9. ReleaseOnce'
  <2>1. ref[l] = 0 /\ released[l] = 0 /\ \A g \in RefHolders : Releasing(g, l) => g = h
    BY <1>7 DEF RefInv, ReleaseOnce
  <2>2. released'[l] = 1 /\ (\A m \in 1 .. 3 : m # l => released'[m] = released[m])
    BY <1>t, <1>1, <2>1
  <2>3. ref' = ref /\ ReleaseOnce
    BY <1>1 DEF RefInv
  <2> QED  BY <1>t, <1>7, <1>8, <2>1, <2>2, <2>3 DEF ReleaseOnce
<1> QED  BY <1>3, <1>4, <1>6, <1>9 DEF RefInv

(* Every step of the holders keeps the invariant. *)
LEMMA RefStep ==
  ASSUME IsFiniteSet(RefHolders), MaxRef \in Nat, RefInv, [Ref!Next]_refVars
  PROVE  RefInv'
<1>1. CASE UNCHANGED refVars
  BY <1>1 DEF refVars, RefInv, Ref!TypeOK, RefPlaces, RefsCounted, Having, ReleaseOnce, Releasing
<1>2. CASE Ref!Next
  <2>1. PICK h \in RefHolders :
          \/ \E type \in Ref!Levels : Ref!Get(h, type)
          \/ Ref!GetOneMore(h) \/ Ref!GetOne(h) \/ Ref!Drop(h) \/ Ref!DropOne(h) \/ Ref!Release(h)
    BY <1>2 DEF Ref!Next
  <2>t. ref_held \in [RefHolders -> 0 .. 3]
    BY DEF RefInv, Ref!TypeOK, Ref!APP
  <2>2. ASSUME NEW type \in Ref!Levels, Ref!Get(h, type) PROVE RefInv'
    <3>1. type \in 0 .. 3 /\ ref_held[h] < type
      BY <2>2 DEF Ref!Get, Ref!Levels, Ref!BASE, Ref!APP
    <3> QED  BY <2>2, <3>1, RefQuietStep, Zenon DEF Ref!Get, Ref!Goto
  <2>3. ASSUME Ref!GetOneMore(h) PROVE RefInv'
    <3> DEFINE n == ref_held[h] + 1
    <3>1. n \in 0 .. 3 /\ ref_held[h] < n
      BY <2>3, <2>t DEF Ref!GetOneMore, Ref!BASE, Ref!APP
    <3>2. /\ ref_pc' = [ref_pc EXCEPT ![h] = "get_one"] /\ target' = [target EXCEPT ![h] = n]
          /\ UNCHANGED <<ref, released, ref_held>> /\ ref_pc[h] # "release"
      BY <2>3 DEF Ref!GetOneMore, Ref!Goto
    <3> HIDE DEF n
    <3> QED  BY <3>1, <3>2, RefQuietStep, Zenon
  <2>4. ASSUME Ref!Drop(h) PROVE RefInv'
    <3>1. 0 \in 0 .. 3
      OBVIOUS
    <3> QED  BY <2>4, <3>1, RefQuietStep, Zenon DEF Ref!Drop, Ref!Goto
  <2> QED  BY <2>1, <2>2, <2>3, <2>4, GetOneStep, DropOneStep, ReleaseStep
<1> QED  BY <1>1, <1>2

(* The creator of a stack has the one reference of each level. *)
LEMMA RefStarts ==
  ASSUME IsFiniteSet(RefHolders), MaxRef \in Nat \ {0}, Ref!Init
  PROVE  RefInv
<1>1. PICK c \in RefHolders : ref_held = [h \in RefHolders |-> IF h = c THEN 3 ELSE 0]
  BY DEF Ref!Init, Ref!APP
<1>2. /\ ref = [l \in 1 .. 3 |-> 1] /\ released = [l \in 1 .. 3 |-> 0]
      /\ ref_pc = [h \in RefHolders |-> "idle"] /\ target = [h \in RefHolders |-> 0]
  BY DEF Ref!Init, Ref!Levels, Ref!BASE, Ref!APP
<1>3. Ref!TypeOK
  BY <1>1, <1>2 DEF Ref!TypeOK, Ref!Levels, Ref!BASE, Ref!APP
<1>4. \A l \in 1 .. 3 : Having(l) = {c}
  BY <1>1 DEF Having
<1>5. RefsCounted
  BY <1>2, <1>4, FS_Singleton DEF RefsCounted
<1>6. RefPlaces /\ ReleaseOnce
  BY <1>2 DEF RefPlaces, ReleaseOnce, Releasing
<1> QED  BY <1>3, <1>5, <1>6 DEF RefInv

(* The order of the counts is that of the sets of holders, as a holder has *)
(* all levels below its highest; and who is still to release a level has   *)
(* every level below it.                                                   *)
LEMMA RefsInOrder ==
  ASSUME IsFiniteSet(RefHolders), MaxRef \in Nat, RefInv
  PROVE  Ref!HigherNotAbove /\ Ref!NoOverflow /\ Ref!ReleasedInOrder
<1>t. /\ ref \in [1 .. 3 -> Nat] /\ released \in [1 .. 3 -> Nat]
      /\ ref_held \in [RefHolders -> 0 .. 3]
  BY DEF RefInv, Ref!TypeOK, Ref!Levels, Ref!BASE, Ref!APP
<1>1. \A k, l \in 1 .. 3 : k <= l => ref[l] <= ref[k]
  <2> SUFFICES ASSUME NEW k \in 1 .. 3, NEW l \in 1 .. 3, k <= l PROVE ref[l] <= ref[k]
    OBVIOUS
  <2>1. Having(l) \subseteq Having(k) /\ Having(k) \subseteq RefHolders
    BY <1>t DEF Having
  <2>2. Cardinality(Having(l)) <= Cardinality(Having(k))
    BY <2>1, FS_Subset
  <2> QED  BY <2>2 DEF RefInv, RefsCounted
<1>2. Ref!HigherNotAbove
  BY <1>1 DEF Ref!HigherNotAbove, Ref!APP, Ref!FILE, Ref!BASE
<1>3. Ref!NoOverflow
  BY <1>t, <1>1 DEF RefInv, RefsCounted, Ref!NoOverflow, Ref!Levels, Ref!BASE, Ref!APP
<1>4. Ref!ReleasedInOrder
  <2> SUFFICES ASSUME NEW l \in 1 .. 3, released[l] > 0
               PROVE  /\ released[l] = 1 /\ ref[l] = 0
                      /\ \A h \in RefHolders : ref_held[h] < l
                      /\ \A k \in l + 1 .. 3 : released[k] = 1
    BY DEF Ref!ReleasedInOrder, Ref!Levels, Ref!BASE, Ref!APP
  <2>1. released[l] = 1 /\ ref[l] = 0
    BY <1>t DEF RefInv, ReleaseOnce
  <2>2. \A h \in RefHolders : ref_held[h] < l
    <3>1. IsFiniteSet(Having(l)) /\ Cardinality(Having(l)) = 0
      BY <2>1, FS_Subset, Zenon DEF RefInv, RefsCounted, Having
    <3>2. Having(l) = {}
      BY <3>1, FS_EmptySet
    <3> QED  BY <1>t, <3>2 DEF Having
  <2>3. \A k \in l + 1 .. 3 : released[k] = 1
    <3> SUFFICES ASSUME NEW k \in l + 1 .. 3 PROVE released[k] = 1
      OBVIOUS
    <3>1. k \in 1 .. 3 /\ ref[k] = 0
      BY <1>t, <1>1, <2>1
    <3>2. \A h \in RefHolders : ~Releasing(h, k)
      BY <1>t, <2>2 DEF Releasing
    <3> QED  BY <3>1, <3>2 DEF RefInv, ReleaseOnce
  <2> QED  BY <2>1, <2>2, <2>3
<1> QED  BY <1>2, <1>3, <1>4

-----------------------------------------------------------------------------
(* The read-write lock *)

RwPcs == {"idle", "r_mutex", "r_try", "r_sleep", "r_woken", "reading", "u_check", "u_stop"}
           \cup Rw!WriterPcs
(* A writer that is past the readers, and one about to throw them out *)
Through == {"w_lock", "writing", "c_sleep", "c_woken", "t_assert", "t_lock"}
Clearing == {"w_clear", "t_clear"}

Registered == {t \in RwThreads : is_reader[t]}
Writing == {t \in RwThreads : rw_pc[t] \in Rw!WriterPcs}

RwTyped ==
  /\ rw_pc \in [RwThreads -> RwPcs]
  /\ is_reader \in [RwThreads -> BOOLEAN] /\ reading_now \in [RwThreads -> BOOLEAN]
  /\ writer \in BOOLEAN
  /\ mutex \in RwThreads \cup {NoThread} /\ write_lock \in RwThreads \cup {NoThread}

(* The flags and the locks agree with the places of the threads. *)
RwPlace(t) ==
  /\ reading_now[t] <=> rw_pc[t] = "reading"
  /\ rw_pc[t] = "reading" => is_reader[t]
  /\ mutex = t <=> rw_pc[t] \in Clearing \cup {"t_assert"}
  /\ write_lock = t <=> rw_pc[t] = "writing"

(* The writer flag is up from the moment a writer sets it, and from then   *)
(* on nobody becomes a reader: the registered threads are reading, are on  *)
(* their way out, or are about to be thrown out.  When a writer is past    *)
(* them none is registered.                                                *)
RwFlag(t) ==
  /\ rw_pc[t] \in Rw!WriterPcs \ {"w_mutex", "t_mutex"} => writer
  /\ rw_pc[t] \in Through => Registered = {}
  /\ writer /\ is_reader[t] => \/ rw_pc[t] \in {"reading", "u_check", "u_stop"}
                               \/ mutex # NoThread /\ rw_pc[mutex] \in Clearing

(* Who sleeps will be woken by a reader that leaves or by the last writer. *)
RwSleeper(t) ==
  /\ rw_pc[t] = "w_sleep" => Registered # {}
  /\ rw_pc[t] = "r_sleep" => writer

RwCounted ==
  /\ readers = Cardinality(Registered) /\ writers = Cardinality(Writing)
  /\ writer => Writing # {}

RwAll == \A t \in RwThreads : RwPlace(t) /\ RwFlag(t) /\ RwSleeper(t)
RwInv == RwTyped /\ RwAll /\ RwCounted

(* The two counts, as far as the code looks at them *)
LEMMA RwCounts ==
  ASSUME IsFiniteSet(RwThreads), RwInv
  PROVE  /\ readers \in Nat /\ writers \in Nat
         /\ readers = 0 <=> Registered = {}
         /\ writers = 0 <=> Writing = {}
         /\ \A t \in Writing : writers = 1 => Writing = {t}
<1>1. IsFiniteSet(Registered) /\ IsFiniteSet(Writing)
  BY FS_Subset DEF Registered, Writing
<1>2. /\ Cardinality(Registered) \in Nat /\ Cardinality(Writing) \in Nat
      /\ Cardinality(Registered) = 0 <=> Registered = {}
      /\ Cardinality(Writing) = 0 <=> Writing = {}
  BY <1>1, FS_CardinalityType, FS_EmptySet
<1>3. ASSUME NEW t \in Writing, writers = 1 PROVE Writing = {t}
  <2>1. IsFiniteSet(Writing \ {t}) /\ Cardinality(Writing \ {t}) = Cardinality(Writing) - 1
    BY <1>1, <1>3, FS_RemoveElement
  <2>2. Cardinality(Writing \ {t}) = 0
    BY <2>1, <1>3 DEF RwInv, RwCounted
  <2>3. Writing \ {t} = {}
    BY <2>1, <2>2, FS_EmptySet
  <2> QED  BY <2>3, <1>3
<1> QED  BY <1>2, <1>3 DEF RwInv, RwCounted

(* A thread that joins or leaves a set is one more or one less in it. *)
LEMMA RwCountMoves ==
  ASSUME IsFiniteSet(RwThreads), NEW S \in SUBSET RwThreads, NEW t \in RwThreads
  PROVE  /\ t \notin S => Cardinality(S \cup {t}) = Cardinality(S) + 1
         /\ t \in S => Cardinality(S \ {t}) = Cardinality(S) - 1
<1>1. IsFiniteSet(S)
  BY FS_Subset
<1>2. ASSUME t \notin S PROVE Cardinality(S \cup {t}) = Cardinality(S) + 1
  BY <1>1, <1>2, FS_AddElement
<1>3. ASSUME t \in S PROVE Cardinality(S \ {t}) = Cardinality(S) - 1
  BY <1>1, <1>3, FS_RemoveElement
<1> QED  BY <1>2, <1>3

(* A thread goes from one place to another and nothing else changes. *)
LEMMA RwLocal ==
  ASSUME RwInv, NEW t \in RwThreads, NEW p \in RwPcs,
         rw_pc' = [rw_pc EXCEPT ![t] = p],
         UNCHANGED <<is_reader, reading_now, readers, writer, writers, mutex, write_lock>>,
         p \in Rw!WriterPcs <=> rw_pc[t] \in Rw!WriterPcs,
         p \notin Clearing \cup {"t_assert", "reading", "writing"},
         rw_pc[t] \notin Clearing \cup {"t_assert", "reading", "writing"},
         p \in Rw!WriterPcs \ {"w_mutex", "t_mutex"} => writer,
         p \in Through => Registered = {},
         writer /\ is_reader[t] /\ rw_pc[t] \in {"u_check", "u_stop"} => p \in {"u_check", "u_stop"},
         p = "w_sleep" => Registered # {},
         p = "r_sleep" => writer
  PROVE  RwInv'
<1>t. /\ rw_pc \in [RwThreads -> RwPcs]
      /\ mutex \in RwThreads \cup {NoThread} /\ write_lock \in RwThreads \cup {NoThread}
  BY DEF RwInv, RwTyped
<1>1. RwTyped'
  BY <1>t DEF RwInv, RwTyped
<1>2. Registered' = Registered /\ Writing' = Writing
  BY <1>t DEF Registered, Writing
<1>3. RwCounted'
  BY <1>2 DEF RwInv, RwCounted
<1>4. ASSUME NEW u \in RwThreads PROVE RwPlace(u)'
  BY <1>t DEF RwInv, RwAll, RwPlace
<1>5. ASSUME NEW u \in RwThreads PROVE RwFlag(u)'
  <2>1. mutex # NoThread => rw_pc'[mutex] = rw_pc[mutex] \/ mutex = t
    BY <1>t
  <2> QED  BY <1>t, <1>2, <2>1 DEF RwInv, RwAll, RwFlag, RwPlace
<1>6. ASSUME NEW u \in RwThreads PROVE RwSleeper(u)'
  BY <1>t, <1>2 DEF RwInv, RwAll, RwSleeper
<1> QED  BY <1>1, <1>3, <1>4, <1>5, <1>6 DEF RwInv, RwAll

(* What the other threads notice of a step of t: a sleeper may be woken, a *)
(* thread that is not reading may be thrown out.                           *)
RwOthers(t) ==
  /\ rw_pc' \in [RwThreads -> RwPcs]
  /\ is_reader' \in [RwThreads -> BOOLEAN] /\ reading_now' \in [RwThreads -> BOOLEAN]
  /\ writer' \in BOOLEAN
  /\ \/ mutex' = mutex
     \/ mutex \in {t, NoThread} /\ mutex' \in {t, NoThread}
  /\ \/ write_lock' = write_lock
     \/ write_lock \in {t, NoThread} /\ write_lock' \in {t, NoThread}
  /\ \A u \in RwThreads \ {t} :
       /\ \/ rw_pc'[u] = rw_pc[u]
          \/ rw_pc[u] = "r_sleep" /\ rw_pc'[u] = "r_woken"
          \/ rw_pc[u] = "w_sleep" /\ rw_pc'[u] = "w_woken"
          \/ rw_pc[u] = "c_sleep" /\ rw_pc'[u] = "c_woken"
       /\ reading_now'[u] = reading_now[u]
       /\ is_reader'[u] => is_reader[u]
       /\ is_reader[u] /\ reading_now[u] => is_reader'[u]

(* So their flags and locks stay in order, and whether they are writers. *)
LEMMA RwOthersKept ==
  ASSUME CountedAssumption, RwInv, NEW t \in RwThreads, RwOthers(t)
  PROVE  /\ RwTyped'
         /\ \A u \in RwThreads \ {t} :
              /\ RwPlace(u)'
              /\ rw_pc'[u] \in Rw!WriterPcs <=> rw_pc[u] \in Rw!WriterPcs
              /\ rw_pc'[u] \in Through <=> rw_pc[u] \in Through
              /\ rw_pc'[u] \in Clearing <=> rw_pc[u] \in Clearing
              /\ rw_pc'[u] \in {"w_mutex", "t_mutex"} <=> rw_pc[u] \in {"w_mutex", "t_mutex"}
<1>t. /\ rw_pc \in [RwThreads -> RwPcs]
      /\ mutex \in RwThreads \cup {NoThread} /\ write_lock \in RwThreads \cup {NoThread}
      /\ NoThread \notin RwThreads
  BY CountedAssumption DEF RwInv, RwTyped
<1>1. RwTyped'
  BY <1>t DEF RwTyped, RwOthers
<1>2. ASSUME NEW u \in RwThreads \ {t} PROVE RwPlace(u)'
  <2>1. mutex' = u <=> mutex = u
    BY <1>t, <1>2 DEF RwOthers
  <2>2. write_lock' = u <=> write_lock = u
    BY <1>t, <1>2 DEF RwOthers
  <2>3. RwPlace(u)
    BY <1>2 DEF RwInv, RwAll
  <2> QED  BY <2>1, <2>2, <2>3, <1>2 DEF RwOthers, RwPlace, Clearing
<1>3. ASSUME NEW u \in RwThreads \ {t}
      PROVE  /\ rw_pc'[u] \in Rw!WriterPcs <=> rw_pc[u] \in Rw!WriterPcs
             /\ rw_pc'[u] \in Through <=> rw_pc[u] \in Through
             /\ rw_pc'[u] \in Clearing <=> rw_pc[u] \in Clearing
             /\ rw_pc'[u] \in {"w_mutex", "t_mutex"} <=> rw_pc[u] \in {"w_mutex", "t_mutex"}
  BY <1>3 DEF RwOthers, Through, Clearing, Rw!WriterPcs
<1> QED  BY <1>1, <1>2, <1>3

(* The sets of the two counts change by t alone, unless threads are thrown *)
(* out.                                                                    *)
LEMMA RwSets ==
  ASSUME CountedAssumption, RwInv, NEW t \in RwThreads, RwOthers(t)
  PROVE  /\ Writing' = IF rw_pc'[t] \in Rw!WriterPcs THEN Writing \cup {t} ELSE Writing \ {t}
         /\ (\A u \in RwThreads \ {t} : is_reader'[u] = is_reader[u]) =>
              Registered' = IF is_reader'[t] THEN Registered \cup {t} ELSE Registered \ {t}
<1>1. Writing' = IF rw_pc'[t] \in Rw!WriterPcs THEN Writing \cup {t} ELSE Writing \ {t}
  BY RwOthersKept DEF Writing
<1>2. ASSUME \A u \in RwThreads \ {t} : is_reader'[u] = is_reader[u]
      PROVE  Registered' = IF is_reader'[t] THEN Registered \cup {t} ELSE Registered \ {t}
  BY <1>2 DEF Registered
<1> QED  BY <1>1, <1>2

(* The other threads keep what they know of the writer flag, and their     *)
(* sleep is safe, when these four things are true of the step.             *)
LEMMA RwOthersFlag ==
  ASSUME CountedAssumption, RwInv, NEW t \in RwThreads, RwOthers(t),
         \/ writer' = writer \/ writer'
         \/ Writing \subseteq {t} /\ \A u \in RwThreads \ {t} : rw_pc'[u] # "r_sleep",
         Registered' \subseteq Registered \/ ~writer,
         Registered' # {} \/ \A u \in RwThreads \ {t} : rw_pc'[u] # "w_sleep",
         \A u \in RwThreads \ {t} : writer' /\ is_reader'[u] =>
           \/ rw_pc'[u] \in {"reading", "u_check", "u_stop"}
           \/ mutex' # NoThread /\ rw_pc'[mutex'] \in Clearing
  PROVE  \A u \in RwThreads \ {t} : RwFlag(u)' /\ RwSleeper(u)'
<1> SUFFICES ASSUME NEW u \in RwThreads \ {t} PROVE RwFlag(u)' /\ RwSleeper(u)'
  OBVIOUS
<1>0. RwFlag(u) /\ RwSleeper(u)
  BY DEF RwInv, RwAll
<1>1. /\ rw_pc'[u] \in Rw!WriterPcs <=> rw_pc[u] \in Rw!WriterPcs
      /\ rw_pc'[u] \in Through <=> rw_pc[u] \in Through
      /\ rw_pc'[u] \in {"w_mutex", "t_mutex"} <=> rw_pc[u] \in {"w_mutex", "t_mutex"}
  BY RwOthersKept
<1>2. Writing \subseteq {t} => rw_pc[u] \notin Rw!WriterPcs
  BY DEF Writing
<1>3. rw_pc'[u] \in Rw!WriterPcs \ {"w_mutex", "t_mutex"} => writer'
  BY <1>0, <1>1, <1>2 DEF RwFlag
<1>4. rw_pc'[u] \in Through => Registered' = {}
  <2>1. \A p \in Through : p \in Rw!WriterPcs \ {"w_mutex", "t_mutex"}
    BY DEF Through, Rw!WriterPcs
  <2> QED  BY <1>0, <1>1, <2>1 DEF RwFlag
<1>5. rw_pc'[u] = "r_sleep" => writer'
  <2>1. rw_pc'[u] = "r_sleep" => rw_pc[u] = "r_sleep"
    BY DEF RwOthers
  <2> QED  BY <2>1, <1>0, Zenon DEF RwSleeper
<1> QED  BY <1>3, <1>4, <1>5 DEF RwFlag, RwSleeper

(* The types, in the words of the proofs below *)
LEMMA RwTypes ==
  ASSUME CountedAssumption, RwInv
  PROVE  /\ rw_pc \in [RwThreads -> RwPcs] /\ reading_now \in [RwThreads -> BOOLEAN]
         /\ is_reader \in [RwThreads -> BOOLEAN] /\ writer \in BOOLEAN
         /\ mutex \in RwThreads \cup {NoThread} /\ write_lock \in RwThreads \cup {NoThread}
         /\ NoThread \notin RwThreads
  BY CountedAssumption DEF RwInv, RwTyped

(* A step of a thread that does not have the mutex, leaves the writer flag *)
(* alone and throws nobody out: what is left to show is about that thread. *)
LEMMA RwAlone ==
  ASSUME CountedAssumption, RwInv, NEW t \in RwThreads, RwOthers(t),
         \A u \in RwThreads \ {t} : is_reader'[u] = is_reader[u],
         rw_pc[t] \notin Clearing \cup {"t_assert"}, UNCHANGED <<writer, mutex>>,
         ~writer \/ Registered' \subseteq Registered,
         ~writer \/ Registered' # {} \/ Registered' = Registered,
         RwPlace(t)', RwFlag(t)', RwSleeper(t)', RwCounted'
  PROVE  RwInv'
<1>1. mutex # t /\ mutex \in RwThreads \cup {NoThread} /\ NoThread \notin RwThreads
  BY RwTypes DEF RwInv, RwAll, RwPlace
<1>2. ASSUME NEW u \in RwThreads \ {t}, writer', is_reader'[u]
      PROVE  \/ rw_pc'[u] \in {"reading", "u_check", "u_stop"}
             \/ mutex' # NoThread /\ rw_pc'[mutex'] \in Clearing
  <2>1. CASE rw_pc[u] \in {"reading", "u_check", "u_stop"}
    BY <2>1 DEF RwOthers
  <2>2. CASE mutex # NoThread /\ rw_pc[mutex] \in Clearing
    BY <1>1, <2>2, RwOthersKept
  <2> QED  BY <1>2, <2>1, <2>2, Zenon DEF RwInv, RwAll, RwFlag
<1>3. Registered' # {} \/ \A u \in RwThreads \ {t} : rw_pc'[u] # "w_sleep"
  <2>1. ASSUME NEW u \in RwThreads \ {t}, rw_pc'[u] = "w_sleep"
        PROVE  writer /\ Registered # {}
    <3>1. rw_pc[u] = "w_sleep"
      BY <2>1 DEF RwOthers
    <3> QED  BY <3>1 DEF RwInv, RwAll, RwFlag, RwSleeper, Rw!WriterPcs
  <2> QED  BY <2>1
<1>4. \A u \in RwThreads \ {t} : RwFlag(u)' /\ RwSleeper(u)'
  BY <1>2, <1>3, RwOthersFlag, Zenon
<1> QED  BY <1>4, RwOthersKept, Zenon DEF RwInv, RwAll

(* The fast path of oo_rwlock_lock_read *)
LEMMA RwReadFast ==
  ASSUME CountedAssumption, RwInv, NEW t \in RwThreads, Rw!ReadFast(t)
  PROVE  RwInv'
<1>1. /\ is_reader[t] /\ rw_pc[t] = "idle" /\ rw_pc' = [rw_pc EXCEPT ![t] = "reading"]
      /\ reading_now' = [reading_now EXCEPT ![t] = TRUE]
      /\ UNCHANGED <<is_reader, readers, writer, writers, mutex, write_lock>>
  BY DEF Rw!ReadFast, Rw!Goto, Rw!val
<1>2. RwOthers(t)
  BY <1>1, RwTypes DEF RwOthers, RwPcs
<1>3. rw_pc'[t] = "reading" /\ \A u \in RwThreads \ {t} : rw_pc'[u] = rw_pc[u]
  BY <1>1, RwTypes
<1>4. Registered' = Registered /\ Writing' = Writing
  BY <1>1, <1>3 DEF Registered, Writing, Rw!WriterPcs
<1>5. RwCounted'
  BY <1>1, <1>4, Zenon DEF RwInv, RwCounted
<1>6. RwPlace(t)'
  BY <1>1, <1>3, RwTypes, Zenon DEF RwInv, RwAll, RwPlace, Clearing
<1>7. RwFlag(t)' /\ RwSleeper(t)' /\ rw_pc[t] \notin Clearing \cup {"t_assert"}
  BY <1>1, <1>3 DEF RwFlag, RwSleeper, Rw!WriterPcs, Through, Clearing
<1> QED  BY <1>1, <1>2, <1>3, <1>4, <1>5, <1>6, <1>7, RwAlone, Zenon

(* rwlock_try_start_read, when no writer is pending or working *)
LEMMA RwStartRead ==
  ASSUME CountedAssumption, RwInv, NEW t \in RwThreads,
         ~writer, rw_pc[t] \in {"r_mutex", "r_woken", "r_try"},
         rw_pc' = [rw_pc EXCEPT ![t] = "reading"], Rw!StartRead(t),
         UNCHANGED <<writer, writers, mutex, write_lock>>
  PROVE  RwInv'
<1>1. /\ is_reader' = [is_reader EXCEPT ![t] = TRUE]
      /\ reading_now' = [reading_now EXCEPT ![t] = TRUE]
      /\ readers' = IF is_reader[t] THEN readers ELSE readers + 1
  BY DEF Rw!StartRead
<1>2. RwOthers(t)
  BY <1>1, RwTypes DEF RwOthers, RwPcs
<1>3. /\ rw_pc'[t] = "reading" /\ is_reader'[t] /\ reading_now'[t]
      /\ \A u \in RwThreads \ {t} : rw_pc'[u] = rw_pc[u] /\ is_reader'[u] = is_reader[u]
  BY <1>1, RwTypes
<1>4. rw_pc'[t] \notin Rw!WriterPcs /\ t \notin Writing
  BY <1>3 DEF Writing, Rw!WriterPcs
<1>5. Registered' = Registered \cup {t} /\ Writing' = Writing
  BY <1>2, <1>3, <1>4, RwSets
<1>6. readers' = Cardinality(Registered')
  <2>1. CASE is_reader[t]
    <3>1. Registered' = Registered
      BY <1>5, <2>1 DEF Registered
    <3> QED  BY <1>1, <2>1, <3>1 DEF RwInv, RwCounted
  <2>2. CASE ~is_reader[t]
    <3>1. t \notin Registered /\ Registered \in SUBSET RwThreads
      BY <2>2 DEF Registered
    <3>2. Cardinality(Registered \cup {t}) = Cardinality(Registered) + 1
      BY <3>1, RwCountMoves
    <3> QED  BY <1>1, <1>5, <2>2, <3>2 DEF RwInv, RwCounted
  <2> QED  BY <2>1, <2>2
<1>7. RwCounted'
  BY <1>5, <1>6 DEF RwInv, RwCounted
<1>8. RwPlace(t)'
  BY <1>3, RwTypes, Zenon DEF RwInv, RwAll, RwPlace, Clearing
<1>9. RwFlag(t)' /\ RwSleeper(t)' /\ rw_pc[t] \notin Clearing \cup {"t_assert"}
  BY <1>3 DEF RwFlag, RwSleeper, Rw!WriterPcs, Through, Clearing
<1> QED  BY <1>2, <1>3, <1>5, <1>7, <1>8, <1>9, RwAlone, Zenon

(* oo_rwlock_unlock_read up to the barrier *)
LEMMA RwUnlockRead ==
  ASSUME CountedAssumption, RwInv, NEW t \in RwThreads, Rw!UnlockRead(t)
  PROVE  RwInv'
<1>1. /\ rw_pc[t] = "reading" /\ rw_pc' = [rw_pc EXCEPT ![t] = "u_check"]
      /\ reading_now' = [reading_now EXCEPT ![t] = FALSE]
      /\ UNCHANGED <<is_reader, readers, writer, writers, mutex, write_lock>>
  BY DEF Rw!UnlockRead, Rw!Goto, Rw!val
<1>2. RwOthers(t)
  BY <1>1, RwTypes DEF RwOthers, RwPcs
<1>3. rw_pc'[t] = "u_check" /\ \A u \in RwThreads \ {t} : rw_pc'[u] = rw_pc[u]
  BY <1>1, RwTypes
<1>4. Registered' = Registered /\ Writing' = Writing
  BY <1>1, <1>3 DEF Registered, Writing, Rw!WriterPcs
<1>5. RwCounted'
  BY <1>1, <1>4 DEF RwInv, RwCounted
<1>6. RwPlace(t)'
  BY <1>1, <1>3, RwTypes, Zenon DEF RwInv, RwAll, RwPlace, Clearing
<1>7. RwFlag(t)' /\ RwSleeper(t)' /\ rw_pc[t] \notin Clearing \cup {"t_assert"}
  BY <1>1, <1>3 DEF RwFlag, RwSleeper, Rw!WriterPcs, Through, Clearing
<1> QED  BY <1>1, <1>2, <1>3, <1>4, <1>5, <1>6, <1>7, RwAlone, Zenon

(* What pthread_cond_broadcast does to the places of the threads *)
LEMMA RwWoken ==
  ASSUME CountedAssumption, RwInv, NEW t \in RwThreads, NEW p \in RwPcs, Rw!Broadcast(t, p)
  PROVE  /\ rw_pc' \in [RwThreads -> RwPcs] /\ rw_pc'[t] = p
         /\ \A u \in RwThreads \ {t} :
              /\ rw_pc'[u] \notin {"r_sleep", "w_sleep"}
              /\ \/ rw_pc'[u] = rw_pc[u]
                 \/ rw_pc[u] = "r_sleep" /\ rw_pc'[u] = "r_woken"
                 \/ rw_pc[u] = "w_sleep" /\ rw_pc'[u] = "w_woken"
<1>1. ASSUME NEW u \in RwThreads
      PROVE  /\ u = t => rw_pc'[u] = p
             /\ u # t /\ rw_pc[u] = "r_sleep" => rw_pc'[u] = "r_woken"
             /\ u # t /\ rw_pc[u] = "w_sleep" => rw_pc'[u] = "w_woken"
             /\ u # t /\ rw_pc[u] \notin {"r_sleep", "w_sleep"} => rw_pc'[u] = rw_pc[u]
  BY DEF Rw!Broadcast
<1>2. "r_woken" \in RwPcs /\ "w_woken" \in RwPcs /\ \A u \in RwThreads : rw_pc[u] \in RwPcs
  BY RwTypes DEF RwPcs, Rw!WriterPcs
<1>3. \A u \in RwThreads : rw_pc'[u] \in RwPcs
  BY <1>1, <1>2
<1>4. rw_pc' = [u \in RwThreads |-> rw_pc'[u]]
  BY DEF Rw!Broadcast
<1> QED  BY <1>1, <1>3, <1>4

(* rwlock_stop_read: the last reader to leave wakes the writers. *)
LEMMA RwStopRead ==
  ASSUME CountedAssumption, RwInv, NEW t \in RwThreads, Rw!StopRead(t)
  PROVE  RwInv'
<1>1. /\ rw_pc[t] = "u_stop" /\ is_reader' = [is_reader EXCEPT ![t] = FALSE]
      /\ readers' = IF is_reader[t] THEN readers - 1 ELSE readers
      /\ UNCHANGED <<reading_now, writer, writers, mutex, write_lock>>
  BY DEF Rw!StopRead
<1>2. /\ rw_pc' \in [RwThreads -> RwPcs] /\ rw_pc'[t] = "idle"
      /\ \A u \in RwThreads \ {t} :
           \/ rw_pc'[u] = rw_pc[u]
           \/ rw_pc[u] = "r_sleep" /\ rw_pc'[u] = "r_woken"
           \/ rw_pc[u] = "w_sleep" /\ rw_pc'[u] = "w_woken"
      /\ readers' = 0 /\ writer => \A u \in RwThreads \ {t} : rw_pc'[u] # "w_sleep"
  <2>0. "idle" \in RwPcs
    BY DEF RwPcs
  <2>1. CASE readers' = 0 /\ writer
    BY <2>0, <2>1, RwWoken DEF Rw!StopRead
  <2>2. CASE ~(readers' = 0 /\ writer)
    BY <2>0, <2>2, RwTypes DEF Rw!StopRead, Rw!Goto
  <2> QED  BY <2>1, <2>2
<1>3. ~is_reader'[t] /\ \A u \in RwThreads \ {t} : is_reader'[u] = is_reader[u]
  BY <1>1, RwTypes
<1>4. RwOthers(t)
  BY <1>1, <1>2, RwTypes DEF RwOthers
<1>5. Registered' = Registered \ {t} /\ Writing' = Writing
  <2>1. rw_pc'[t] \notin Rw!WriterPcs /\ t \notin Writing
    BY <1>1, <1>2 DEF Writing, Rw!WriterPcs
  <2> QED  BY <1>3, <1>4, <2>1, RwSets
<1>6. readers' = Cardinality(Registered')
  <2>1. CASE ~is_reader[t]
    <3>1. Registered' = Registered
      BY <1>5, <2>1 DEF Registered
    <3> QED  BY <1>1, <2>1, <3>1 DEF RwInv, RwCounted
  <2>2. CASE is_reader[t]
    <3>1. t \in Registered /\ Registered \in SUBSET RwThreads
      BY <2>2 DEF Registered
    <3>2. Cardinality(Registered \ {t}) = Cardinality(Registered) - 1
      BY <3>1, RwCountMoves
    <3> QED  BY <1>1, <1>5, <2>2, <3>2 DEF RwInv, RwCounted
  <2> QED  BY <2>1, <2>2
<1>7. RwCounted'
  BY <1>1, <1>5, <1>6 DEF RwInv, RwCounted
<1>8. RwPlace(t)'
  BY <1>1, <1>2, RwTypes, Zenon DEF RwInv, RwAll, RwPlace, Clearing
<1>9. RwFlag(t)' /\ RwSleeper(t)' /\ rw_pc[t] \notin Clearing \cup {"t_assert"}
  BY <1>1, <1>2, <1>3 DEF RwFlag, RwSleeper, Rw!WriterPcs, Through, Clearing
<1>10. CASE Registered' # {} \/ ~writer
  BY <1>1, <1>3, <1>4, <1>5, <1>7, <1>8, <1>9, <1>10, RwAlone, Zenon
<1>11. CASE Registered' = {} /\ writer
  <2>1. readers' = 0
    BY <1>6, <1>11, FS_EmptySet
  <2>2. \A u \in RwThreads : ~is_reader'[u]
    BY <1>11, Zenon DEF Registered
  <2>3. \A u \in RwThreads \ {t} : RwFlag(u)' /\ RwSleeper(u)'
    BY <1>1, <1>2, <1>4, <1>5, <1>11, <2>1, <2>2, RwOthersFlag, Zenon
  <2> QED  BY <1>4, <1>7, <1>8, <1>9, <2>3, RwOthersKept, Zenon DEF RwInv, RwAll
<1> QED  BY <1>10, <1>11

(* A writer is announced and counted. *)
LEMMA RwAnnounce ==
  ASSUME CountedAssumption, RwInv, NEW t \in RwThreads, Rw!Announce(t)
  PROVE  RwInv'
<1>1. /\ rw_pc[t] = "idle" /\ writers' = writers + 1
      /\ UNCHANGED <<is_reader, reading_now, readers, writer, mutex, write_lock>>
  BY DEF Rw!Announce, Rw!Goto, Rw!flags, Rw!val
<1>2. PICK p \in {"w_mutex", "t_mutex"} : rw_pc' = [rw_pc EXCEPT ![t] = p]
  BY DEF Rw!Announce, Rw!Goto
<1>3. /\ rw_pc'[t] = p /\ p \in Rw!WriterPcs /\ p \in RwPcs
      /\ \A u \in RwThreads \ {t} : rw_pc'[u] = rw_pc[u]
  BY <1>2, RwTypes DEF RwPcs, Rw!WriterPcs
<1>4. RwOthers(t)
  BY <1>1, <1>2, <1>3, RwTypes, Zenon DEF RwOthers
<1>5. Registered' = Registered /\ Writing' = Writing \cup {t}
  BY <1>1, <1>3, <1>4, RwSets DEF Registered
<1>6. RwCounted'
  <2>1. t \notin Writing /\ Writing \in SUBSET RwThreads
    BY <1>1 DEF Writing, Rw!WriterPcs
  <2>2. Cardinality(Writing \cup {t}) = Cardinality(Writing) + 1
    BY <2>1, RwCountMoves, Zenon
  <2> QED  BY <1>1, <1>5, <2>2 DEF RwInv, RwCounted
<1>7. RwPlace(t) /\ RwPlace(t)'
  BY <1>1, <1>3, RwTypes DEF RwInv, RwAll, RwPlace, Clearing
<1>8. RwFlag(t)'
  <2>1. mutex # t /\ mutex \in RwThreads \cup {NoThread}
    BY <1>1, <1>7, RwTypes DEF RwPlace, Clearing
  <2>2. writer /\ is_reader[t] => mutex # NoThread /\ rw_pc[mutex] \in Clearing
    BY <1>1, Zenon DEF RwInv, RwAll, RwFlag
  <2> QED  BY <1>1, <1>3, <2>1, <2>2, Zenon DEF RwFlag, Through
<1>9. RwSleeper(t)' /\ rw_pc[t] \notin Clearing \cup {"t_assert"}
  BY <1>1, <1>3, Zenon DEF RwSleeper, Clearing
<1> QED  BY <1>1, <1>4, <1>5, <1>6, <1>7, <1>8, <1>9, RwAlone, Zenon

(* The mutex is taken and the writer flag raised: A of the comment. *)
LEMMA RwSetFlag ==
  ASSUME CountedAssumption, RwInv, NEW t \in RwThreads, Rw!SetWriterFlag(t)
  PROVE  RwInv'
<1>1. /\ rw_pc[t] \in {"w_mutex", "t_mutex"} /\ mutex = NoThread /\ mutex' = t /\ writer' = TRUE
      /\ UNCHANGED <<is_reader, reading_now, readers, writers, write_lock>>
  BY DEF Rw!SetWriterFlag, Rw!Goto, Rw!MutexFree, Rw!flags
<1>2. PICK p \in Clearing : rw_pc' = [rw_pc EXCEPT ![t] = p]
  BY DEF Rw!SetWriterFlag, Rw!Goto, Clearing
<1>3. /\ rw_pc'[t] = p /\ p \in Rw!WriterPcs /\ p \in RwPcs
      /\ \A u \in RwThreads \ {t} : rw_pc'[u] = rw_pc[u]
  BY <1>2, RwTypes, Zenon DEF RwPcs, Rw!WriterPcs, Clearing
<1>4. RwOthers(t)
  BY <1>1, <1>2, <1>3, RwTypes, Zenon DEF RwOthers
<1>5. Registered' = Registered /\ Writing' = Writing /\ t \in Writing
  <2>1. t \in Writing
    BY <1>1 DEF Writing, Rw!WriterPcs
  <2> QED  BY <1>1, <1>3, <1>4, <2>1, RwSets DEF Registered
<1>6. RwCounted'
  BY <1>1, <1>5 DEF RwInv, RwCounted
<1>7. RwPlace(t)'
  BY <1>1, <1>3, RwTypes, Zenon DEF RwInv, RwAll, RwPlace, Clearing
<1>8. RwFlag(t)' /\ RwSleeper(t)'
  BY <1>1, <1>3, RwTypes, Zenon DEF RwFlag, RwSleeper, Through, Clearing
<1>9. Registered' # {} \/ \A u \in RwThreads \ {t} : rw_pc'[u] # "w_sleep"
  BY <1>3, <1>5 DEF RwInv, RwAll, RwSleeper
<1>10. \A u \in RwThreads \ {t} : RwFlag(u)' /\ RwSleeper(u)'
  BY <1>1, <1>3, <1>4, <1>5, <1>9, RwTypes, RwOthersFlag, Zenon
<1> QED  BY <1>4, <1>6, <1>7, <1>8, <1>10, RwOthersKept, Zenon DEF RwInv, RwAll

(* Cardinality means the same in the module of the lock as here. *)
LEMMA RwCardinality ==
  ASSUME NEW S
  PROVE  Rw!Cardinality(S) = Cardinality(S)
  BY DEF Rw!Cardinality, Cardinality

(* rwlock_clear_readers: just the threads that are reading stay. *)
LEMMA RwCleared ==
  ASSUME CountedAssumption, RwInv, Rw!ClearReaders
  PROVE  /\ is_reader' \in [RwThreads -> BOOLEAN]
         /\ \A u \in RwThreads : is_reader'[u] <=> is_reader[u] /\ rw_pc[u] = "reading"
         /\ Registered' \subseteq Registered /\ readers' = Cardinality(Registered')
         /\ readers' = 0 <=> Registered' = {}
<1>1. is_reader' = [t \in RwThreads |-> is_reader[t] /\ reading_now[t]]
  BY DEF Rw!ClearReaders
<1>2. \A u \in RwThreads : is_reader'[u] <=> is_reader[u] /\ rw_pc[u] = "reading"
  BY <1>1, RwTypes, Zenon DEF RwInv, RwAll, RwPlace
<1>3. is_reader' \in [RwThreads -> BOOLEAN] /\ Registered' \subseteq Registered
  BY <1>1, RwTypes DEF Registered
<1>4. Registered' = {t \in RwThreads : is_reader[t] /\ reading_now[t]}
  BY <1>1, Zenon DEF Registered
<1>5. readers' = Cardinality(Registered')
  BY <1>4, RwCardinality DEF Rw!ClearReaders
<1>6. PICK S \in SUBSET RwThreads : S = Registered'
  BY Zenon DEF Registered
<1>7. IsFiniteSet(S)
  BY FS_Subset
<1>8. Cardinality(S) = 0 <=> S = {}
  BY <1>7, FS_EmptySet, Zenon
<1> QED  BY <1>2, <1>3, <1>5, <1>6, <1>8, Zenon

(* B of the comment: the writer that has raised the flag throws out the    *)
(* idle readers, and then sleeps, goes on, or (oo_rwlock_try_write) goes   *)
(* on with the mutex.                                                      *)
LEMMA RwClear ==
  ASSUME CountedAssumption, RwInv, NEW t \in RwThreads, Rw!ClearReaders,
         rw_pc[t] \in Clearing,
         \/ readers' = 0 /\ Rw!Broadcast(t, "w_lock") /\ mutex' = NoThread
         \/ readers' = 0 /\ Rw!Broadcast(t, "t_assert") /\ mutex' = mutex
         \/ readers' # 0 /\ rw_pc' = [rw_pc EXCEPT ![t] = "w_sleep"] /\ mutex' = NoThread,
         UNCHANGED <<reading_now, writer, writers, write_lock>>
  PROVE  RwInv'
<1>1. /\ is_reader' \in [RwThreads -> BOOLEAN]
      /\ \A u \in RwThreads : is_reader'[u] <=> is_reader[u] /\ rw_pc[u] = "reading"
      /\ Registered' \subseteq Registered /\ readers' = Cardinality(Registered')
      /\ readers' = 0 <=> Registered' = {}
  BY RwCleared
<1>2. mutex = t /\ writer /\ ~reading_now[t] /\ write_lock # t
  BY Zenon DEF RwInv, RwAll, RwPlace, RwFlag, Clearing, Rw!WriterPcs
<1>3. /\ rw_pc' \in [RwThreads -> RwPcs] /\ rw_pc'[t] \in {"w_lock", "t_assert", "w_sleep"}
      /\ rw_pc'[t] = "t_assert" <=> mutex' = t
      /\ rw_pc'[t] = "w_sleep" <=> readers' # 0
      /\ \A u \in RwThreads \ {t} :
           /\ readers' = 0 => rw_pc'[u] # "w_sleep"
           /\ \/ rw_pc'[u] = rw_pc[u]
              \/ rw_pc[u] = "r_sleep" /\ rw_pc'[u] = "r_woken"
              \/ rw_pc[u] = "w_sleep" /\ rw_pc'[u] = "w_woken"
  <2>0. "w_lock" \in RwPcs /\ "t_assert" \in RwPcs /\ "w_sleep" \in RwPcs /\ t # NoThread
    BY RwTypes DEF RwPcs, Rw!WriterPcs
  <2>1. CASE readers' = 0 /\ Rw!Broadcast(t, "w_lock") /\ mutex' = NoThread
    BY <2>0, <2>1, RwWoken
  <2>2. CASE readers' = 0 /\ Rw!Broadcast(t, "t_assert") /\ mutex' = mutex
    BY <2>0, <2>2, <1>2, RwWoken, Zenon
  <2>3. CASE readers' # 0 /\ rw_pc' = [rw_pc EXCEPT ![t] = "w_sleep"] /\ mutex' = NoThread
    BY <2>0, <2>3, RwTypes, Zenon
  <2> QED  BY <2>1, <2>2, <2>3, Zenon
<1>4. RwOthers(t)
  <2>1. mutex \in {t, NoThread} /\ mutex' \in {t, NoThread}
    BY <1>2, Zenon
  <2>2. \A u \in RwThreads : reading_now[u] => rw_pc[u] = "reading"
    BY DEF RwInv, RwAll, RwPlace
  <2> QED  BY <1>1, <1>3, <2>1, <2>2, RwTypes, Zenon DEF RwOthers
<1>5. Writing' = Writing
  <2>1. rw_pc'[t] \in Rw!WriterPcs /\ t \in Writing
    BY <1>3 DEF Writing, Clearing, Rw!WriterPcs
  <2>2. Writing' = IF rw_pc'[t] \in Rw!WriterPcs THEN Writing \cup {t} ELSE Writing \ {t}
    BY <1>4, RwSets, Zenon
  <2> QED  BY <2>1, <2>2, Zenon
<1>6. RwCounted'
  BY <1>1, <1>5, Zenon DEF RwInv, RwCounted
<1>7. RwPlace(t)'
  BY <1>2, <1>3, Zenon DEF RwPlace, Clearing
<1>8. RwFlag(t)' /\ RwSleeper(t)'
  BY <1>1, <1>2, <1>3, Zenon DEF RwFlag, RwSleeper, Through, Clearing
<1>9. \A u \in RwThreads \ {t} : is_reader'[u] => rw_pc'[u] = "reading"
  BY <1>1, <1>3
<1>10. \A u \in RwThreads \ {t} : RwFlag(u)' /\ RwSleeper(u)'
  BY <1>1, <1>3, <1>4, <1>9, RwOthersFlag, Zenon
<1> QED  BY <1>4, <1>6, <1>7, <1>8, <1>10, RwOthersKept, Zenon DEF RwInv, RwAll

(* rwlock_writers_dec: the last writer takes the flag down and wakes       *)
(* everybody; another only leaves.  A writer that gives up has thrown out  *)
(* the idle readers and found others.                                      *)
LEMMA RwDec ==
  ASSUME CountedAssumption, RwInv, NEW t \in RwThreads,
         Rw!WritersDec(t), UNCHANGED <<reading_now, write_lock>>,
         \/ rw_pc[t] = "w_dec" /\ UNCHANGED <<is_reader, readers>>
         \/ rw_pc[t] = "t_clear" /\ Rw!ClearReaders /\ readers' # 0
  PROVE  RwInv'
<1>1. /\ is_reader' \in [RwThreads -> BOOLEAN]
      /\ \A u \in RwThreads : is_reader'[u] => is_reader[u]
      /\ \A u \in RwThreads : is_reader[u] /\ rw_pc[u] = "reading" => is_reader'[u]
      /\ Registered' \subseteq Registered /\ readers' = Cardinality(Registered')
      /\ Registered' # {} \/ Registered' = Registered
      /\ rw_pc[t] = "t_clear" => \A u \in RwThreads : is_reader'[u] => rw_pc[u] = "reading"
  <2>1. CASE rw_pc[t] = "w_dec" /\ UNCHANGED <<is_reader, readers>>
    <3>1. Registered' = Registered
      BY <2>1 DEF Registered
    <3> QED  BY <2>1, <3>1, RwTypes, Zenon DEF RwInv, RwCounted
  <2>2. CASE rw_pc[t] = "t_clear" /\ Rw!ClearReaders /\ readers' # 0
    BY <2>2, RwCleared, Zenon
  <2> QED  BY <2>1, <2>2, Zenon
<1>2. /\ writer /\ t \in Writing /\ ~reading_now[t] /\ write_lock # t
      /\ mutex = t <=> rw_pc[t] = "t_clear"
  BY DEF RwInv, RwAll, RwPlace, RwFlag, Clearing, Writing, Rw!WriterPcs
<1>3. writers' = writers - 1 /\ mutex' = IF mutex = t THEN NoThread ELSE mutex
  BY DEF Rw!WritersDec
<1>i. "idle" \in RwPcs /\ "idle" \notin Rw!WriterPcs /\ NoThread # t
      /\ mutex \in RwThreads \cup {NoThread}
  BY RwTypes DEF RwPcs, Rw!WriterPcs
<1>4. CASE writers = 1
  <2>1. mutex \in {t, NoThread} /\ writer' = FALSE /\ Rw!Broadcast(t, "idle")
    BY <1>4, Zenon DEF Rw!WritersDec
  <2>2. /\ rw_pc' \in [RwThreads -> RwPcs] /\ rw_pc'[t] = "idle"
        /\ \A u \in RwThreads \ {t} :
             /\ rw_pc'[u] \notin {"r_sleep", "w_sleep"}
             /\ \/ rw_pc'[u] = rw_pc[u]
                \/ rw_pc[u] = "r_sleep" /\ rw_pc'[u] = "r_woken"
                \/ rw_pc[u] = "w_sleep" /\ rw_pc'[u] = "w_woken"
    BY <1>i, <2>1, RwWoken
  <2>3. RwOthers(t)
    <3>1. \A u \in RwThreads : reading_now[u] => rw_pc[u] = "reading"
      BY Zenon DEF RwInv, RwAll, RwPlace
    <3> QED  BY <1>1, <1>3, <2>1, <2>2, <3>1, RwTypes, Zenon DEF RwOthers
  <2>4. Writing = {t} /\ Writing' = {}
    <3>1. Writing = {t}
      BY <1>2, <1>4, RwCounts, Zenon
    <3>2. Writing' = IF rw_pc'[t] \in Rw!WriterPcs THEN Writing \cup {t} ELSE Writing \ {t}
      BY <2>3, RwSets, Zenon
    <3> QED  BY <3>1, <3>2, <1>i, <2>2, Zenon
  <2>5. RwCounted'
    BY <1>1, <1>3, <1>4, <2>1, <2>4, FS_EmptySet DEF RwCounted
  <2>6. RwPlace(t)' /\ RwFlag(t)' /\ RwSleeper(t)'
    BY <1>1, <1>2, <1>3, <1>i, <2>1, <2>2, Zenon DEF RwPlace, RwFlag, RwSleeper, Clearing, Through
  <2>7. \A u \in RwThreads \ {t} : RwFlag(u)' /\ RwSleeper(u)'
    BY <1>1, <2>1, <2>2, <2>3, <2>4, RwOthersFlag, Zenon
  <2> QED  BY <2>3, <2>5, <2>6, <2>7, RwOthersKept, Zenon DEF RwInv, RwAll
<1>5. CASE writers # 1
  <2>1. writer' = writer /\ rw_pc' = [rw_pc EXCEPT ![t] = "idle"]
    BY <1>5 DEF Rw!WritersDec
  <2>2. /\ rw_pc' \in [RwThreads -> RwPcs] /\ rw_pc'[t] = "idle"
        /\ \A u \in RwThreads \ {t} : rw_pc'[u] = rw_pc[u]
    BY <1>i, <2>1, RwTypes
  <2>3. RwOthers(t)
    <3>1. \A u \in RwThreads : reading_now[u] => rw_pc[u] = "reading"
      BY Zenon DEF RwInv, RwAll, RwPlace
    <3>2. \/ mutex' = mutex
          \/ mutex \in {t, NoThread} /\ mutex' \in {t, NoThread}
      BY <1>3
    <3> QED  BY <1>1, <2>1, <2>2, <3>1, <3>2, RwTypes, Zenon DEF RwOthers
  <2>4. Writing' = Writing \ {t}
    BY <1>i, <2>2, <2>3, RwSets, Zenon
  <2>5. RwCounted'
    <3>1. Writing \in SUBSET RwThreads
      BY DEF Writing
    <3>2. Cardinality(Writing \ {t}) = Cardinality(Writing) - 1
      BY <1>2, <3>1, RwCountMoves
    <3>3. Cardinality(Writing \ {t}) # 0
      BY <3>2, <1>5, RwCounts DEF RwInv, RwCounted
    <3>4. Writing' # {}
      BY <2>4, <3>3, FS_EmptySet
    <3> QED  BY <1>1, <1>3, <2>1, <2>4, <3>2, <3>4, Zenon DEF RwInv, RwCounted
  <2>6. ASSUME NEW u \in RwThreads, is_reader'[u]
        PROVE  \/ rw_pc'[u] \in {"reading", "u_check", "u_stop"}
               \/ mutex' # NoThread /\ rw_pc'[mutex'] \in Clearing
    <3>1. CASE rw_pc[t] = "t_clear"
      BY <1>1, <2>2, <2>6, <3>1, Zenon
    <3>2. CASE rw_pc[t] # "t_clear"
      <4>1. mutex # t /\ mutex' = mutex /\ rw_pc[t] = "w_dec"
        BY <1>2, <1>3, <3>2
      <4>2. \/ rw_pc[u] \in {"reading", "u_check", "u_stop"}
            \/ mutex # NoThread /\ rw_pc[mutex] \in Clearing
        BY <1>1, <1>2, <2>6, Zenon DEF RwInv, RwAll, RwFlag
      <4> QED  BY <4>1, <4>2, <1>i, <2>2, Zenon
    <3> QED  BY <3>1, <3>2, Zenon
  <2>7. RwPlace(t)' /\ RwSleeper(t)'
    BY <1>2, <1>3, <1>i, <2>2, Zenon DEF RwPlace, RwSleeper, Clearing
  <2>8. RwFlag(t)'
    BY <1>i, <2>2, <2>6 DEF RwFlag, Through
  <2>9. Registered' # {} \/ \A u \in RwThreads \ {t} : rw_pc'[u] # "w_sleep"
    BY <1>1, <2>2, Zenon DEF RwInv, RwAll, RwSleeper
  <2>10. \A u \in RwThreads \ {t} : RwFlag(u)' /\ RwSleeper(u)'
    BY <1>1, <2>1, <2>3, <2>6, <2>9, RwOthersFlag, Zenon
  <2> QED  BY <2>3, <2>5, <2>7, <2>8, <2>10, RwOthersKept, Zenon DEF RwInv, RwAll
<1> QED  BY <1>4, <1>5

(* oo_rwlock_try_write unlocks the mutex. *)
LEMMA RwUnlockMutex ==
  ASSUME CountedAssumption, RwInv, NEW t \in RwThreads, Rw!TryUnlockMutex(t)
  PROVE  RwInv'
<1>1. /\ rw_pc[t] = "t_assert" /\ rw_pc' = [rw_pc EXCEPT ![t] = "t_lock"] /\ mutex' = NoThread
      /\ UNCHANGED <<is_reader, reading_now, readers, writer, writers, write_lock>>
  BY Zenon DEF Rw!TryUnlockMutex, Rw!Goto, Rw!flags, Rw!val
<1>2. /\ rw_pc'[t] = "t_lock" /\ "t_lock" \in RwPcs
      /\ \A u \in RwThreads \ {t} : rw_pc'[u] = rw_pc[u]
  BY <1>1, RwTypes DEF RwPcs, Rw!WriterPcs
<1>3. mutex = t /\ writer /\ Registered = {} /\ ~reading_now[t] /\ write_lock # t
  BY <1>1, Zenon DEF RwInv, RwAll, RwPlace, RwFlag, Through, Rw!WriterPcs
<1>4. RwOthers(t)
  BY <1>1, <1>2, <1>3, RwTypes, Zenon DEF RwOthers
<1>5. Registered' = Registered /\ Writing' = Writing
  <2>1. rw_pc'[t] \in Rw!WriterPcs /\ t \in Writing
    BY <1>1, <1>2 DEF Writing, Rw!WriterPcs
  <2>2. Writing' = IF rw_pc'[t] \in Rw!WriterPcs THEN Writing \cup {t} ELSE Writing \ {t}
    BY <1>4, RwSets, Zenon
  <2> QED  BY <1>1, <2>1, <2>2, Zenon DEF Registered
<1>6. RwCounted'
  BY <1>1, <1>5 DEF RwInv, RwCounted
<1>7. \A u \in RwThreads : ~is_reader'[u] /\ rw_pc'[u] # "w_sleep"
  BY <1>1, <1>2, <1>3, Zenon DEF Registered, RwInv, RwAll, RwSleeper
<1>8. RwPlace(t)' /\ RwFlag(t)' /\ RwSleeper(t)'
  BY <1>1, <1>2, <1>3, <1>5, <1>7, RwTypes, Zenon DEF RwPlace, RwFlag, RwSleeper, Clearing
<1>9. \A u \in RwThreads \ {t} : RwFlag(u)' /\ RwSleeper(u)'
  BY <1>1, <1>4, <1>5, <1>7, RwOthersFlag, Zenon
<1> QED  BY <1>4, <1>6, <1>8, <1>9, RwOthersKept, Zenon DEF RwInv, RwAll

(* The write lock is taken by a writer that is past the readers, and       *)
(* released by oo_rwlock_unlock_write or by oo_rwlock_cond_wait.           *)
LEMMA RwWriteLock ==
  ASSUME CountedAssumption, RwInv, NEW t \in RwThreads,
         Rw!TakeWriteLock(t) \/ Rw!UnlockWrite(t) \/ Rw!CondWait(t)
  PROVE  RwInv'
<1>1. UNCHANGED <<is_reader, reading_now, readers, writer, writers, mutex>>
  BY DEF Rw!TakeWriteLock, Rw!UnlockWrite, Rw!CondWait, Rw!flags, Rw!val
<1>2. PICK p \in {"writing", "w_dec", "c_sleep"} : rw_pc' = [rw_pc EXCEPT ![t] = p]
  BY Zenon DEF Rw!TakeWriteLock, Rw!UnlockWrite, Rw!CondWait, Rw!Goto
<1>3. rw_pc'[t] = p /\ \A u \in RwThreads \ {t} : rw_pc'[u] = rw_pc[u]
  BY <1>2, RwTypes
<1>4. \/ write_lock = NoThread /\ write_lock' = t /\ p = "writing"
         /\ rw_pc[t] \in {"w_lock", "t_lock", "c_woken"}
      \/ write_lock' = NoThread /\ p \in {"w_dec", "c_sleep"} /\ rw_pc[t] = "writing"
  BY <1>3, RwTypes, Zenon DEF Rw!TakeWriteLock, Rw!UnlockWrite, Rw!CondWait, Rw!Goto
<1>5. /\ rw_pc[t] \in Through /\ rw_pc[t] \in Rw!WriterPcs \ {"w_mutex", "t_mutex"}
      /\ p \in RwPcs /\ p \in Rw!WriterPcs /\ rw_pc[t] \notin Clearing \cup {"t_assert"}
  BY <1>4 DEF Through, Clearing, RwPcs, Rw!WriterPcs
<1>6. /\ writer /\ Registered = {} /\ mutex # t /\ ~reading_now[t]
      /\ write_lock \in {t, NoThread} /\ write_lock' \in {t, NoThread}
      /\ write_lock' = t <=> p = "writing"
  BY <1>4, <1>5, RwTypes, Zenon DEF RwInv, RwAll, RwPlace, RwFlag
<1>7. RwOthers(t)
  BY <1>1, <1>2, <1>3, <1>5, <1>6, RwTypes, Zenon DEF RwOthers
<1>8. Registered' = Registered /\ Writing' = Writing
  <2>1. t \in Writing
    BY <1>5, Zenon DEF Writing
  <2>2. Writing' = IF rw_pc'[t] \in Rw!WriterPcs THEN Writing \cup {t} ELSE Writing \ {t}
    BY <1>7, RwSets, Zenon
  <2> QED  BY <1>1, <1>3, <1>5, <2>1, <2>2, Zenon DEF Registered
<1>9. RwCounted'
  BY <1>1, <1>8 DEF RwInv, RwCounted
<1>10. RwPlace(t)' /\ RwSleeper(t)'
  BY <1>1, <1>3, <1>6, Zenon DEF RwPlace, RwSleeper, Clearing
<1>11. RwFlag(t)'
  <2>1. ~is_reader'[t]
    BY <1>1, <1>6, Zenon DEF Registered
  <2> QED  BY <1>1, <1>6, <1>8, <2>1, Zenon DEF RwFlag
<1> QED  BY <1>1, <1>5, <1>7, <1>8, <1>9, <1>10, <1>11, RwAlone, Zenon

(* oo_rwlock_cond_broadcast, by a thread that writes *)
LEMMA RwCondBroadcast ==
  ASSUME CountedAssumption, RwInv, NEW t \in RwThreads, Rw!CondBroadcast(t)
  PROVE  RwInv'
<1>1. /\ rw_pc[t] = "writing"
      /\ rw_pc' = [u \in RwThreads |-> IF rw_pc[u] = "c_sleep" THEN "c_woken" ELSE rw_pc[u]]
      /\ UNCHANGED <<is_reader, reading_now, readers, writer, writers, mutex, write_lock>>
  BY Zenon DEF Rw!CondBroadcast, Rw!flags, Rw!val
<1>2. /\ rw_pc' \in [RwThreads -> RwPcs] /\ rw_pc'[t] = "writing"
      /\ \A u \in RwThreads \ {t} : \/ rw_pc'[u] = rw_pc[u]
                                    \/ rw_pc[u] = "c_sleep" /\ rw_pc'[u] = "c_woken"
  <2>1. "c_woken" \in RwPcs
    BY DEF RwPcs, Rw!WriterPcs
  <2> QED  BY <1>1, <2>1, RwTypes
<1>3. RwOthers(t)
  BY <1>1, <1>2, RwTypes, Zenon DEF RwOthers
<1>4. Registered' = Registered /\ Writing' = Writing
  <2>1. rw_pc'[t] \in Rw!WriterPcs /\ t \in Writing
    BY <1>1, <1>2, Zenon DEF Writing, Rw!WriterPcs
  <2>2. Writing' = Writing \cup {t}
    BY <1>3, <2>1, RwSets, Zenon
  <2>3. Registered' = Registered
    BY <1>1, Zenon DEF Registered
  <2> QED  BY <2>1, <2>2, <2>3
<1>5. RwCounted'
  BY <1>1, <1>4 DEF RwInv, RwCounted
<1>6. RwPlace(t)' /\ RwSleeper(t)' /\ rw_pc[t] \notin Clearing \cup {"t_assert"}
  BY <1>1, <1>2, Zenon DEF RwInv, RwAll, RwPlace, RwSleeper, Clearing
<1>7. RwFlag(t)'
  <2>1. writer /\ Registered = {}
    BY <1>1, Zenon DEF RwInv, RwAll, RwFlag, Through, Rw!WriterPcs
  <2>2. ~is_reader'[t]
    BY <1>1, <2>1 DEF Registered
  <2> QED  BY <1>1, <1>4, <2>1, <2>2, Zenon DEF RwFlag
<1> QED  BY <1>1, <1>3, <1>4, <1>5, <1>6, <1>7, RwAlone, Zenon

(* Every step of a thread keeps the invariant. *)
LEMMA RwStep ==
  ASSUME CountedAssumption, RwInv, [Rw!Next]_rwVars
  PROVE  RwInv'
<1>1. CASE UNCHANGED rwVars
  BY <1>1, Zenon DEF rwVars, RwInv, RwTyped, RwAll, RwPlace, RwFlag, RwSleeper, RwCounted,
     Registered, Writing
<1>2. ASSUME NEW t \in RwThreads, Rw!ReadSlow(t) PROVE RwInv'
  <2>1. /\ rw_pc[t] = "idle" /\ ~is_reader[t]
        /\ UNCHANGED <<is_reader, reading_now, readers, writer, writers, mutex, write_lock>>
    BY <1>2, Zenon DEF Rw!ReadSlow, Rw!Goto, Rw!flags, Rw!val
  <2>2. PICK p \in {"r_mutex", "r_try"} : rw_pc' = [rw_pc EXCEPT ![t] = p]
    BY <1>2 DEF Rw!ReadSlow, Rw!Goto
  <2>3. /\ p \in RwPcs /\ p \notin Rw!WriterPcs /\ rw_pc[t] \notin Rw!WriterPcs
        /\ p \notin Clearing \cup {"t_assert", "reading", "writing"} /\ p \notin Through
        /\ rw_pc[t] \notin Clearing \cup {"t_assert", "reading", "writing"}
    BY <2>1 DEF RwPcs, Clearing, Through, Rw!WriterPcs
  <2> QED  BY <2>1, <2>2, <2>3, RwLocal, Zenon
<1>3. ASSUME NEW t \in RwThreads, Rw!ReadUnderMutex(t) PROVE RwInv'
  <2>1. CASE writer
    <3>1. /\ rw_pc[t] \in {"r_mutex", "r_woken", "r_try"}
          /\ UNCHANGED <<is_reader, reading_now, readers, writer, writers, mutex, write_lock>>
      BY <1>3, <2>1, Zenon DEF Rw!ReadUnderMutex, Rw!Goto, Rw!flags
    <3>2. PICK p \in {"r_sleep", "idle"} : rw_pc' = [rw_pc EXCEPT ![t] = p]
      BY <1>3, <2>1, Zenon DEF Rw!ReadUnderMutex, Rw!Goto
    <3>3. /\ p \in RwPcs /\ p \notin Rw!WriterPcs /\ rw_pc[t] \notin Rw!WriterPcs
          /\ p \notin Clearing \cup {"t_assert", "reading", "writing"} /\ p \notin Through
          /\ rw_pc[t] \notin Clearing \cup {"t_assert", "reading", "writing"}
      BY <3>1 DEF RwPcs, Clearing, Through, Rw!WriterPcs
    <3> QED  BY <2>1, <3>1, <3>2, <3>3, RwLocal, Zenon
  <2>2. CASE ~writer
    <3>1. /\ rw_pc[t] \in {"r_mutex", "r_woken", "r_try"}
          /\ rw_pc' = [rw_pc EXCEPT ![t] = "reading"] /\ Rw!StartRead(t)
          /\ UNCHANGED <<writer, writers, mutex, write_lock>>
      BY <1>3, <2>2 DEF Rw!ReadUnderMutex, Rw!Goto
    <3> QED  BY <2>2, <3>1, RwStartRead, Zenon
  <2> QED  BY <2>1, <2>2
<1>4. ASSUME NEW t \in RwThreads, Rw!CheckWriter(t) PROVE RwInv'
  <2>1. /\ rw_pc[t] = "u_check"
        /\ UNCHANGED <<is_reader, reading_now, readers, writer, writers, mutex, write_lock>>
    BY <1>4 DEF Rw!CheckWriter, Rw!Goto, Rw!flags, Rw!val
  <2>2. PICK p \in {"u_stop", "idle"} : /\ rw_pc' = [rw_pc EXCEPT ![t] = p]
                                        /\ writer => p = "u_stop"
    BY <1>4, Zenon DEF Rw!CheckWriter, Rw!Goto
  <2>3. /\ p \in RwPcs /\ p \notin Rw!WriterPcs /\ rw_pc[t] \notin Rw!WriterPcs
        /\ p \notin Clearing \cup {"t_assert", "reading", "writing"} /\ p \notin Through
        /\ rw_pc[t] \notin Clearing \cup {"t_assert", "reading", "writing"}
    BY <2>1 DEF RwPcs, Clearing, Through, Rw!WriterPcs
  <2> QED  BY <2>1, <2>2, <2>3, RwLocal, Zenon
<1>5. ASSUME NEW t \in RwThreads, Rw!RecheckReaders(t) PROVE RwInv'
  <2>1. /\ rw_pc[t] = "w_woken"
        /\ UNCHANGED <<is_reader, reading_now, readers, writer, writers, mutex, write_lock>>
    BY <1>5 DEF Rw!RecheckReaders, Rw!Goto, Rw!flags, Rw!val
  <2>2. writer
    BY <2>1 DEF RwInv, RwAll, RwFlag, Rw!WriterPcs
  <2>3. PICK p \in {"w_lock", "w_sleep"} : /\ rw_pc' = [rw_pc EXCEPT ![t] = p]
                                           /\ p = "w_lock" <=> readers = 0
    BY <1>5, <2>2, Zenon DEF Rw!RecheckReaders, Rw!Goto
  <2>4. p = "w_lock" <=> Registered = {}
    BY <2>3, RwCounts, Zenon
  <2>5. /\ p \in RwPcs /\ p \in Rw!WriterPcs /\ rw_pc[t] \in Rw!WriterPcs
        /\ p \notin Clearing \cup {"t_assert", "reading", "writing"}
        /\ p \in Through => p = "w_lock"
        /\ rw_pc[t] \notin Clearing \cup {"t_assert", "reading", "writing"}
    BY <2>1 DEF RwPcs, Clearing, Through, Rw!WriterPcs
  <2> QED  BY <2>1, <2>2, <2>3, <2>4, <2>5, RwLocal, Zenon
<1>6. ASSUME NEW t \in RwThreads, Rw!TryBackOff(t) PROVE RwInv'
  <2>1. /\ rw_pc[t] = "t_lock" /\ rw_pc' = [rw_pc EXCEPT ![t] = "w_dec"]
        /\ UNCHANGED <<is_reader, reading_now, readers, writer, writers, mutex, write_lock>>
    BY <1>6, Zenon DEF Rw!TryBackOff, Rw!Goto, Rw!flags, Rw!val
  <2>2. /\ writer /\ "w_dec" \in RwPcs /\ "w_dec" \in Rw!WriterPcs /\ rw_pc[t] \in Rw!WriterPcs
        /\ "w_dec" \notin Clearing \cup {"t_assert", "reading", "writing"} /\ "w_dec" \notin Through
        /\ rw_pc[t] \notin Clearing \cup {"t_assert", "reading", "writing"}
    BY <2>1 DEF RwInv, RwAll, RwFlag, RwPcs, Clearing, Through, Rw!WriterPcs
  <2> QED  BY <2>1, <2>2, RwLocal, Zenon
<1>7. ASSUME NEW t \in RwThreads, Rw!SpuriousWake(t) PROVE RwInv'
  <2>1. UNCHANGED <<is_reader, reading_now, readers, writer, writers, mutex, write_lock>>
    BY <1>7, Zenon DEF Rw!SpuriousWake, Rw!flags, Rw!val
  <2>2. PICK p \in {"r_woken", "w_woken", "c_woken"} :
          /\ rw_pc' = [rw_pc EXCEPT ![t] = p]
          /\ p = "r_woken" => rw_pc[t] = "r_sleep"
          /\ p = "w_woken" => rw_pc[t] = "w_sleep"
          /\ p = "c_woken" => rw_pc[t] = "c_sleep"
    BY <1>7, Zenon DEF Rw!SpuriousWake, Rw!Goto
  <2>3. /\ p \in RwPcs
        /\ p \in Rw!WriterPcs <=> rw_pc[t] \in Rw!WriterPcs
        /\ p \notin Clearing \cup {"t_assert", "reading", "writing"}
        /\ p \in Through => rw_pc[t] \in Through
        /\ p \in Rw!WriterPcs => rw_pc[t] \in Rw!WriterPcs \ {"w_mutex", "t_mutex"}
        /\ rw_pc[t] \notin Clearing \cup {"t_assert", "reading", "writing", "u_check", "u_stop"}
    BY <2>2, Zenon DEF RwPcs, Clearing, Through, Rw!WriterPcs
  <2>4. /\ p \in Through => Registered = {}
        /\ p \in Rw!WriterPcs \ {"w_mutex", "t_mutex"} => writer
    BY <2>3, Zenon DEF RwInv, RwAll, RwFlag
  <2> QED  BY <2>1, <2>2, <2>3, <2>4, RwLocal, Zenon
<1>8. ASSUME NEW t \in RwThreads, Rw!ClearAndWait(t) PROVE RwInv'
  BY <1>8, RwClear DEF Rw!ClearAndWait, Rw!Goto, Clearing
<1>9. ASSUME NEW t \in RwThreads, Rw!ClearOrGiveUp(t) PROVE RwInv'
  <2>0. /\ rw_pc[t] = "t_clear" /\ rw_pc[t] \in Clearing /\ Rw!ClearReaders
        /\ UNCHANGED <<reading_now, write_lock>>
    BY <1>9, Zenon DEF Rw!ClearOrGiveUp, Clearing
  <2>1. CASE readers' = 0
    <3>1. Rw!Broadcast(t, "t_assert") /\ UNCHANGED <<writer, writers, mutex>>
      BY <1>9, <2>1, Zenon DEF Rw!ClearOrGiveUp
    <3> QED  BY <2>0, <2>1, <3>1, RwClear, Zenon
  <2>2. CASE readers' # 0
    <3>1. Rw!WritersDec(t)
      BY <1>9, <2>2, Zenon DEF Rw!ClearOrGiveUp
    <3> QED  BY <2>0, <2>2, <3>1, RwDec, Zenon
  <2> QED  BY <2>1, <2>2, Zenon
<1>10. ASSUME NEW t \in RwThreads, Rw!DecWriters(t) PROVE RwInv'
  <2>1. /\ rw_pc[t] = "w_dec" /\ Rw!WritersDec(t)
        /\ UNCHANGED <<is_reader, reading_now, readers, write_lock>>
    BY <1>10 DEF Rw!DecWriters, Rw!flags
  <2> QED  BY <2>1, RwDec, Zenon
<1> QED
  BY <1>1, <1>2, <1>3, <1>4, <1>5, <1>6, <1>7, <1>8, <1>9, <1>10,
     RwReadFast, RwUnlockRead, RwStopRead, RwAnnounce, RwSetFlag, RwUnlockMutex,
     RwWriteLock, RwCondBroadcast, Zenon
     DEF Rw!Next, Rw!Proceed, Rw!Begin, Rw!Waits

LEMMA RwStarts ==
  ASSUME CountedAssumption, Rw!Init
  PROVE  RwInv
<1>1. RwTyped
  BY Zenon DEF Rw!Init, RwTyped, RwPcs
<1>2. Registered = {} /\ Writing = {} /\ \A t \in RwThreads : rw_pc[t] = "idle"
  BY DEF Rw!Init, Registered, Writing, Rw!WriterPcs
<1>3. RwCounted
  BY <1>2, FS_EmptySet, Zenon DEF Rw!Init, RwCounted
<1>4. RwAll
  BY <1>2, CountedAssumption DEF Rw!Init, RwAll, RwPlace, RwFlag, RwSleeper, Clearing, Through,
     Rw!WriterPcs
<1> QED  BY <1>1, <1>3, <1>4 DEF RwInv

(* The invariant says what the three properties of the lock say. *)
LEMMA RwKeeps ==
  ASSUME CountedAssumption, RwInv
  PROVE  Rw!Exclusion /\ Rw!WritersCounted /\ Rw!NoLostWakeup
<1>1. Rw!Exclusion
  <2>1. ASSUME NEW t \in RwThreads, rw_pc[t] \in {"writing", "c_sleep"}, NEW u \in RwThreads
        PROVE  rw_pc[u] # "reading" /\ (rw_pc[t] = "writing" /\ rw_pc[u] = "writing" => u = t)
    <3>1. ~is_reader[u]
      BY <2>1, Zenon DEF RwInv, RwAll, RwFlag, Through, Registered
    <3> QED  BY <2>1, <3>1 DEF RwInv, RwAll, RwPlace
  <2> QED  BY <2>1, Zenon DEF Rw!Exclusion
<1>2. Rw!WritersCounted
  <2>1. Writing = {t \in RwThreads : rw_pc[t] \in Rw!WriterPcs}
    BY DEF Writing
  <2>2. writers = Rw!Cardinality(Writing)
    BY RwCardinality DEF RwInv, RwCounted
  <2>3. writer => writers > 0
    BY RwCounts DEF RwInv, RwCounted
  <2> QED  BY <2>1, <2>2, <2>3, Zenon DEF Rw!WritersCounted
<1>3. Rw!NoLostWakeup
  <2>1. ASSUME NEW t \in RwThreads
        PROVE  /\ rw_pc[t] = "w_sleep" => writer /\ readers > 0
               /\ rw_pc[t] = "r_sleep" => writer
    <3>1. rw_pc[t] = "w_sleep" => writer /\ Registered # {}
      BY DEF RwInv, RwAll, RwFlag, RwSleeper, Rw!WriterPcs
    <3>2. rw_pc[t] = "r_sleep" => writer
      BY Zenon DEF RwInv, RwAll, RwSleeper
    <3> QED  BY <3>1, <3>2, RwCounts
  <2>2. ASSUME writer, mutex = NoThread, NEW t \in RwThreads, is_reader[t]
        PROVE  reading_now[t] \/ rw_pc[t] \in {"u_check", "u_stop"}
    BY <2>2 DEF RwInv, RwAll, RwFlag, RwPlace
  <2> QED  BY <2>1, <2>2, Zenon DEF Rw!NoLostWakeup, Rw!MutexFree
<1> QED  BY <1>1, <1>2, <1>3, Zenon

-----------------------------------------------------------------------------
(* The parts side by side *)

(* A step of the whole is a step of one part at most. *)
LEMMA CountsSteps ==
  ASSUME [CountsNext]_countsVars
  PROVE  [Rw!Next]_rwVars /\ [Ref!Next]_refVars
  BY DEF CountsNext, countsVars, RwMoves, RefMoves

(* oo_rwlock: no reading and no second writing while a thread writes, no   *)
(* reading while a writer waits for its condition, an exact count of the   *)
(* writers, and nobody asleep unless somebody is left to wake it, for any  *)
(* number of threads.                                                      *)
THEOREM ReadWrite == CountsSpec => []ReadersAndWriters
<1>1. CountsInit => RwInv
  BY RwStarts, CountedAssumption DEF CountsInit
<1>2. RwInv /\ [CountsNext]_countsVars => RwInv'
  BY CountsSteps, RwStep, CountedAssumption, Zenon
<1>3. RwInv => ReadersAndWriters
  BY RwKeeps, CountedAssumption, Zenon DEF ReadersAndWriters
<1> QED  BY <1>1, <1>2, <1>3, PTL DEF CountsSpec

(* oo_thr_ref_get and oo_thr_ref_drop keep the counts in order, within     *)
(* their limit, and release each level once and after those above it, for  *)
(* any number of holders and any limit.                                    *)
THEOREM References == CountsSpec => []ReferencesOrdered
<1>1. CountsInit => RefInv
  BY RefStarts, CountedAssumption, Zenon DEF CountsInit
<1>2. RefInv /\ [CountsNext]_countsVars => RefInv'
  BY CountsSteps, RefStep, CountedAssumption, Zenon
<1>3. RefInv => ReferencesOrdered
  BY RefsInOrder, CountedAssumption DEF ReferencesOrdered
<1> QED  BY <1>1, <1>2, <1>3, PTL DEF CountsSpec
=============================================================================
