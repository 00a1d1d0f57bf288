-------------------------- MODULE OnloadWordsProofs -------------------------
(***************************************************************************)
(* Proofs about the lock words of Onload and the versions of the tables of *)
(* its control plane, for any number of threads and clients, all flags,    *)
(* tables of any size and any number of versions.  Each part has its own   *)
(* inductive invariant; a step of another part leaves it alone.            *)
(***************************************************************************)
EXTENDS OnloadWords, TLAPS

-----------------------------------------------------------------------------
(* The tables that clients look things up in *)

(* The two copies of a table, or of a row, take turns. *)
LEMMA Parity ==
  \A n \in Nat : n % 2 \in 0 .. 1 /\ (n + 1) % 2 \in 0 .. 1 /\ (n + 1) % 2 # n % 2
  OBVIOUS

(* The copy in use *)
Current == mib[cp_version % 2]

(* Rows before the one a scan has come to: in use, and not what is looked  *)
(* for.                                                                    *)
Scanned(m) ==
  /\ cp_op = "find_ipif_by_ip" => \A q \in 1 .. id - 1 :
       m.ipif[q].ifindex # 0 /\ ~(m.ipif[q].ip = arg /\ m.ipif[q].ifindex \in CpWanted)
  /\ cp_op = "ifindex_to_ip" => \A q \in 1 .. id - 1 :
       m.ipif[q].ifindex # 0 /\ m.ipif[q].ifindex # arg
  /\ cp_op = "hwport_vlan_to_ifindex" => \A q \in 1 .. id - 1 :
       m.llap[q].ifindex # 0 /\ m.llap[q].port # arg
  /\ cp_op = "find_llap_by_ip" => \A q \in 1 .. id - 1 :
       /\ m.ipif[q].ifindex # 0
       /\ \A l \in Cp!Used(m.llap) :
            ~(m.ipif[q].ip = arg /\ m.ipif[q].ifindex = m.llap[l].ifindex
              /\ m.llap[l].ifindex \in CpWanted)
LlapScanned(m) == \A l \in 1 .. lid - 1 : m.llap[l].ifindex # 0 /\ m.llap[l].ifindex # ifindex

(* The row that a lookup has found to match *)
Matched(m) ==
  /\ cp_op = "hwport_vlan_to_ifindex" => m.llap[id].port = arg
  /\ cp_op = "ifindex_to_ip" => m.ipif[id].ifindex = arg
  /\ cp_op \in {"find_ipif_by_ip", "find_llap_by_ip"} =>
       m.ipif[id].ip = arg /\ m.ipif[id].ifindex # 0

CpPlaces ==
  /\ cp_version \in Nat /\ ver \in Nat /\ ver <= cp_version
  /\ mib = [c \in 0 .. 1 |-> mib[c]]
  /\ cp_op \in Cp!Ops /\ arg \in Cp!Args(cp_op)
  /\ id \in 1 .. Rows + 1 /\ lid \in 1 .. Rows + 1
  /\ cp_pc \in {"match", "use"} => cp_op # "find_llap"
  /\ cp_pc = "use" => id <= Rows
  /\ cp_pc = "llap" => cp_op \in {"find_llap", "find_llap_by_ip"}
  /\ cp_pc = "llap" /\ cp_op = "find_llap_by_ip" => id <= Rows

(* While the version is the one read at the start, the scan tells of the   *)
(* copy in use, and its end is the answer.                                 *)
CpScan ==
  ver = cp_version =>
    /\ cp_pc \in {"match", "use", "llap"} =>
         Scanned(Current) /\ found = IF cp_op = "find_llap" THEN Cp!ENOENT ELSE 0
    /\ cp_pc = "use" => Matched(Current)
    /\ cp_pc = "llap" =>
         /\ LlapScanned(Current) /\ ifindex # 0
         /\ cp_op = "find_llap" => ifindex = arg
         /\ cp_op = "find_llap_by_ip" => Matched(Current) /\ ifindex = Current.ipif[id].ifindex
    /\ cp_pc = "stop" => found = Cp!Answer(cp_op, arg, Current)

(* What the scan has found is what will be returned, unless the lookup has *)
(* started again: rc keeps what an abandoned scan has put there.           *)
NothingFound == IF cp_op = "find_llap" THEN Cp!ENOENT ELSE 0
LeftOver == retried /\ IF cp_op = "find_llap" THEN rc = Cp!ENOENT ELSE found = 0
CpResult ==
  /\ cp_pc \in {"start", "match", "use", "llap"} /\ ~retried => rc = 0
  /\ cp_pc \in {"match", "use", "llap"} => found = NothingFound
  /\ cp_pc = "stop" => Cp!Returned = found \/ LeftOver

CpInv == CpPlaces /\ CpScan

(* The rows in use are those before the first free one. *)
LEMMA UsedRows ==
  ASSUME Rows \in Nat, NEW T, NEW n \in 1 .. Rows + 1,
         \A q \in 1 .. n - 1 : T[q].ifindex # 0
  PROVE  /\ \A q \in 1 .. n - 1 : q \in Cp!Used(T)
         /\ Cp!Used(T) \subseteq 1 .. Rows
         /\ n <= Rows /\ T[n].ifindex # 0 => n \in Cp!Used(T)
         /\ n > Rows \/ T[n].ifindex = 0 => Cp!Used(T) = 1 .. n - 1
         /\ \A q \in Cp!Used(T) : T[q].ifindex # 0
<1>1. \A q \in 1 .. n - 1 : q \in Cp!Used(T)
  BY DEF Cp!Used, Cp!None
<1>2. Cp!Used(T) \subseteq 1 .. Rows /\ \A q \in Cp!Used(T) : T[q].ifindex # 0
  BY DEF Cp!Used, Cp!None
<1>3. n <= Rows /\ T[n].ifindex # 0 => n \in Cp!Used(T)
  BY DEF Cp!Used, Cp!None
<1>4. ASSUME n > Rows \/ T[n].ifindex = 0, NEW q \in Cp!Used(T) PROVE q \in 1 .. n - 1
  BY <1>4 DEF Cp!Used, Cp!None
<1> QED  BY <1>1, <1>2, <1>3, <1>4, Zenon

(* The first of a set of rows *)
LEMMA FirstRow ==
  ASSUME NEW S \in SUBSET Int, NEW n \in S, \A q \in S : n <= q
  PROVE  Cp!First(S) = n
<1>1. Cp!First(S) \in S /\ \A q \in S : Cp!First(S) <= q
  BY Zenon DEF Cp!First
<1>2. PICK r \in S : r = Cp!First(S)
  BY <1>1, Zenon
<1>3. r <= n /\ n <= r /\ r \in Int /\ n \in Int
  BY <1>1, <1>2
<1> QED  BY <1>2, <1>3

(* What the lookups that ask for a check of the row answer *)
LEMMA AnswerIpif ==
  ASSUME NEW a, NEW m
  PROVE  Cp!Answer("find_ipif_by_ip", a, m) =
           IF \E r \in Cp!Used(m.ipif) : m.ipif[r].ip = a /\ m.ipif[r].ifindex \in CpWanted
           THEN 1 ELSE 0
  BY DEF Cp!Answer

LEMMA AnswerLlapByIp ==
  ASSUME NEW a, NEW m
  PROVE  Cp!Answer("find_llap_by_ip", a, m) =
           IF \E r \in Cp!Used(m.ipif), l \in Cp!Used(m.llap) :
                /\ m.ipif[r].ip = a /\ m.ipif[r].ifindex = m.llap[l].ifindex
                /\ m.llap[l].ifindex \in CpWanted
           THEN 1 ELSE 0
  BY DEF Cp!Answer

(* What the lookups of a field answer: that of the first row, or that      *)
(* there is none.                                                          *)
LEMMA AnswerNone ==
  ASSUME NEW a, NEW m
  PROVE  /\ (\A l \in Cp!Used(m.llap) : m.llap[l].ifindex # a) =>
              Cp!Answer("find_llap", a, m) = Cp!ENOENT
         /\ (\A r \in Cp!Used(m.ipif) : m.ipif[r].ifindex # a) =>
              Cp!Answer("ifindex_to_ip", a, m) = 0
         /\ (\A l \in Cp!Used(m.llap) : m.llap[l].port # a) =>
              Cp!Answer("hwport_vlan_to_ifindex", a, m) = 0
<1>1. ASSUME \A l \in Cp!Used(m.llap) : m.llap[l].ifindex # a
      PROVE  Cp!Answer("find_llap", a, m) = Cp!ENOENT
  BY <1>1 DEF Cp!Answer, Cp!ValueAt
<1>2. ASSUME \A r \in Cp!Used(m.ipif) : m.ipif[r].ifindex # a
      PROVE  Cp!Answer("ifindex_to_ip", a, m) = 0
  BY <1>2 DEF Cp!Answer, Cp!ValueAt, Cp!None
<1>3. ASSUME \A l \in Cp!Used(m.llap) : m.llap[l].port # a
      PROVE  Cp!Answer("hwport_vlan_to_ifindex", a, m) = 0
  BY <1>3 DEF Cp!Answer, Cp!ValueAt, Cp!None
<1> QED  BY <1>1, <1>2, <1>3

LEMMA AnswerLlap ==
  ASSUME NEW a, NEW m, NEW n \in Cp!Used(m.llap), m.llap[n].ifindex = a,
         \A q \in Cp!Used(m.llap) : m.llap[q].ifindex = a => n <= q
  PROVE  Cp!Answer("find_llap", a, m) = m.llap[n].port
<1> DEFINE S == {l \in Cp!Used(m.llap) : m.llap[l].ifindex = a}
<1>1. S \in SUBSET Int /\ n \in S /\ \A q \in S : n <= q
  BY DEF Cp!Used
<1>2. Cp!First(S) = n
  <2> HIDE DEF S
  <2> QED  BY <1>1, FirstRow
<1> QED  BY <1>1, <1>2, Zenon DEF Cp!Answer, Cp!ValueAt

LEMMA AnswerIp ==
  ASSUME NEW a, NEW m, NEW n \in Cp!Used(m.ipif), m.ipif[n].ifindex = a,
         \A q \in Cp!Used(m.ipif) : m.ipif[q].ifindex = a => n <= q
  PROVE  Cp!Answer("ifindex_to_ip", a, m) = m.ipif[n].ip
<1> DEFINE S == {r \in Cp!Used(m.ipif) : m.ipif[r].ifindex = a}
<1>1. S \in SUBSET Int /\ n \in S /\ \A q \in S : n <= q
  BY DEF Cp!Used
<1>2. Cp!First(S) = n
  <2> HIDE DEF S
  <2> QED  BY <1>1, FirstRow
<1> QED  BY <1>1, <1>2, Zenon DEF Cp!Answer, Cp!ValueAt

LEMMA AnswerPort ==
  ASSUME NEW a, NEW m, NEW n \in Cp!Used(m.llap), m.llap[n].port = a,
         \A q \in Cp!Used(m.llap) : m.llap[q].port = a => n <= q
  PROVE  Cp!Answer("hwport_vlan_to_ifindex", a, m) = m.llap[n].ifindex
<1> DEFINE S == {l \in Cp!Used(m.llap) : m.llap[l].port = a}
<1>1. S \in SUBSET Int /\ n \in S /\ \A q \in S : n <= q
  BY DEF Cp!Used
<1>2. Cp!First(S) = n
  <2> HIDE DEF S
  <2> QED  BY <1>1, FirstRow
<1> QED  BY <1>1, <1>2, Zenon DEF Cp!Answer, Cp!ValueAt

(* The server writes the copy that is not in use; an update makes the      *)
(* version read at the start an old one.                                   *)
LEMMA CpServerStep ==
  ASSUME CpInv, Cp!Write \/ Cp!Publish
  PROVE  CpInv'
<1>p. cp_version % 2 \in 0 .. 1 /\ (cp_version + 1) % 2 # cp_version % 2
  BY Parity DEF CpInv, CpPlaces
<1>d. mib = [c \in 0 .. 1 |-> mib[c]]
  BY DEF CpInv, CpPlaces
<1>1. CASE Cp!Write
  <2>1. UNCHANGED <<cp_version, cp_pc, cp_op, arg, ver, id, lid, ifindex, found>>
    BY <1>1, Zenon DEF Cp!Write
  <2>2. mib' = [c \in 0 .. 1 |-> mib'[c]] /\ Current' = Current
    <3>1. PICK r \in 1 .. Rows :
            \/ \E x \in CpIps \cup {0} : mib' = [mib EXCEPT ![(cp_version + 1) % 2].ipif[r].ip = x]
            \/ \E x \in CpIfs \cup {0} : mib' = [mib EXCEPT ![(cp_version + 1) % 2].ipif[r].ifindex = x]
            \/ \E x \in CpPorts \cup {0} : mib' = [mib EXCEPT ![(cp_version + 1) % 2].llap[r].port = x]
            \/ \E x \in CpIfs \cup {0} : mib' = [mib EXCEPT ![(cp_version + 1) % 2].llap[r].ifindex = x]
      BY <1>1, Zenon DEF Cp!Write, Cp!None
    <3>2. \E w : mib' = [mib EXCEPT ![(cp_version + 1) % 2] = w]
      BY <3>1, Zenon
    <3> QED  BY <3>2, <2>1, <1>p, <1>d, Zenon DEF Current
  <2>3. CpPlaces'
    BY <2>1, <2>2, Zenon DEF CpInv, CpPlaces
  <2>4. CpScan'
    BY <2>1, <2>2 DEF CpInv, CpScan, Scanned, LlapScanned, Matched
  <2> QED  BY <2>3, <2>4 DEF CpInv
<1>2. CASE Cp!Publish
  <2>1. /\ UNCHANGED <<mib, cp_pc, cp_op, arg, ver, id, lid, ifindex, found>>
        /\ cp_version' = cp_version + 1
    BY <1>2 DEF Cp!Publish
  <2>2. CpPlaces' /\ ver' # cp_version'
    BY <2>1 DEF CpInv, CpPlaces
  <2> QED  BY <2>2 DEF CpInv, CpScan
<1> QED  BY <1>1, <1>2

(* A lookup is called, and starts: it has scanned nothing. *)
LEMMA CpBegin ==
  ASSUME Rows \in Nat, 0 \notin CpIfs, CpInv,
         Cp!VerlockStart \/ \E o \in Cp!Ops : \E a \in Cp!Args(o) : Cp!Call(o, a)
  PROVE  CpInv'
<1>1. CASE Cp!VerlockStart
  <2>1. /\ cp_pc' = IF cp_op = "find_llap" THEN "llap" ELSE "match"
        /\ UNCHANGED <<cp_version, mib, cp_op, arg>>
        /\ ver' = cp_version /\ id' = 1 /\ lid' = 1 /\ ifindex' = arg
        /\ found' = IF cp_op = "find_llap" THEN Cp!ENOENT ELSE 0
    BY <1>1 DEF Cp!VerlockStart, Cp!Goto, Cp!server
  <2>2. CpPlaces'
    BY <2>1 DEF CpInv, CpPlaces
  <2>3. Scanned(Current)' /\ LlapScanned(Current)'
    BY <2>1 DEF Scanned, LlapScanned
  <2>4. cp_op = "find_llap" => arg # 0
    BY DEF CpInv, CpPlaces, Cp!Args
  <2>5. CpScan'
    BY <2>1, <2>3, <2>4 DEF CpScan
  <2> QED  BY <2>2, <2>5 DEF CpInv
<1>2. ASSUME NEW o \in Cp!Ops, NEW a \in Cp!Args(o), Cp!Call(o, a) PROVE CpInv'
  <2>1. /\ cp_pc' = "start" /\ cp_op' = o /\ arg' = a
        /\ UNCHANGED <<cp_version, mib, ver, id, lid>>
    BY <1>2 DEF Cp!Call, Cp!Goto, Cp!server
  <2>2. CpPlaces'
    BY <2>1 DEF CpInv, CpPlaces
  <2> QED  BY <2>1, <2>2 DEF CpInv, CpScan
<1> QED  BY <1>1, <1>2

(* A scan that comes to the end of its table, or to a free row, with no    *)
(* match: the answer is that there is none.                                *)
LEMMA ScanEnds ==
  ASSUME Rows \in Nat, CpPlaces, cp_op # "find_llap", NEW m, Scanned(m),
         \/ id > Rows
         \/ cp_op = "hwport_vlan_to_ifindex" /\ m.llap[id].ifindex = 0
         \/ cp_op # "hwport_vlan_to_ifindex" /\ m.ipif[id].ifindex = 0
  PROVE  Cp!Answer(cp_op, arg, m) = 0
<1>t. id \in 1 .. Rows + 1 /\ cp_op \in Cp!Ops
  BY DEF CpPlaces
<1>1. CASE cp_op = "hwport_vlan_to_ifindex"
  <2>1. PICK T : T = m.llap
    OBVIOUS
  <2>2. \A q \in 1 .. id - 1 : T[q].ifindex # 0
    BY <1>1, <2>1 DEF Scanned
  <2>3. id > Rows \/ T[id].ifindex = 0
    BY <1>1, <2>1
  <2>4. Cp!Used(T) = 1 .. id - 1
    BY <1>t, <2>2, <2>3, UsedRows
  <2>5. \A l \in Cp!Used(m.llap) : m.llap[l].port # arg
    BY <1>1, <2>1, <2>4 DEF Scanned
  <2> QED  BY <1>1, <2>5, AnswerNone
<1>2. CASE cp_op # "hwport_vlan_to_ifindex"
  <2>1. PICK T : T = m.ipif
    OBVIOUS
  <2>2. \A q \in 1 .. id - 1 : T[q].ifindex # 0
    BY <1>2, <1>t, <2>1 DEF Scanned, Cp!Ops
  <2>3. id > Rows \/ T[id].ifindex = 0
    BY <1>2, <2>1
  <2>4. Cp!Used(T) = 1 .. id - 1
    BY <1>t, <2>2, <2>3, UsedRows
  <2>5. Cp!Used(m.ipif) = 1 .. id - 1
    BY <2>1, <2>4
  <2>6. CASE cp_op = "find_ipif_by_ip"
    BY <2>5, <2>6, AnswerIpif, Zenon DEF Scanned
  <2>7. CASE cp_op = "find_llap_by_ip"
    <3>1. ~ \E r \in Cp!Used(m.ipif), l \in Cp!Used(m.llap) :
              /\ m.ipif[r].ip = arg /\ m.ipif[r].ifindex = m.llap[l].ifindex
              /\ m.llap[l].ifindex \in CpWanted
      BY <2>5, <2>7 DEF Scanned
    <3> QED  BY <2>7, <3>1, AnswerLlapByIp
  <2>8. CASE cp_op = "ifindex_to_ip"
    <3>1. \A r \in Cp!Used(m.ipif) : m.ipif[r].ifindex # arg
      BY <2>5, <2>8 DEF Scanned
    <3> QED  BY <2>8, <3>1, AnswerNone
  <2> QED  BY <1>2, <1>t, <2>6, <2>7, <2>8 DEF Cp!Ops
<1> QED  BY <1>1, <1>2

(* The scan goes on, finds a row that matches, or ends. *)
LEMMA CpMatch ==
  ASSUME Rows \in Nat, CpInv, Cp!Match
  PROVE  CpInv'
<1>t. /\ id \in 1 .. Rows + 1 /\ cp_op \in Cp!Ops /\ cp_pc = "match" /\ cp_op # "find_llap"
      /\ UNCHANGED <<cp_version, mib, cp_op, arg, ver, lid, ifindex, found>>
      /\ Current' = Current
  BY DEF CpInv, CpPlaces, Cp!Match, Cp!server, Current
<1>m. ver = cp_version => Cp!M = Current
  BY DEF Cp!M, Current
<1>1. CASE /\ cp_pc' = "stop" /\ id' = id
           /\ \/ id > Rows
              \/ cp_op = "hwport_vlan_to_ifindex" /\ Cp!M.llap[id].ifindex = 0
              \/ cp_op # "hwport_vlan_to_ifindex" /\ Cp!M.ipif[id].ifindex = 0
  <2>1. CpPlaces'
    BY <1>1, <1>t DEF CpInv, CpPlaces
  <2>2. ver = cp_version => Cp!Answer(cp_op, arg, Current) = 0 /\ found = 0
    BY <1>1, <1>t, <1>m, ScanEnds DEF CpInv, CpScan
  <2>3. CpScan'
    BY <1>1, <1>t, <2>2 DEF CpScan
  <2> QED  BY <2>1, <2>3 DEF CpInv
<1>2. CASE /\ cp_pc' = "use" /\ id' = id /\ id <= Rows
           /\ Matched(Cp!M)
  <2>1. CpPlaces'
    BY <1>2, <1>t DEF CpInv, CpPlaces
  <2>2. ver = cp_version => Scanned(Current)' /\ Matched(Current)' /\ found = 0
    BY <1>2, <1>t, <1>m, Zenon DEF CpInv, CpScan, Scanned, Matched
  <2>3. CpScan'
    BY <1>2, <1>t, <2>2 DEF CpScan
  <2> QED  BY <2>1, <2>3 DEF CpInv
<1>3. CASE /\ cp_pc' = "match" /\ id' = id + 1 /\ id <= Rows
           /\ cp_op = "hwport_vlan_to_ifindex" =>
                Cp!M.llap[id].ifindex # 0 /\ Cp!M.llap[id].port # arg
           /\ cp_op = "ifindex_to_ip" =>
                Cp!M.ipif[id].ifindex # 0 /\ Cp!M.ipif[id].ifindex # arg
           /\ cp_op \in {"find_ipif_by_ip", "find_llap_by_ip"} =>
                Cp!M.ipif[id].ifindex # 0 /\ Cp!M.ipif[id].ip # arg
  <2>1. CpPlaces'
    BY <1>3, <1>t DEF CpInv, CpPlaces
  <2>2. \A q \in 1 .. id' - 1 : q \in 1 .. id - 1 \/ q = id
    <3>1. id' = id + 1 /\ id \in 1 .. Rows + 1
      BY <1>3, <1>t, Zenon
    <3> QED  BY <3>1
  <2>3. ver = cp_version => Scanned(Current)' /\ found = 0
    BY <1>3, <1>t, <1>m, <2>2, Zenon DEF CpInv, CpScan, Scanned
  <2>4. CpScan'
    BY <1>3, <1>t, <2>3 DEF CpScan
  <2> QED  BY <2>1, <2>4 DEF CpInv
<1>4. CASE cp_op = "hwport_vlan_to_ifindex"
  BY <1>1, <1>2, <1>3, <1>4, <1>t DEF Cp!Match, Cp!Goto, Cp!None, Matched
<1>5. CASE cp_op = "ifindex_to_ip"
  BY <1>1, <1>2, <1>3, <1>5, <1>t DEF Cp!Match, Cp!Goto, Cp!None, Matched
<1>6. CASE cp_op \in {"find_ipif_by_ip", "find_llap_by_ip"}
  BY <1>1, <1>2, <1>3, <1>6, <1>t DEF Cp!Match, Cp!Goto, Cp!None, Matched
<1> QED  BY <1>4, <1>5, <1>6, <1>t DEF Cp!Ops

(* What a lookup does with the row: the answer, the next row, or the llap  *)
(* row of its interface.                                                   *)
LEMMA CpUse ==
  ASSUME Rows \in Nat, 0 \notin CpIfs, CpInv, Cp!Use
  PROVE  CpInv'
<1>t. /\ id \in 1 .. Rows /\ cp_pc = "use" /\ cp_op # "find_llap" /\ lid \in 1 .. Rows + 1
      /\ UNCHANGED <<cp_version, mib, cp_op, arg, ver>>
      /\ Current' = Current
  BY DEF CpInv, CpPlaces, Cp!Use, Cp!server, Current
<1>m. ver = cp_version => Cp!M = Current /\ Scanned(Current) /\ Matched(Current) /\ found = 0
  BY <1>t DEF Cp!M, Current, CpInv, CpScan
<1>1. CASE cp_op = "find_ipif_by_ip" /\ cp_pc' = "match"
  <2>1. id' = id + 1 /\ found' = found /\ lid' = lid /\ Cp!M.ipif[id].ifindex \notin CpWanted
    BY <1>1, <1>t DEF Cp!Use, Cp!FindIpifByIp, Cp!Return1, Cp!NextRow, Cp!Goto
  <2>2. CpPlaces'
    BY <1>1, <1>t, <2>1 DEF CpInv, CpPlaces
  <2>3. \A q \in 1 .. id' - 1 : q \in 1 .. id - 1 \/ q = id
    BY <2>1, <1>t
  <2>4. ver = cp_version => Scanned(Current)'
    BY <1>1, <1>t, <1>m, <2>1, <2>3, Zenon DEF Scanned, Matched
  <2>5. CpScan'
    BY <1>1, <1>t, <1>m, <2>1, <2>4, Zenon DEF CpScan
  <2> QED  BY <2>2, <2>5 DEF CpInv
<1>2. CASE cp_pc' = "stop"
  <2>1. id' = id /\ lid' = lid
    BY <1>2, <1>t DEF Cp!Use, Cp!FindIpifByIp, Cp!IfindexToIp, Cp!HwportVlanToIfindex,
                      Cp!Return1, Cp!NextRow, Cp!Goto
  <2>2. CpPlaces'
    BY <1>2, <1>t, <2>1 DEF CpInv, CpPlaces
  <2>3. ASSUME ver = cp_version PROVE found' = Cp!Answer(cp_op, arg, Current)
    <3>1. CASE cp_op = "find_ipif_by_ip"
      <4>1. found' = 1 /\ Current.ipif[id].ifindex \in CpWanted
        BY <1>2, <1>t, <1>m, <2>3, <3>1 DEF Cp!Use, Cp!FindIpifByIp, Cp!Return1, Cp!NextRow, Cp!Goto
      <4>2. id \in Cp!Used(Current.ipif)
        BY <1>t, <1>m, <2>3, <3>1 DEF Scanned, Matched, Cp!Used, Cp!None
      <4> QED  BY <1>m, <2>3, <3>1, <4>1, <4>2, AnswerIpif DEF Matched
    <3>2. CASE cp_op = "ifindex_to_ip"
      <4>1. found' = Current.ipif[id].ip /\ arg # 0
        BY <1>t, <1>m, <2>3, <3>2 DEF Cp!Use, Cp!IfindexToIp, Cp!Return1, CpInv, CpPlaces, Cp!Args
      <4>2. id \in Cp!Used(Current.ipif) /\ Current.ipif[id].ifindex = arg
        BY <1>t, <1>m, <2>3, <3>2, <4>1 DEF Scanned, Matched, Cp!Used, Cp!None
      <4>3. \A q \in Cp!Used(Current.ipif) : Current.ipif[q].ifindex = arg => id <= q
        BY <1>t, <1>m, <2>3, <3>2 DEF Scanned, Cp!Used
      <4> QED  BY <3>2, <4>1, <4>2, <4>3, AnswerIp
    <3>3. CASE cp_op = "hwport_vlan_to_ifindex"
      <4>1. found' = Current.llap[id].ifindex /\ Current.llap[id].port = arg
        BY <1>t, <1>m, <2>3, <3>3 DEF Cp!Use, Cp!HwportVlanToIfindex, Cp!Return1, Matched
      <4>2. CASE Current.llap[id].ifindex = 0
        BY <1>m, <2>3, <3>3, <4>1, <4>2, ScanEnds DEF CpInv
      <4>3. CASE Current.llap[id].ifindex # 0
        <5>1. id \in Cp!Used(Current.llap)
          BY <1>t, <1>m, <2>3, <3>3, <4>3 DEF Scanned, Cp!Used, Cp!None
        <5>2. \A q \in Cp!Used(Current.llap) : Current.llap[q].port = arg => id <= q
          BY <1>t, <1>m, <2>3, <3>3 DEF Scanned, Cp!Used
        <5> QED  BY <3>3, <4>1, <5>1, <5>2, AnswerPort
      <4> QED  BY <4>2, <4>3
    <3> QED  BY <1>2, <1>t, <3>1, <3>2, <3>3 DEF Cp!Use, Cp!Goto
  <2>4. CpScan'
    BY <1>2, <1>t, <2>3 DEF CpScan
  <2> QED  BY <2>2, <2>4 DEF CpInv
<1>3. CASE cp_op = "find_llap_by_ip"
  <2>1. /\ lid' = 1 /\ ifindex' = Cp!M.ipif[id].ifindex /\ cp_pc' = "llap"
        /\ UNCHANGED <<id, found>>
    BY <1>3 DEF Cp!Use, Cp!Goto
  <2>2. CpPlaces'
    BY <1>3, <1>t, <2>1 DEF CpInv, CpPlaces
  <2>3. ver = cp_version =>
          /\ Scanned(Current)' /\ Matched(Current)' /\ LlapScanned(Current)'
          /\ ifindex' # 0 /\ ifindex' = Current.ipif[id].ifindex /\ found' = 0
    <3>1. lid' = 1
      BY <2>1
    <3>2. LlapScanned(Current)'
      BY <3>1 DEF LlapScanned
    <3>3. ver = cp_version => Scanned(Current)' /\ Matched(Current)' /\ found' = 0
      BY <1>t, <1>m, <2>1, Zenon DEF Scanned, Matched
    <3>4. ver = cp_version => ifindex' # 0 /\ ifindex' = Current.ipif[id].ifindex
      BY <1>3, <1>m, <2>1, Zenon DEF Matched
    <3> QED  BY <3>2, <3>3, <3>4
  <2>4. CpScan'
    BY <1>3, <1>t, <2>1, <2>3, Zenon DEF CpScan
  <2> QED  BY <2>2, <2>4 DEF CpInv
<1> QED
  BY <1>1, <1>2, <1>3 DEF Cp!Use, Cp!FindIpifByIp, Cp!IfindexToIp, Cp!HwportVlanToIfindex,
                          Cp!Return1, Cp!NextRow, Cp!Goto

(* A round of cp_llap_find_row, and what its callers do with the row *)
LEMMA CpLlap ==
  ASSUME Rows \in Nat, 0 \notin CpIfs, CpInv, Cp!LlapFindRow
  PROVE  CpInv'
<1>t. /\ id \in 1 .. Rows + 1 /\ lid \in 1 .. Rows + 1 /\ cp_pc = "llap"
      /\ cp_op = "find_llap_by_ip" => id <= Rows
      /\ cp_op \in {"find_llap", "find_llap_by_ip"}
      /\ UNCHANGED <<cp_version, mib, cp_op, arg, ver, ifindex>>
      /\ Current' = Current
  BY DEF CpInv, CpPlaces, Cp!LlapFindRow, Cp!server, Current
<1>m. ver = cp_version =>
        /\ Cp!M = Current /\ Scanned(Current) /\ LlapScanned(Current) /\ ifindex # 0
        /\ found = IF cp_op = "find_llap" THEN Cp!ENOENT ELSE 0
        /\ cp_op = "find_llap" => ifindex = arg
        /\ cp_op = "find_llap_by_ip" => Matched(Current) /\ ifindex = Current.ipif[id].ifindex
  BY <1>t, Zenon DEF Cp!M, Current, CpInv, CpScan
<1> DEFINE NotIn == lid > Rows \/ Cp!M.llap[lid].ifindex = 0
           Here == lid <= Rows /\ Cp!M.llap[lid].ifindex = ifindex
(* The interface has no row among those in use, or the first is here. *)
<1>n. ASSUME ver = cp_version, NotIn
      PROVE  \A l \in Cp!Used(Current.llap) : Current.llap[l].ifindex # ifindex
  <2>1. PICK T : T = Current.llap
    OBVIOUS
  <2>2. \A q \in 1 .. lid - 1 : T[q].ifindex # 0
    BY <1>n, <1>m, <2>1 DEF LlapScanned
  <2>3. lid > Rows \/ T[lid].ifindex = 0
    BY <1>n, <1>m, <2>1
  <2>4. Cp!Used(T) = 1 .. lid - 1
    BY <1>t, <2>2, <2>3, UsedRows
  <2> QED  BY <1>n, <1>m, <2>1, <2>4 DEF LlapScanned
<1>h. ASSUME ver = cp_version, Here
      PROVE  /\ lid \in Cp!Used(Current.llap) /\ Current.llap[lid].ifindex = ifindex
             /\ \A q \in Cp!Used(Current.llap) : Current.llap[q].ifindex = ifindex => lid <= q
  <2>1. lid \in Cp!Used(Current.llap)
    BY <1>t, <1>m, <1>h DEF LlapScanned, Cp!Used, Cp!None
  <2>2. \A q \in Cp!Used(Current.llap) : Current.llap[q].ifindex = ifindex => lid <= q
    BY <1>t, <1>m, <1>h DEF LlapScanned, Cp!Used
  <2> QED  BY <1>m, <1>h, <2>1, <2>2
<1>1. CASE /\ lid' = lid + 1 /\ lid <= Rows /\ UNCHANGED <<cp_pc, id, found>>
           /\ Cp!M.llap[lid].ifindex # 0 /\ Cp!M.llap[lid].ifindex # ifindex
  <2>1. CpPlaces'
    BY <1>1, <1>t DEF CpInv, CpPlaces
  <2>2. \A q \in 1 .. lid' - 1 : q \in 1 .. lid - 1 \/ q = lid
    BY <1>1, <1>t
  <2>3. ver = cp_version => LlapScanned(Current)' /\ Scanned(Current)' /\ Matched(Current)' = Matched(Current)
    BY <1>1, <1>t, <1>m, <2>2, Zenon DEF LlapScanned, Scanned, Matched
  <2>4. CpScan'
    BY <1>1, <1>t, <1>m, <2>3, Zenon DEF CpScan
  <2> QED  BY <2>1, <2>4 DEF CpInv
<1>2. CASE /\ cp_op = "find_llap" /\ cp_pc' = "stop" /\ UNCHANGED <<id, lid>>
           /\ \/ NotIn /\ found' = found
              \/ Here /\ found' = Cp!M.llap[lid].port
  <2>1. CpPlaces'
    BY <1>2, <1>t DEF CpInv, CpPlaces
  <2>2. ASSUME ver = cp_version PROVE found' = Cp!Answer(cp_op, arg, Current)
    <3>1. CASE NotIn /\ found' = found
      BY <1>2, <1>m, <1>n, <2>2, <3>1, AnswerNone
    <3>2. CASE Here /\ found' = Cp!M.llap[lid].port
      <4>1. PICK m, a, l : m = Current /\ a = arg /\ l = lid
        OBVIOUS
      <4>2. /\ l \in Cp!Used(m.llap) /\ m.llap[l].ifindex = a /\ found' = m.llap[l].port
            /\ \A q \in Cp!Used(m.llap) : m.llap[q].ifindex = a => l <= q
        BY <1>2, <1>m, <1>h, <2>2, <3>2, <4>1, Zenon
      <4>3. Cp!Answer("find_llap", a, m) = m.llap[l].port
        BY <4>2, AnswerLlap
      <4> QED  BY <1>2, <4>1, <4>2, <4>3, Zenon
    <3> QED  BY <1>2, <3>1, <3>2, Zenon
  <2>3. CpScan'
    BY <1>2, <1>t, <2>2, Zenon DEF CpScan
  <2> QED  BY <2>1, <2>3 DEF CpInv
<1>3. CASE /\ cp_op = "find_llap_by_ip" /\ cp_pc' = "stop" /\ UNCHANGED <<id, lid>>
           /\ Here /\ Cp!M.llap[lid].ifindex \in CpWanted /\ found' = 1
  <2>1. CpPlaces'
    BY <1>3, <1>t, Zenon DEF CpInv, CpPlaces
  <2>2. ASSUME ver = cp_version PROVE found' = Cp!Answer(cp_op, arg, Current)
    <3>1. id \in Cp!Used(Current.ipif) /\ Current.ipif[id].ip = arg
      <4>1. \A q \in 1 .. id - 1 : Current.ipif[q].ifindex # 0
        BY <1>3, <1>m, <2>2, Zenon DEF Scanned
      <4>2. Current.ipif[id].ifindex # 0 /\ Current.ipif[id].ip = arg
        BY <1>3, <1>m, <2>2 DEF Matched
      <4> QED  BY <1>3, <1>t, <4>1, <4>2 DEF Cp!Used, Cp!None
    <3>2. \E r \in Cp!Used(Current.ipif), l \in Cp!Used(Current.llap) :
            /\ Current.ipif[r].ip = arg /\ Current.ipif[r].ifindex = Current.llap[l].ifindex
            /\ Current.llap[l].ifindex \in CpWanted
      BY <1>3, <1>m, <1>h, <2>2, <3>1, Zenon
    <3> QED  BY <1>3, <3>2, AnswerLlapByIp
  <2>3. CpScan'
    BY <1>3, <1>t, <2>2, Zenon DEF CpScan
  <2> QED  BY <2>1, <2>3 DEF CpInv
<1>4. CASE /\ cp_op = "find_llap_by_ip" /\ cp_pc' = "match" /\ id' = id + 1
           /\ UNCHANGED <<lid, found>>
           /\ \/ NotIn
              \/ Here /\ Cp!M.llap[lid].ifindex \notin CpWanted
  <2>1. CpPlaces'
    BY <1>4, <1>t DEF CpInv, CpPlaces
  <2>2. \A q \in 1 .. id' - 1 : q \in 1 .. id - 1 \/ q = id
    BY <1>4, <1>t
  <2>3. ASSUME ver = cp_version PROVE Scanned(Current)'
    <3>1. \A l \in Cp!Used(Current.llap) :
            ~(Current.ipif[id].ifindex = Current.llap[l].ifindex /\ Current.llap[l].ifindex \in CpWanted)
      BY <1>4, <1>m, <1>n, <1>h, <2>3, Zenon
    <3>2. \A q \in 1 .. id' - 1 :
            /\ Current.ipif[q].ifindex # 0
            /\ \A l \in Cp!Used(Current.llap) :
                 ~(Current.ipif[q].ip = arg /\ Current.ipif[q].ifindex = Current.llap[l].ifindex
                   /\ Current.llap[l].ifindex \in CpWanted)
      <4>1. Current.ipif[id].ifindex # 0
        BY <1>4, <1>m, <2>3, Zenon
      <4> QED  BY <1>4, <1>m, <2>2, <2>3, <3>1, <4>1, Zenon DEF Scanned
    <3> QED  BY <1>4, <1>t, <3>2, Zenon DEF Scanned
  <2>4. CpScan'
    BY <1>4, <1>t, <1>m, <2>3, Zenon DEF CpScan
  <2> QED  BY <2>1, <2>4 DEF CpInv
<1>5. CASE lid > Rows
  BY <1>2, <1>4, <1>5, <1>t, Zenon DEF Cp!LlapFindRow, Cp!FindLlap, Cp!FindLlapByIp, Cp!NextRow, Cp!Goto
<1>6. CASE lid <= Rows
  BY <1>1, <1>2, <1>3, <1>4, <1>6, <1>t, Zenon
     DEF Cp!LlapFindRow, Cp!FindLlap, Cp!FindLlapByIp, Cp!Return1, Cp!NextRow, Cp!Goto, Cp!None
<1> QED  BY <1>5, <1>6, <1>t

(* The lookup returns, or starts again. *)
LEMMA CpStop ==
  ASSUME Rows \in Nat, CpIfs # {}, CpInv, Cp!VerlockStop
  PROVE  CpInv'
<1>1. CASE ver = cp_version
  <2>1. /\ cp_pc' = "idle" /\ cp_op' = "ifindex_to_ip" /\ arg' = Cp!SomeIf
        /\ ver' = 0 /\ id' = 1 /\ lid' = 1 /\ UNCHANGED <<cp_version, mib>>
    BY <1>1 DEF Cp!VerlockStop, Cp!Return, Cp!Goto, Cp!server
  <2>2. Cp!SomeIf \in Cp!Args("ifindex_to_ip") /\ "ifindex_to_ip" \in Cp!Ops
    BY DEF Cp!SomeIf, Cp!Args, Cp!Ops
  <2>3. CpPlaces'
    BY <2>1, <2>2 DEF CpInv, CpPlaces
  <2> QED  BY <2>1, <2>3, Zenon DEF CpInv, CpScan
<1>2. CASE ver # cp_version
  <2>1. cp_pc' = "start" /\ UNCHANGED <<cp_version, mib, cp_op, arg, ver, id, lid>>
    BY <1>2 DEF Cp!VerlockStop, Cp!Again, Cp!Goto, Cp!server
  <2>2. CpPlaces'
    BY <2>1 DEF CpInv, CpPlaces
  <2> QED  BY <2>1, <2>2, Zenon DEF CpInv, CpScan
<1> QED  BY <1>1, <1>2

(* At the start there is one interface and no lookup. *)
LEMMA CpStarts ==
  ASSUME Rows \in Nat, CpIfs # {}, Cp!Init
  PROVE  CpInv
<1>1. mib = [c \in 0 .. 1 |-> mib[c]]
  BY DEF Cp!Init, Cp!OneInterface
<1>2. Cp!SomeIf \in Cp!Args("ifindex_to_ip") /\ "ifindex_to_ip" \in Cp!Ops
  BY DEF Cp!SomeIf, Cp!Args, Cp!Ops
<1>3. CpPlaces
  BY <1>1, <1>2 DEF Cp!Init, CpPlaces
<1> QED  BY <1>3 DEF Cp!Init, CpInv, CpScan

(* The invariant of the lookups is inductive. *)
LEMMA CpStep ==
  ASSUME Rows \in Nat, CpIfs # {}, 0 \notin CpIfs, CpInv, [Cp!Next]_cpVars
  PROVE  CpInv'
<1>1. CASE UNCHANGED cpVars
  <2>1. UNCHANGED <<cp_version, mib, cp_pc, cp_op, arg, ver, id, lid, ifindex, found, Current>>
    BY <1>1 DEF cpVars, Current
  <2>2. CpPlaces'
    BY <2>1 DEF CpInv, CpPlaces
  <2>3. CpScan'
    BY <2>1, Zenon DEF CpInv, CpScan, Scanned, LlapScanned, Matched
  <2> QED  BY <2>2, <2>3 DEF CpInv
<1>2. CASE Cp!Next
  BY <1>2, CpServerStep, CpBegin, CpMatch, CpUse, CpLlap, CpStop DEF Cp!Next, Cp!Step
<1> QED  BY <1>1, <1>2

(* No lookup is under way at the start. *)
LEMMA CpResultStarts ==
  ASSUME Cp!Init
  PROVE  CpResult
  BY DEF Cp!Init, CpResult

(* The result variable of a lookup, and what is left in it by a scan that  *)
(* is given up                                                             *)
LEMMA CpResultStep ==
  ASSUME CpInv, CpResult, [Cp!Next]_cpVars
  PROVE  CpResult'
<1> USE DEF CpInv, NothingFound, LeftOver, Cp!Returned, Cp!Goto, Cp!ENOENT
<1>1. CASE UNCHANGED cpVars
  BY <1>1 DEF cpVars, CpResult
<1>2. CASE Cp!Write \/ Cp!Publish
  BY <1>2, Zenon DEF Cp!Write, Cp!Publish, CpResult
<1>3. ASSUME NEW o \in Cp!Ops, NEW a \in Cp!Args(o), Cp!Call(o, a) PROVE CpResult'
  BY <1>3 DEF Cp!Call, CpResult
<1>4. CASE Cp!VerlockStart
  BY <1>4 DEF Cp!VerlockStart, CpResult
<1>5. CASE Cp!Match
  <2>1. /\ cp_pc = "match" /\ cp_pc' \in {"match", "use", "stop"} /\ cp_op # "find_llap"
        /\ UNCHANGED <<cp_op, rc, found, retried>>
    BY <1>5 DEF Cp!Match, CpPlaces
  <2> QED  BY <2>1 DEF CpResult
<1>6. CASE Cp!Use
  <2>1. /\ cp_pc = "use" /\ cp_op # "find_llap" /\ UNCHANGED <<cp_op, retried>>
        /\ \/ cp_pc' \in {"match", "llap"} /\ UNCHANGED <<rc, found>>
           \/ cp_pc' = "stop" /\ rc' = found'
    BY <1>6 DEF Cp!Use, Cp!FindIpifByIp, Cp!IfindexToIp, Cp!HwportVlanToIfindex, Cp!Return1,
                Cp!NextRow, CpPlaces
  <2> QED  BY <2>1 DEF CpResult
<1>7. CASE Cp!LlapFindRow
  <2>1. /\ cp_pc = "llap" /\ UNCHANGED <<cp_op, retried>>
        /\ \/ cp_pc' \in {"llap", "match"} /\ UNCHANGED <<rc, found>>
           \/ cp_op # "find_llap" /\ cp_pc' = "stop" /\ rc' = found'
           \/ cp_op = "find_llap" /\ cp_pc' = "stop" /\ rc' = Cp!ENOENT /\ UNCHANGED found
           \/ cp_op = "find_llap" /\ cp_pc' = "stop" /\ UNCHANGED rc
    BY <1>7, Zenon DEF Cp!LlapFindRow, Cp!FindLlap, Cp!FindLlapByIp, Cp!Return1, Cp!NextRow
  <2> QED  BY <2>1 DEF CpResult
<1>8. CASE Cp!VerlockStop
  BY <1>8 DEF Cp!VerlockStop, Cp!Return, Cp!Again, CpResult
<1> QED  BY <1>1, <1>2, <1>3, <1>4, <1>5, <1>6, <1>7, <1>8 DEF Cp!Next, Cp!Step

(* A lookup returns only from a scan of the copy in use, and what it       *)
(* returns is the result of that scan or, after a retry, a left-over.      *)
LEMMA CpSnapshot ==
  ASSUME CpInv, CpResult, [Cp!Next]_cpVars
  PROVE  Cp!SnapshotStep
<1> SUFFICES ASSUME cp_pc = "stop", cp_pc' = "idle"
             PROVE  \/ Cp!Returned = Cp!Answer(cp_op, arg, mib[cp_version % 2])
                    \/ /\ retried
                       /\ IF cp_op = "find_llap" THEN Cp!Returned = Cp!ENOENT
                          ELSE Cp!Answer(cp_op, arg, mib[cp_version % 2]) = 0
  BY DEF Cp!SnapshotStep
<1>1. ver = cp_version
  BY DEF cpVars, Cp!Next, Cp!Step, Cp!Write, Cp!Publish, Cp!Call, Cp!VerlockStart, Cp!Match, Cp!Use,
         Cp!LlapFindRow, Cp!VerlockStop, Cp!Again, Cp!Goto
<1>2. found = Cp!Answer(cp_op, arg, mib[cp_version % 2])
  BY <1>1 DEF CpInv, CpScan, Current
<1>3. Cp!Returned = found \/ LeftOver
  BY DEF CpResult
<1> QED  BY <1>2, <1>3, Zenon DEF LeftOver, Cp!Returned

-----------------------------------------------------------------------------
(* A row of the forwarding table *)

Active == data[version % 2]

(* The data that the version selects is never that of a bad interface. *)
ActiveGood == Active.ifindex # Bad

(* A client remembers a version that the row has had; and one that has     *)
(* read a bad ifindex remembers an old one.                                *)
VersionsPast ==
  \A c \in Clients :
    /\ verinfo[c] <= version
    /\ fwd_pc[c] = "res_assert" => verinfo[c] # version

(* While the version a client remembers is current, what the client has    *)
(* copied is what the row holds, as the server writes the other copy.      *)
CopiesCurrent ==
  \A c \in Clients : verinfo[c] = version =>
    /\ fwd_pc[c] \in {"copy_arp", "recheck"} => out[c].ifindex = Active.ifindex
    /\ fwd_pc[c] = "recheck" => out[c].arp_valid = Active.arp_valid

FwdInv == Fwd!TypeOK /\ ActiveGood /\ VersionsPast /\ CopiesCurrent /\ Fwd!RefreshNotLost

(* The server writes the copy that is not in use, and makes it the one in  *)
(* use by the next version.                                                *)
LEMMA FwdServerStep ==
  ASSUME MaxVersion \in Nat, FwdInv,
         Fwd!Write \/ Fwd!Publish \/ Fwd!MarkStale \/ Fwd!AskRefresh
  PROVE  FwdInv'
<1>t. /\ version \in Nat /\ data \in [0 .. 1 -> Fwd!Data] /\ verinfo \in [Clients -> 0 .. MaxVersion]
      /\ version % 2 \in 0 .. 1 /\ (version + 1) % 2 \in 0 .. 1 /\ (version + 1) % 2 # version % 2
  BY Parity DEF FwdInv, Fwd!TypeOK
<1>1. CASE Fwd!Write
  <2>1. data' \in [0 .. 1 -> Fwd!Data] /\ data'[version % 2] = data[version % 2]
    BY <1>t, <1>1, Zenon DEF Fwd!Write, Fwd!Inactive, Fwd!Data
  <2>2. version' = version /\ UNCHANGED <<stale, recent, need_refresh, fwd_owed, fwd_pc, verinfo, out>>
    BY <1>1 DEF Fwd!Write, Fwd!flags
  <2>3. Active' = Active
    BY <2>1, <2>2 DEF Active
  <2> QED  BY <2>1, <2>2, <2>3, Zenon DEF FwdInv, Fwd!TypeOK, Fwd!flags, ActiveGood, VersionsPast,
                                   CopiesCurrent, Fwd!RefreshNotLost
<1>2. CASE Fwd!Publish
  <2>1. /\ version' = version + 1 /\ version < MaxVersion /\ data[(version + 1) % 2].ifindex # Bad
        /\ UNCHANGED <<data, stale, recent, need_refresh, fwd_owed, fwd_pc, verinfo, out>>
    BY <1>2 DEF Fwd!Publish, Fwd!Inactive, Fwd!flags
  <2>2. ActiveGood'
    BY <2>1 DEF ActiveGood, Active
  <2>3. version' \in 0 .. MaxVersion /\ \A c \in Clients : verinfo[c] < version'
    BY <1>t, <2>1 DEF FwdInv, VersionsPast
  <2>4. VersionsPast' /\ CopiesCurrent'
    BY <1>t, <2>1, <2>3 DEF VersionsPast, CopiesCurrent
  <2> QED  BY <2>1, <2>2, <2>3, <2>4, Zenon DEF FwdInv, Fwd!TypeOK, Fwd!flags, Fwd!RefreshNotLost
<1>3. CASE Fwd!MarkStale
  BY <1>3, Zenon DEF Fwd!MarkStale, Fwd!row, FwdInv, Fwd!TypeOK, Fwd!flags, ActiveGood, Active,
              VersionsPast, CopiesCurrent, Fwd!RefreshNotLost
<1>4. CASE Fwd!AskRefresh
  BY <1>4, Zenon DEF Fwd!AskRefresh, Fwd!row, FwdInv, Fwd!TypeOK, Fwd!flags, ActiveGood, Active,
              VersionsPast, CopiesCurrent, Fwd!RefreshNotLost
<1> QED  BY <1>1, <1>2, <1>3, <1>4

(* The places of a client *)
FwdPlaces == {"idle", "copy_if", "copy_arp", "recheck", "slow", "valid", "resolved",
              "res_if", "res_assert", "res_arp", "res_version",
              "conf_flag", "conf_clear", "conf_ioctl"}

(* A confirmation is still promised after a step of a client that leaves   *)
(* the flag alone and is not the confirmation, that goes on to confirm, or *)
(* that has tried to confirm.                                              *)
LEMMA RefreshKept ==
  ASSUME FwdInv, NEW c \in Clients, NEW to \in FwdPlaces,
         fwd_pc' = [fwd_pc EXCEPT ![c] = to],
         \/ UNCHANGED <<need_refresh, fwd_owed>> /\ fwd_pc[c] # "conf_ioctl"
         \/ to = "conf_ioctl"
         \/ fwd_owed' => need_refresh'
  PROVE  Fwd!RefreshNotLost'
<1>1. fwd_pc \in [Clients -> FwdPlaces]
  BY DEF FwdInv, Fwd!TypeOK, FwdPlaces
<1> QED  BY <1>1, Zenon DEF FwdInv, Fwd!RefreshNotLost

(* A step of a client that reads at most the version, or one field to see  *)
(* where to go on.                                                         *)
LEMMA FwdKeeps ==
  ASSUME FwdInv, NEW c \in Clients, NEW to \in FwdPlaces,
         fwd_pc' = [fwd_pc EXCEPT ![c] = to], to \notin {"copy_arp", "recheck"},
         to = "res_assert" => verinfo[c] # version,
         UNCHANGED <<version, data, stale, verinfo, out>>,
         recent' \in BOOLEAN, need_refresh' \in BOOLEAN, fwd_owed' \in BOOLEAN,
         Fwd!RefreshNotLost'
  PROVE  FwdInv'
<1>1. fwd_pc \in [Clients -> FwdPlaces] /\ fwd_pc' \in [Clients -> FwdPlaces]
  BY DEF FwdInv, Fwd!TypeOK, FwdPlaces
<1>2. Fwd!TypeOK'
  BY <1>1 DEF FwdInv, Fwd!TypeOK, Fwd!flags, FwdPlaces
<1>3. Active' = Active
  BY Zenon DEF Active
<1>4. ActiveGood' /\ VersionsPast' /\ CopiesCurrent'
  BY <1>1, <1>3 DEF FwdInv, ActiveGood, VersionsPast, CopiesCurrent
<1> QED  BY <1>2, <1>4 DEF FwdInv

(* oo_cp_route_resolve: the copies of the fields, the lookup that replaces *)
(* them, and the return.                                                   *)
LEMMA FwdCopies ==
  ASSUME MaxVersion \in Nat, FwdInv, NEW c \in Clients,
         Fwd!CopyIf(c) \/ Fwd!CopyArp(c) \/ Fwd!SlowPath(c) \/ Fwd!Return(c)
  PROVE  FwdInv'
<1>t. /\ version \in 0 .. MaxVersion /\ data \in [0 .. 1 -> Fwd!Data]
      /\ verinfo \in [Clients -> 0 .. MaxVersion] /\ out \in [Clients -> Fwd!Data]
      /\ fwd_pc \in [Clients -> FwdPlaces]
      /\ version % 2 \in 0 .. 1 /\ verinfo[c] % 2 \in 0 .. 1
      /\ stale \in BOOLEAN /\ need_refresh \in BOOLEAN /\ fwd_owed \in BOOLEAN
      /\ recent \in BOOLEAN
  BY Parity DEF FwdInv, Fwd!TypeOK, Fwd!flags, FwdPlaces
<1>d. \A d \in Fwd!Data : d.ifindex \in Ifs \cup {Bad} /\ d.arp_valid \in BOOLEAN
  BY DEF Fwd!Data
<1>1. ASSUME NEW to \in FwdPlaces, to # "res_assert", NEW d \in Fwd!Data,
             fwd_pc[c] # "conf_ioctl",
             fwd_pc' = [fwd_pc EXCEPT ![c] = to], out' = [out EXCEPT ![c] = d],
             verinfo'[c] = version =>
               /\ to \in {"copy_arp", "recheck"} => d.ifindex = Active.ifindex
               /\ to = "recheck" => d.arp_valid = Active.arp_valid,
             verinfo' = verinfo \/ verinfo' = [verinfo EXCEPT ![c] = version],
             recent' \in BOOLEAN,
             UNCHANGED <<version, data, stale, need_refresh, fwd_owed>>
      PROVE  FwdInv'
  <2>1. Fwd!RefreshNotLost'
    BY <1>1, RefreshKept, Zenon
  <2>2. /\ out' \in [Clients -> Fwd!Data] /\ verinfo' \in [Clients -> 0 .. MaxVersion]
        /\ fwd_pc' \in [Clients -> FwdPlaces]
    BY <1>t, <1>1, Zenon
  <2>3. Fwd!TypeOK'
    BY <1>t, <1>1, <2>2, Zenon DEF Fwd!TypeOK, Fwd!flags, FwdPlaces
  <2>4. Active' = Active
    BY <1>1, Zenon DEF Active
  <2>5. ActiveGood' /\ VersionsPast'
    <3>1. ActiveGood'
      BY <1>1, <2>4 DEF FwdInv, ActiveGood
    <3>2. \A e \in Clients : verinfo[e] <= version /\ (fwd_pc[e] = "res_assert" => verinfo[e] # version)
      BY Zenon DEF FwdInv, VersionsPast
    <3>3. version' = version /\ version <= version
      BY <1>t, <1>1
    <3>4. \A e \in Clients : /\ e # c => fwd_pc'[e] = fwd_pc[e] /\ verinfo'[e] = verinfo[e]
                            /\ fwd_pc'[c] # "res_assert" /\ verinfo'[c] \in {verinfo[c], version}
      BY <1>t, <1>1, Zenon
    <3>5. VersionsPast'
      BY <3>2, <3>3, <3>4, Zenon DEF VersionsPast
    <3> QED  BY <3>1, <3>5, Zenon
  <2>6. CopiesCurrent'
    BY <1>t, <1>1, <2>4, Zenon DEF FwdInv, CopiesCurrent
  <2> QED  BY <2>1, <2>3, <2>5, <2>6 DEF FwdInv
<1>2. CASE Fwd!CopyIf(c)
  <2> DEFINE d == [out[c] EXCEPT !.ifindex = data[verinfo[c] % 2].ifindex]
  <2>1. d \in Fwd!Data /\ d.ifindex = data[verinfo[c] % 2].ifindex
    BY <1>t, <1>d DEF Fwd!Data
  <2>2. /\ out' = [out EXCEPT ![c] = d] /\ fwd_pc[c] = "copy_if" /\ recent' = TRUE
        /\ fwd_pc' = [fwd_pc EXCEPT ![c] = "copy_arp"]
        /\ UNCHANGED <<version, data, stale, need_refresh, fwd_owed, verinfo>>
    BY <1>2 DEF Fwd!CopyIf, Fwd!Goto, Fwd!MyData, Fwd!row
  <2>3. verinfo'[c] = version => d.ifindex = Active.ifindex
    BY <2>1, <2>2 DEF Active
  <2> HIDE DEF d
  <2>4. "copy_arp" \in FwdPlaces /\ recent' \in BOOLEAN
    BY <2>2 DEF FwdPlaces
  <2> QED  BY <1>1, <2>1, <2>2, <2>3, <2>4, Zenon
<1>3. CASE Fwd!CopyArp(c)
  <2> DEFINE d == [out[c] EXCEPT !.arp_valid = data[verinfo[c] % 2].arp_valid]
  <2>1. /\ d \in Fwd!Data /\ d.ifindex = out[c].ifindex
        /\ d.arp_valid = data[verinfo[c] % 2].arp_valid
    BY <1>t, <1>d DEF Fwd!Data
  <2>2. /\ out' = [out EXCEPT ![c] = d] /\ fwd_pc[c] = "copy_arp" /\ recent' = recent
        /\ fwd_pc' = [fwd_pc EXCEPT ![c] = "recheck"]
        /\ UNCHANGED <<version, data, stale, need_refresh, fwd_owed, verinfo>>
    BY <1>3 DEF Fwd!CopyArp, Fwd!Goto, Fwd!MyData, Fwd!row, Fwd!flags
  <2>3. verinfo'[c] = version => d.ifindex = Active.ifindex /\ d.arp_valid = Active.arp_valid
    BY <2>1, <2>2, Zenon DEF Active, FwdInv, CopiesCurrent
  <2> HIDE DEF d
  <2>4. "recheck" \in FwdPlaces /\ recent' \in BOOLEAN
    BY <1>t, <2>2 DEF FwdPlaces
  <2> QED  BY <1>1, <2>1, <2>2, <2>3, <2>4, Zenon
<1>4. CASE Fwd!SlowPath(c)
  <2>1. /\ out' = [out EXCEPT ![c] = data[version % 2]] /\ fwd_pc[c] = "slow" /\ recent' = recent
        /\ fwd_pc' = [fwd_pc EXCEPT ![c] = "resolved"]
        /\ verinfo' = [verinfo EXCEPT ![c] = version]
        /\ UNCHANGED <<version, data, stale, need_refresh, fwd_owed>>
    BY <1>4, Zenon DEF Fwd!SlowPath, Fwd!Goto, Fwd!row, Fwd!flags
  <2>2. "resolved" \in FwdPlaces /\ recent' \in BOOLEAN /\ data[version % 2] \in Fwd!Data
    BY <1>t, <2>1 DEF FwdPlaces
  <2> QED  BY <1>1, <2>1, <2>2, Zenon
<1>5. CASE Fwd!Return(c)
  <2>1. /\ out' = [out EXCEPT ![c] = Fwd!NoData] /\ fwd_pc[c] \in {"valid", "resolved"}
        /\ fwd_pc' = [fwd_pc EXCEPT ![c] = "idle"] /\ recent' = recent
        /\ UNCHANGED <<version, data, stale, need_refresh, fwd_owed, verinfo>>
    BY <1>5, Zenon DEF Fwd!Return, Fwd!Goto, Fwd!row, Fwd!flags
  <2>2. "idle" \in FwdPlaces /\ recent' \in BOOLEAN /\ Fwd!NoData \in Fwd!Data
    BY <1>t, <2>1 DEF FwdPlaces, Fwd!NoData, Fwd!Data
  <2> QED  BY <1>1, <2>1, <2>2, Zenon
<1> QED  BY <1>2, <1>3, <1>4, <1>5, Zenon

(* The other steps of the calls: tests of the version and of a field, and  *)
(* the flag of oo_cp_arp_confirm.                                          *)
LEMMA FwdTests ==
  ASSUME MaxVersion \in Nat, FwdInv, NEW c \in Clients,
         \/ Fwd!Resolve(c) \/ Fwd!Recheck(c) \/ Fwd!ArpResolve(c) \/ Fwd!ResolveIf(c)
         \/ Fwd!ResolveAssert(c) \/ Fwd!ResolveArp(c) \/ Fwd!ResolveVersion(c)
         \/ Fwd!ArpConfirm(c) \/ Fwd!ConfirmFlag(c) \/ Fwd!ConfirmClear(c) \/ Fwd!ConfirmIoctl(c)
  PROVE  FwdInv'
<1>t. stale \in BOOLEAN /\ recent \in BOOLEAN /\ need_refresh \in BOOLEAN /\ fwd_owed \in BOOLEAN
  BY DEF FwdInv, Fwd!TypeOK, Fwd!flags
<1>1. PICK to \in FwdPlaces :
        /\ fwd_pc' = [fwd_pc EXCEPT ![c] = to] /\ to \notin {"copy_arp", "recheck"}
        /\ to = "res_assert" => verinfo[c] # version
        /\ UNCHANGED <<version, data, stale, verinfo, out>>
        /\ \/ UNCHANGED <<need_refresh, fwd_owed>> /\ fwd_pc[c] # "conf_ioctl"
           \/ to = "conf_ioctl" /\ need_refresh' = FALSE /\ UNCHANGED fwd_owed
           \/ fwd_owed' = FALSE /\ UNCHANGED need_refresh
           \/ fwd_owed' = (fwd_owed /\ need_refresh) /\ UNCHANGED need_refresh
        /\ recent' = recent \/ recent' = (recent \/ (Fwd!VersionMatches(c) /\ stale))
  <2> USE DEF FwdPlaces, Fwd!Goto, Fwd!Touch, Fwd!row, Fwd!flags
  <2>1. CASE Fwd!Resolve(c)
    BY <2>1, Zenon DEF Fwd!Resolve
  <2>2. CASE Fwd!Recheck(c)
    BY <2>2, Zenon DEF Fwd!Recheck
  <2>3. CASE Fwd!ArpResolve(c)
    BY <2>3 DEF Fwd!ArpResolve
  <2>4. CASE Fwd!ResolveIf(c)
    <3>1. data[verinfo[c] % 2].ifindex = Bad => verinfo[c] # version
      BY Zenon DEF FwdInv, ActiveGood, Active
    <3> QED  BY <2>4, <3>1, Zenon DEF Fwd!ResolveIf, Fwd!MyData
  <2>5. CASE Fwd!ResolveAssert(c)
    BY <2>5 DEF Fwd!ResolveAssert
  <2>6. CASE Fwd!ResolveArp(c)
    BY <2>6, Zenon DEF Fwd!ResolveArp
  <2>7. CASE Fwd!ResolveVersion(c)
    BY <2>7 DEF Fwd!ResolveVersion
  <2>8. CASE Fwd!ArpConfirm(c)
    BY <2>8, Zenon DEF Fwd!ArpConfirm
  <2>9. CASE Fwd!ConfirmFlag(c)
    BY <2>9, Zenon DEF Fwd!ConfirmFlag
  <2>10. CASE Fwd!ConfirmClear(c)
    BY <2>10, Zenon DEF Fwd!ConfirmClear
  <2>11. CASE Fwd!ConfirmIoctl(c)
    BY <2>11, Zenon DEF Fwd!ConfirmIoctl
  <2> QED  BY <2>1, <2>2, <2>3, <2>4, <2>5, <2>6, <2>7, <2>8, <2>9, <2>10, <2>11, Zenon
<1>2. recent' \in BOOLEAN /\ need_refresh' \in BOOLEAN /\ fwd_owed' \in BOOLEAN
  BY <1>t, <1>1, Zenon
<1>3. \/ UNCHANGED <<need_refresh, fwd_owed>> /\ fwd_pc[c] # "conf_ioctl"
      \/ to = "conf_ioctl"
      \/ fwd_owed' => need_refresh'
  <2>1. ASSUME fwd_owed' = (fwd_owed /\ need_refresh), UNCHANGED need_refresh
        PROVE  fwd_owed' => need_refresh'
    BY <2>1, Zenon
  <2> QED  BY <1>1, <2>1, Zenon
<1>4. Fwd!RefreshNotLost'
  BY <1>1, <1>3, RefreshKept, Zenon
<1> QED  BY <1>1, <1>2, <1>4, FwdKeeps, Zenon

(* Every step of the server and of the clients keeps the invariant. *)
LEMMA FwdStep ==
  ASSUME MaxVersion \in Nat, FwdInv, [Fwd!Next]_fwdVars
  PROVE  FwdInv'
<1>1. CASE UNCHANGED fwdVars
  BY <1>1, Zenon DEF fwdVars, FwdInv, Fwd!TypeOK, Fwd!flags, ActiveGood, Active, VersionsPast,
              CopiesCurrent, Fwd!RefreshNotLost
<1>2. CASE Fwd!Next
  BY <1>2, FwdServerStep, FwdCopies, FwdTests DEF Fwd!Next
<1> QED  BY <1>1, <1>2

(* At first both copies of the row are the same and no call is under way. *)
LEMMA FwdStarts ==
  ASSUME MaxVersion \in Nat, Bad \notin Ifs, Fwd!Init
  PROVE  FwdInv
<1>1. PICK d \in [ifindex : Ifs, arp_valid : BOOLEAN] : data = [n \in 0 .. 1 |-> d]
  BY DEF Fwd!Init
<1>2. d \in Fwd!Data /\ d.ifindex # Bad /\ 0 % 2 \in 0 .. 1
  BY Parity DEF Fwd!Data
<1>3. ActiveGood
  BY <1>1, <1>2 DEF Fwd!Init, ActiveGood, Active
<1>4. Fwd!TypeOK
  <2>1. data \in [0 .. 1 -> Fwd!Data]
    BY <1>1, <1>2
  <2>2. Fwd!NoData \in Fwd!Data
    BY Zenon DEF Fwd!NoData, Fwd!Data
  <2>3. /\ version = 0 /\ stale = FALSE /\ recent = TRUE /\ need_refresh = FALSE /\ fwd_owed = FALSE
        /\ fwd_pc = [c \in Clients |-> "idle"] /\ verinfo = [c \in Clients |-> 0]
        /\ out = [c \in Clients |-> Fwd!NoData]
    BY DEF Fwd!Init
  <2>4. stale \in BOOLEAN /\ recent \in BOOLEAN /\ need_refresh \in BOOLEAN /\ fwd_owed \in BOOLEAN
    BY <2>3, Zenon
  <2>5. Fwd!flags \in BOOLEAN \X BOOLEAN \X BOOLEAN \X BOOLEAN
    BY <2>4 DEF Fwd!flags
  <2>6. /\ version \in 0 .. MaxVersion /\ verinfo \in [Clients -> 0 .. MaxVersion]
        /\ out \in [Clients -> Fwd!Data] /\ fwd_pc \in [Clients -> {"idle"}]
    BY <2>2, <2>3
  <2> QED  BY <2>1, <2>5, <2>6 DEF Fwd!TypeOK
<1>5. VersionsPast /\ CopiesCurrent /\ Fwd!RefreshNotLost
  BY DEF Fwd!Init, VersionsPast, CopiesCurrent, Fwd!RefreshNotLost
<1> QED  BY <1>3, <1>4, <1>5, Zenon DEF FwdInv

(* A step that makes oo_cp_route_resolve return 1 finds the version        *)
(* A client that has read a bad ifindex holds a version that is over. *)
LEMMA FwdBadIfindex ==
  ASSUME FwdInv
  PROVE  Fwd!BadIfindexMeansOldVersion
  BY DEF FwdInv, VersionsPast, Fwd!BadIfindexMeansOldVersion

(* A verinfo that a client finds valid in the second look at the version   *)
(* holds what the row held while the version was unchanged, so that the    *)
(* fields copied are those of one version.                                 *)
LEMMA FwdValid ==
  ASSUME MaxVersion \in Nat, FwdInv, [Fwd!Next]_fwdVars
  PROVE  Fwd!ValidStep
<1> SUFFICES ASSUME NEW c \in Clients, fwd_pc[c] = "recheck", fwd_pc'[c] = "valid"
             PROVE  out[c] = data[version % 2] /\ verinfo[c] = version
  BY DEF Fwd!ValidStep
<1>t. /\ fwd_pc \in [Clients -> FwdPlaces] /\ out[c] \in Fwd!Data /\ data[version % 2] \in Fwd!Data
  BY Parity DEF FwdInv, Fwd!TypeOK, FwdPlaces
<1>1. verinfo[c] = version
  <2>1. Fwd!Next
    BY DEF fwdVars
  <2>2. PICK b \in Clients :
          \/ Fwd!Resolve(b) \/ Fwd!CopyIf(b) \/ Fwd!CopyArp(b) \/ Fwd!Recheck(b)
          \/ Fwd!SlowPath(b) \/ Fwd!Return(b)
          \/ Fwd!ArpResolve(b) \/ Fwd!ResolveIf(b) \/ Fwd!ResolveAssert(b) \/ Fwd!ResolveArp(b)
          \/ Fwd!ResolveVersion(b)
          \/ Fwd!ArpConfirm(b) \/ Fwd!ConfirmFlag(b) \/ Fwd!ConfirmClear(b) \/ Fwd!ConfirmIoctl(b)
    BY <2>1 DEF Fwd!Next, Fwd!Write, Fwd!Publish, Fwd!MarkStale, Fwd!AskRefresh
  <2>3. b = c
    BY <1>t, <2>2 DEF Fwd!Goto, Fwd!Resolve, Fwd!CopyIf, Fwd!CopyArp, Fwd!Recheck, Fwd!SlowPath,
         Fwd!Return, Fwd!ArpResolve, Fwd!ResolveIf, Fwd!ResolveAssert, Fwd!ResolveArp,
         Fwd!ResolveVersion, Fwd!ArpConfirm, Fwd!ConfirmFlag, Fwd!ConfirmClear, Fwd!ConfirmIoctl
  <2>4. Fwd!Recheck(c)
    BY <2>2, <2>3 DEF Fwd!Goto, Fwd!Resolve, Fwd!CopyIf, Fwd!CopyArp, Fwd!SlowPath,
         Fwd!Return, Fwd!ArpResolve, Fwd!ResolveIf, Fwd!ResolveAssert, Fwd!ResolveArp,
         Fwd!ResolveVersion, Fwd!ArpConfirm, Fwd!ConfirmFlag, Fwd!ConfirmClear, Fwd!ConfirmIoctl
  <2> QED  BY <1>t, <2>4, Zenon DEF Fwd!Recheck, Fwd!Goto, Fwd!VersionMatches
<1>2. out[c].ifindex = Active.ifindex /\ out[c].arp_valid = Active.arp_valid
  BY <1>1, Zenon DEF FwdInv, CopiesCurrent
<1>3. out[c] = data[version % 2]
  <2>1. PICK d, e \in Fwd!Data : d = out[c] /\ e = data[version % 2]
    BY <1>t, Zenon
  <2>2. d.ifindex = e.ifindex /\ d.arp_valid = e.arp_valid
    BY <1>2, <2>1, Zenon DEF Active
  <2>3. d = e
    BY <2>2 DEF Fwd!Data
  <2> QED  BY <2>1, <2>3, Zenon
<1> QED  BY <1>1, <1>3

-----------------------------------------------------------------------------
(* The lock of a stack *)

EpHeld(t) == ep_pc[t] \in {"holder", "unlocking", "serving"}

(* One thread at most holds the lock, and the bit says whether one does. *)
EpOne ==
  /\ \A t, u \in Threads : EpHeld(t) /\ EpHeld(u) => t = u
  /\ "LOCKED" \in ep_lock <=> \E t \in Threads : EpHeld(t)

(* The word that a thread is about to swap out in ef_eplock_try_unlock had *)
(* no flag of a job when it was read.                                      *)
EpReadClean ==
  \A t \in Threads : ep_pc[t] = "unlocking" => lv[t] \cap UnlockFlags = {}

EpInv == Ep!TypeOK /\ EpOne /\ EpReadClean /\ Ep!NoJobForgotten /\ Ep!NoSleeperForgotten

(* A thread takes the free lock, with or without flags in the word that it *)
(* locks: ef_eplock_trylock and the calls that set flags as well.          *)
LEMMA EpTake ==
  ASSUME EpInv, NEW t \in Threads, NEW F \in SUBSET Ep!Flags,
         "LOCKED" \notin ep_lock, ep_pc[t] \in {"idle", "woken"},
         ep_pc' = [ep_pc EXCEPT ![t] = "holder"],
         ep_lock' = ep_lock \cup {"LOCKED"} \cup F,
         ep_owed' = ep_owed \cup (F \cap UnlockFlags),
         UNCHANGED <<lv, todo>>
  PROVE  EpInv'
<1>t. /\ ep_pc \in [Threads -> {"idle", "sleeping", "woken", "holder", "unlocking", "serving"}]
      /\ ep_lock \subseteq Ep!Bits /\ lv \in [Threads -> SUBSET Ep!Bits]
      /\ todo \subseteq UnlockFlags /\ ep_owed \subseteq UnlockFlags
  BY DEF EpInv, Ep!TypeOK
<1>1. Ep!TypeOK'
  BY <1>t, Zenon DEF Ep!TypeOK, Ep!Bits
<1>2. \A u \in Threads : EpHeld(u)' <=> u = t
  BY <1>t DEF EpInv, EpOne, EpHeld
<1>3. EpOne'
  BY <1>2, Zenon DEF EpOne
<1>4. EpReadClean'
  BY <1>t DEF EpInv, EpReadClean
<1>5. Ep!NoJobForgotten'
  BY <1>t DEF EpInv, Ep!NoJobForgotten, Ep!Locked
<1>6. Ep!NoSleeperForgotten'
  BY <1>t DEF EpInv, Ep!NoSleeperForgotten
<1> QED  BY <1>1, <1>3, <1>4, <1>5, <1>6, Zenon DEF EpInv

(* A job, or the wish for a wake-up, is left in a word that stays locked,  *)
(* by the holder or by a thread that goes to sleep or goes on.             *)
LEMMA EpLeave ==
  ASSUME EpInv, NEW t \in Threads, NEW F \in SUBSET Ep!Bits, NEW p,
         "LOCKED" \in ep_lock,
         \/ p = ep_pc[t]
         \/ p = "sleeping" /\ ep_pc[t] \in {"idle", "woken"} /\ "NEED_WAKE" \in F,
         ep_pc' = [ep_pc EXCEPT ![t] = p],
         ep_lock' = ep_lock \cup F,
         ep_owed' = ep_owed \cup (F \cap UnlockFlags),
         UNCHANGED <<lv, todo>>
  PROVE  EpInv'
<1>t. /\ ep_pc \in [Threads -> {"idle", "sleeping", "woken", "holder", "unlocking", "serving"}]
      /\ ep_lock \subseteq Ep!Bits /\ lv \in [Threads -> SUBSET Ep!Bits]
      /\ todo \subseteq UnlockFlags /\ ep_owed \subseteq UnlockFlags
  BY DEF EpInv, Ep!TypeOK
<1>1. Ep!TypeOK'
  BY <1>t DEF Ep!TypeOK, Ep!Bits
<1>2. \A u \in Threads : EpHeld(u)' <=> EpHeld(u)
  BY <1>t DEF EpHeld
<1>3. EpOne'
  BY <1>2 DEF EpInv, EpOne
<1>4. EpReadClean'
  BY <1>t, Zenon DEF EpInv, EpReadClean
<1>5. Ep!NoJobForgotten'
  BY <1>t DEF EpInv, Ep!NoJobForgotten, Ep!Locked
<1>6. Ep!NoSleeperForgotten'
  BY <1>t DEF EpInv, Ep!NoSleeperForgotten
<1> QED  BY <1>1, <1>3, <1>4, <1>5, <1>6, Zenon DEF EpInv

(* The swap of ef_eplock_try_unlock succeeds: there was no flag of a job,  *)
(* and whoever sleeps is woken, as the word asks for that.                 *)
LEMMA EpLetGo ==
  ASSUME EpInv, NEW t \in Threads, ep_pc[t] = "unlocking", ep_lock = lv[t],
         Ep!TryUnlockCas(t)
  PROVE  EpInv'
<1>t. /\ ep_pc \in [Threads -> {"idle", "sleeping", "woken", "holder", "unlocking", "serving"}]
      /\ ep_lock \subseteq Ep!Bits /\ lv \in [Threads -> SUBSET Ep!Bits]
      /\ todo \subseteq UnlockFlags /\ ep_owed \subseteq UnlockFlags
  BY DEF EpInv, Ep!TypeOK
<1>s. /\ ep_lock' = ep_lock \ {"LOCKED", "NEED_WAKE"}
      /\ lv' = [lv EXCEPT ![t] = {}] /\ UNCHANGED <<todo, ep_owed>>
  BY Zenon DEF Ep!TryUnlockCas
<1>p. /\ ep_pc' \in [Threads -> {"idle", "sleeping", "woken", "holder", "unlocking", "serving"}]
      /\ ep_pc'[t] = "idle"
      /\ \A u \in Threads \ {t} : ep_pc'[u] = IF ep_pc[u] = "sleeping" THEN "woken" ELSE ep_pc[u]
  <2>1. CASE "NEED_WAKE" \in lv[t]
    BY <2>1, <1>t DEF Ep!TryUnlockCas, Ep!Woken
  <2>2. CASE "NEED_WAKE" \notin lv[t]
    <3>1. \A u \in Threads : ep_pc[u] # "sleeping"
      BY <2>2 DEF EpInv, Ep!NoSleeperForgotten
    <3> QED  BY <2>2, <3>1, <1>t, Zenon DEF Ep!TryUnlockCas, Ep!Goto
  <2> QED  BY <2>1, <2>2
<1>1. Ep!TypeOK'
  BY <1>t, <1>s, <1>p, Zenon DEF Ep!TypeOK, Ep!Bits
<1>2. \A u \in Threads : ~EpHeld(u)'
  BY <1>p DEF EpInv, EpOne, EpHeld
<1>3. EpOne'
  BY <1>2, <1>s DEF EpOne
<1>4. EpReadClean'
  BY <1>2, Zenon DEF EpReadClean, EpHeld
<1>5. ep_lock \cap UnlockFlags = {}
  BY Zenon DEF EpInv, EpReadClean
<1>6. todo = {}
  BY DEF EpInv, EpOne, EpHeld, Ep!NoJobForgotten
<1>7. Ep!NoJobForgotten'
  BY <1>t, <1>s, <1>5, <1>6, Zenon DEF EpInv, Ep!NoJobForgotten, Ep!Locked
<1>8. Ep!NoSleeperForgotten'
  BY <1>t, <1>p, Zenon DEF Ep!NoSleeperForgotten
<1> QED  BY <1>1, <1>3, <1>4, <1>7, <1>8, Zenon DEF EpInv

(* The other steps of a holder on its way to the unlock: it stays the      *)
(* holder, and what it takes out of the word is served or is nobody's job. *)
LEMMA EpHolds ==
  ASSUME EpInv, NEW t \in Threads, NEW p \in {"holder", "unlocking", "serving"},
         NEW w \in SUBSET Ep!Bits, NEW T \in SUBSET UnlockFlags, NEW L \in SUBSET ep_lock,
         EpHeld(t),
         ep_pc' = [ep_pc EXCEPT ![t] = p], lv' = [lv EXCEPT ![t] = w],
         ep_lock' = L, todo' = T, ep_owed' \subseteq ep_owed,
         {"LOCKED", "NEED_WAKE"} \cap ep_lock \subseteq L,
         ep_owed' \subseteq L \cup T,
         p = "unlocking" => w \cap UnlockFlags = {},
         T # {} => p = "serving"
  PROVE  EpInv'
<1>t. /\ ep_pc \in [Threads -> {"idle", "sleeping", "woken", "holder", "unlocking", "serving"}]
      /\ ep_lock \subseteq Ep!Bits /\ lv \in [Threads -> SUBSET Ep!Bits]
      /\ todo \subseteq UnlockFlags /\ ep_owed \subseteq UnlockFlags
  BY DEF EpInv, Ep!TypeOK
<1>1. Ep!TypeOK'
  BY <1>t DEF Ep!TypeOK, Ep!Bits
<1>2. \A u \in Threads : EpHeld(u)' <=> EpHeld(u)
  BY <1>t, Zenon DEF EpHeld
<1>3. "LOCKED" \in ep_lock /\ "LOCKED" \in L
  BY DEF EpInv, EpOne
<1>4. EpOne'
  BY <1>2, <1>3, Zenon DEF EpInv, EpOne
<1>5. EpReadClean'
  BY <1>t DEF EpInv, EpReadClean
<1>6. Ep!NoJobForgotten'
  BY <1>t, <1>3, Zenon DEF Ep!NoJobForgotten, Ep!Locked
<1>7. Ep!NoSleeperForgotten'
  BY <1>t, Zenon DEF EpInv, EpHeld, Ep!NoSleeperForgotten
<1> QED  BY <1>1, <1>4, <1>5, <1>6, <1>7, Zenon DEF EpInv

(* Every step of a thread keeps the invariant of the lock. *)
LEMMA EpStep ==
  ASSUME NamesAssumption, EpInv, [Ep!Next]_epVars
  PROVE  EpInv'
<1>t. /\ ep_pc \in [Threads -> {"idle", "sleeping", "woken", "holder", "unlocking", "serving"}]
      /\ ep_lock \subseteq Ep!Bits /\ lv \in [Threads -> SUBSET Ep!Bits]
      /\ todo \subseteq UnlockFlags /\ ep_owed \subseteq UnlockFlags
  BY DEF EpInv, Ep!TypeOK
<1>b. /\ "NEED_WAKE" \in Ep!Bits /\ UnlockFlags \subseteq Ep!Bits /\ Ep!Flags \subseteq Ep!Bits
      /\ "NEED_WAKE" \notin UnlockFlags /\ "LOCKED" \notin UnlockFlags
      /\ "NEED_WAKE" \notin OtherFlags /\ "LOCKED" \notin OtherFlags
      /\ UnlockFlags \cap OtherFlags = {}
  BY NamesAssumption DEF Ep!Bits, Ep!Flags
<1>o. ep_owed \subseteq ep_lock \cup todo
  BY DEF EpInv, Ep!NoJobForgotten
<1>s. \A t \in Threads : EpHeld(t) /\ ep_pc[t] # "serving" => todo = {}
  BY DEF EpInv, EpOne, EpHeld, Ep!NoJobForgotten
<1>u. \A t \in Threads : ep_pc = [ep_pc EXCEPT ![t] = ep_pc[t]] /\ lv = [lv EXCEPT ![t] = lv[t]]
  BY <1>t
<1>h. \A t \in Threads : EpHeld(t) => "LOCKED" \in ep_lock
  BY DEF EpInv, EpOne
<1>1. CASE UNCHANGED epVars
  BY <1>1, Zenon DEF epVars, EpInv, EpOne, EpHeld, EpReadClean, Ep!TypeOK, Ep!NoJobForgotten,
     Ep!NoSleeperForgotten, Ep!Locked
<1>2. ASSUME NEW t \in Threads, Ep!TryUnlockRead(t) PROVE EpInv'
  <2> DEFINE p == IF ep_lock \cap UnlockFlags # {} THEN "serving" ELSE "unlocking"
  <2>1. /\ EpHeld(t) /\ ep_pc[t] # "serving"
        /\ ep_pc' = [ep_pc EXCEPT ![t] = p] /\ lv' = [lv EXCEPT ![t] = ep_lock]
        /\ UNCHANGED <<ep_lock, todo, ep_owed>>
    BY <1>2 DEF Ep!TryUnlockRead, Ep!Goto, EpHeld
  <2>2. /\ p \in {"holder", "unlocking", "serving"}
        /\ p = "unlocking" => ep_lock \cap UnlockFlags = {}
    OBVIOUS
  <2>3. todo = {}
    BY <2>1, <1>s
  <2> HIDE DEF p
  <2> QED  BY <2>1, <2>2, <2>3, <1>t, <1>o, EpHolds, Zenon
<1>3. ASSUME NEW t \in Threads, Ep!TryUnlockCas(t) PROVE EpInv'
  <2>0. ep_pc[t] = "unlocking"
    BY <1>3, Zenon DEF Ep!TryUnlockCas
  <2>1. CASE ep_lock = lv[t]
    BY <1>3, <2>0, <2>1, EpLetGo, Zenon
  <2>2. CASE ep_lock # lv[t]
    <3>1. /\ ep_pc' = [ep_pc EXCEPT ![t] = "holder"] /\ lv' = [lv EXCEPT ![t] = {}]
          /\ UNCHANGED <<ep_lock, todo, ep_owed>>
      BY <1>3, <2>2 DEF Ep!TryUnlockCas, Ep!Goto
    <3>2. EpHeld(t) /\ todo = {}
      BY <2>0, <1>s DEF EpHeld
    <3> QED  BY <3>1, <3>2, <1>t, <1>o, EpHolds, Zenon
  <2> QED  BY <2>1, <2>2
<1>4. ASSUME NEW t \in Threads, Ep!ClearFlags(t) PROVE EpInv'
  <2>1. /\ ep_pc[t] = "serving" /\ EpHeld(t)
        /\ todo = {} /\ todo' = ep_lock \cap UnlockFlags
        /\ ep_lock' = ep_lock \ UnlockFlags /\ UNCHANGED <<ep_pc, lv, ep_owed>>
    BY <1>4, Zenon DEF Ep!ClearFlags, EpHeld
  <2>2. /\ ep_lock \cap UnlockFlags \in SUBSET UnlockFlags
        /\ ep_lock \ UnlockFlags \in SUBSET ep_lock /\ lv[t] \in SUBSET Ep!Bits
        /\ {"LOCKED", "NEED_WAKE"} \cap ep_lock \subseteq ep_lock \ UnlockFlags
        /\ ep_owed \subseteq (ep_lock \ UnlockFlags) \cup (ep_lock \cap UnlockFlags)
    BY <1>b, <1>o, <1>t, <2>1, Zenon
  <2>3. ep_pc' = [ep_pc EXCEPT ![t] = "serving"] /\ lv' = [lv EXCEPT ![t] = lv[t]]
    BY <2>1, <1>u
  <2> QED  BY <2>1, <2>2, <2>3, EpHolds, Zenon
<1>5. ASSUME NEW t \in Threads, Ep!Serve(t) PROVE EpInv'
  <2>1. /\ EpHeld(t) /\ ep_pc' = [ep_pc EXCEPT ![t] = "holder"] /\ lv' = [lv EXCEPT ![t] = {}]
        /\ ep_owed' = ep_owed \ (todo \ ep_lock) /\ todo' = {} /\ ep_lock' = ep_lock
    BY <1>5 DEF Ep!Serve, Ep!Goto, EpHeld
  <2>2. ep_owed' \subseteq ep_owed /\ ep_owed' \subseteq ep_lock \cup {}
    BY <2>1, <1>o
  <2> QED  BY <2>1, <2>2, EpHolds, Zenon
<1>6. ASSUME NEW t \in Threads, Ep!ClearOther(t) PROVE EpInv'
  <2>1. /\ ep_pc[t] = "holder" /\ EpHeld(t)
        /\ ep_lock' = ep_lock \ OtherFlags /\ UNCHANGED <<ep_pc, lv, todo, ep_owed>>
    BY <1>6, Zenon DEF Ep!ClearOther, EpHeld
  <2>2. /\ todo = {} /\ ep_lock \ OtherFlags \in SUBSET ep_lock /\ lv[t] \in SUBSET Ep!Bits
        /\ {"LOCKED", "NEED_WAKE"} \cap ep_lock \subseteq ep_lock \ OtherFlags
        /\ ep_owed \subseteq (ep_lock \ OtherFlags) \cup {}
    BY <1>b, <1>o, <1>s, <1>t, <2>1, Zenon
  <2>3. ep_pc' = [ep_pc EXCEPT ![t] = "holder"] /\ lv' = [lv EXCEPT ![t] = lv[t]]
    BY <2>1, <1>u
  <2> QED  BY <2>1, <2>2, <2>3, EpHolds, Zenon
<1>7. ASSUME NEW t \in Threads, Ep!Trylock(t) PROVE EpInv'
  <2>1. /\ "LOCKED" \notin ep_lock /\ ep_pc[t] \in {"idle", "woken"}
        /\ ep_pc' = [ep_pc EXCEPT ![t] = "holder"]
        /\ ep_lock' = ep_lock \cup {"LOCKED"} \cup {}
        /\ ep_owed' = ep_owed \cup ({} \cap UnlockFlags) /\ UNCHANGED <<lv, todo>>
    BY <1>7 DEF Ep!Trylock, Ep!Goto, Ep!Locked
  <2> QED  BY <2>1, EpTake, Zenon
<1>8. ASSUME NEW t \in Threads, Ep!LockSlow(t) PROVE EpInv'
  <2>1. /\ "LOCKED" \in ep_lock /\ ep_pc[t] \in {"idle", "woken"}
        /\ ep_pc' = [ep_pc EXCEPT ![t] = "sleeping"] /\ UNCHANGED <<lv, todo>>
        /\ ep_lock' = ep_lock \cup {"NEED_WAKE"} /\ ep_owed' = ep_owed
    BY <1>8 DEF Ep!LockSlow, Ep!Goto, Ep!Locked
  <2>2. /\ {"NEED_WAKE"} \in SUBSET Ep!Bits /\ "NEED_WAKE" \in {"NEED_WAKE"}
        /\ ep_owed' = ep_owed \cup ({"NEED_WAKE"} \cap UnlockFlags)
    BY <2>1, <1>b
  <2> QED  BY <2>1, <2>2, EpLeave, Zenon
<1>9. ASSUME NEW t \in Threads, NEW F \in Ep!FlagSets, Ep!HolderSetFlags(t, F) PROVE EpInv'
  <2>1. /\ F \in SUBSET Ep!Bits /\ EpHeld(t)
        /\ ep_lock' = ep_lock \cup F /\ ep_owed' = ep_owed \cup (F \cap UnlockFlags)
        /\ ep_pc' = [ep_pc EXCEPT ![t] = ep_pc[t]] /\ UNCHANGED <<lv, todo>>
    BY <1>9, <1>b, <1>u, Zenon DEF Ep!HolderSetFlags, Ep!Owe, Ep!FlagSets, EpHeld
  <2> QED  BY <2>1, <1>h, EpLeave, Zenon
<1>10. ASSUME NEW t \in Threads, NEW F \in Ep!FlagSets, Ep!SetFlagsIfLocked(t, F) PROVE EpInv'
  <2>1. /\ F \in SUBSET Ep!Bits /\ "LOCKED" \in ep_lock
        /\ ep_lock' = ep_lock \cup F /\ ep_owed' = ep_owed \cup (F \cap UnlockFlags)
        /\ ep_pc' = [ep_pc EXCEPT ![t] = ep_pc[t]] /\ UNCHANGED <<lv, todo>>
    BY <1>10, <1>b, <1>u DEF Ep!SetFlagsIfLocked, Ep!Owe, Ep!FlagSets, Ep!Locked
  <2> QED  BY <2>1, EpLeave, Zenon
<1>11. ASSUME NEW t \in Threads, NEW F \in Ep!FlagSets, Ep!TrylockAndSetFlags(t, F) PROVE EpInv'
  <2>0. /\ F \in SUBSET Ep!Flags /\ F \in SUBSET Ep!Bits
        /\ ep_lock' = ep_lock \cup {"LOCKED"} \cup F
        /\ ep_owed' = ep_owed \cup (F \cap UnlockFlags) /\ UNCHANGED <<lv, todo>>
    BY <1>11, <1>b, Zenon DEF Ep!TrylockAndSetFlags, Ep!Owe, Ep!FlagSets
  <2>1. CASE "LOCKED" \in ep_lock
    <3>1. ep_lock' = ep_lock \cup F /\ ep_pc' = [ep_pc EXCEPT ![t] = ep_pc[t]]
      BY <1>11, <2>0, <2>1, <1>u DEF Ep!TrylockAndSetFlags, Ep!Locked
    <3> QED  BY <3>1, <2>0, <2>1, EpLeave, Zenon
  <2>2. CASE "LOCKED" \notin ep_lock
    <3>1. ep_pc[t] = "idle" /\ ep_pc' = [ep_pc EXCEPT ![t] = "holder"]
      BY <1>11, <2>2 DEF Ep!TrylockAndSetFlags, Ep!Locked, Ep!Goto
    <3> QED  BY <3>1, <2>0, <2>2, EpTake, Zenon
  <2> QED  BY <2>1, <2>2
<1>12. ASSUME NEW t \in Threads, NEW F \in Ep!FlagSets, Ep!LockOrSetFlags(t, F) PROVE EpInv'
  <2>1. CASE "LOCKED" \in ep_lock
    <3>1. /\ F \in SUBSET Ep!Bits
          /\ ep_lock' = ep_lock \cup F /\ ep_owed' = ep_owed \cup (F \cap UnlockFlags)
          /\ ep_pc' = [ep_pc EXCEPT ![t] = ep_pc[t]] /\ UNCHANGED <<lv, todo>>
      BY <1>12, <2>1, <1>b, <1>u DEF Ep!LockOrSetFlags, Ep!Owe, Ep!FlagSets, Ep!Locked
    <3> QED  BY <3>1, <2>1, EpLeave, Zenon
  <2>2. CASE "LOCKED" \notin ep_lock
    <3>1. /\ ep_pc[t] = "idle" /\ ep_pc' = [ep_pc EXCEPT ![t] = "holder"]
          /\ ep_lock' = ep_lock \cup {"LOCKED"} \cup {}
          /\ ep_owed' = ep_owed \cup ({} \cap UnlockFlags) /\ UNCHANGED <<lv, todo>>
      BY <1>12, <2>2 DEF Ep!LockOrSetFlags, Ep!Locked, Ep!Goto
    <3> QED  BY <3>1, <2>2, EpTake, Zenon
  <2> QED  BY <2>1, <2>2
<1> QED
  BY <1>1, <1>2, <1>3, <1>4, <1>5, <1>6, <1>7, <1>8, <1>9, <1>10, <1>11, <1>12, Zenon
     DEF Ep!Next, Ep!Unlock

LEMMA EpStarts ==
  ASSUME Ep!Init
  PROVE  EpInv
<1>1. Ep!TypeOK
  BY DEF Ep!Init, Ep!TypeOK
<1>2. EpOne
  BY DEF Ep!Init, EpOne, EpHeld
<1>3. EpReadClean /\ Ep!NoJobForgotten /\ Ep!NoSleeperForgotten
  BY DEF Ep!Init, EpReadClean, Ep!NoJobForgotten, Ep!NoSleeperForgotten
<1> QED  BY <1>1, <1>2, <1>3 DEF EpInv

(* The lock bit says whether somebody holds the lock, and one at most does. *)
LEMMA EpOneHolder ==
  ASSUME EpInv
  PROVE  Ep!OneHolder
  BY DEF EpInv, EpOne, EpHeld, Ep!Holders, Ep!OneHolder, Ep!Locked

-----------------------------------------------------------------------------
(* The lock with a queue of work *)

(* The jobs of the list that starts at j, with the links f *)
Linked(f, j) ==
  {i \in Threads : \A S \in SUBSET Threads :
     j \in S \cup {Null} /\ (\A k \in S : f[k] \in S \cup {Null}) => i \in S}
Jobs(j) == Linked(wq_next, j)

WqHeld(t) == wq_pc[t] \in Wq!Holding

(* One holder, and a word that nobody holds is zero. *)
WqOne ==
  /\ \A t, u \in Threads : WqHeld(t) /\ WqHeld(u) => t = u
  /\ wq_lock.locked <=> \E t \in Threads : WqHeld(t)
  /\ ~wq_lock.locked => wq_lock = Wq!Zero

(* What a place in the code says of the local variables: a job about to be *)
(* queued is linked in front of the list that was read and is not queued;  *)
(* a thread has a batch just while it runs it.                             *)
WqPlaces ==
  \A t \in Threads :
    /\ wq_pc[t] = "cas" => v[t].locked /\ wq_next[t] = v[t].work
    /\ wq_pc[t] \in {"try_queue", "cas", "try_lock"} => t \notin queued
    /\ wq_pc[t] = "drain" => v[t].work # Null
    /\ batch[t] # Null <=> wq_pc[t] = "run"

(* The jobs handed over are those of the word and of the batches, apart    *)
(* from each other, and no list comes back to one of its jobs.             *)
WqJobs ==
  /\ \A i \in Threads : i \in queued <=>
       i \in Jobs(wq_lock.work) \/ \E t \in Threads : i \in Jobs(batch[t])
  /\ \A t \in Threads : Jobs(wq_lock.work) \cap Jobs(batch[t]) = {}
  /\ \A j \in queued : j \notin Jobs(wq_next[j])

WqInv == Wq!TypeOK /\ WqOne /\ WqPlaces /\ WqJobs

(* A list is the smallest set that holds its start and with a job the next *)
(* one: the empty list is empty, another is its first job and the rest.    *)
LEMMA LinkedFacts ==
  ASSUME Null \notin Threads, NEW f \in [Threads -> Threads \cup {Null}],
         NEW j \in Threads \cup {Null}
  PROVE  /\ Linked(f, j) \subseteq Threads
         /\ j = Null => Linked(f, j) = {}
         /\ \A k \in Linked(f, j) : f[k] \in Linked(f, j) \cup {Null}
         /\ \A S \in SUBSET Threads :
              j \in S \cup {Null} /\ (\A k \in S : f[k] \in S \cup {Null}) => Linked(f, j) \subseteq S
         /\ j # Null => j \in Linked(f, j) /\ Linked(f, j) = {j} \cup Linked(f, f[j])
<1>1. Linked(f, j) \subseteq Threads
  BY DEF Linked
<1>2. ASSUME j = Null PROVE Linked(f, j) = {}
  <2>1. {} \in SUBSET Threads /\ j \in {} \cup {Null} /\ \A k \in {} : f[k] \in {} \cup {Null}
    BY <1>2
  <2> QED  BY <2>1, Zenon DEF Linked
<1>3. ASSUME NEW n \in Threads \cup {Null}, NEW k \in Linked(f, n)
      PROVE  f[k] \in Linked(f, n) \cup {Null}
  BY <1>3 DEF Linked
<1>4. ASSUME NEW n \in Threads \cup {Null}, NEW S \in SUBSET Threads, n \in S \cup {Null},
             \A k \in S : f[k] \in S \cup {Null}
      PROVE  Linked(f, n) \subseteq S
  BY <1>4 DEF Linked
<1>5. ASSUME j # Null PROVE j \in Linked(f, j)
  BY <1>5 DEF Linked
<1>6. ASSUME j # Null PROVE Linked(f, j) = {j} \cup Linked(f, f[j])
  <2>0. j \in Threads /\ f[j] \in Threads \cup {Null}
    BY <1>6, Zenon
  <2>1. Linked(f, f[j]) \subseteq Linked(f, j)
    <3>1. f[j] \in Linked(f, j) \cup {Null}
      BY <1>3, <1>5, <1>6
    <3>2. Linked(f, j) \in SUBSET Threads /\ \A k \in Linked(f, j) : f[k] \in Linked(f, j) \cup {Null}
      BY <1>1, <1>3
    <3> QED  BY <2>0, <3>1, <3>2, <1>4
  <2>2. Linked(f, j) \subseteq {j} \cup Linked(f, f[j])
    <3> DEFINE S == {j} \cup Linked(f, f[j])
    <3>1. S \in SUBSET Threads /\ j \in S \cup {Null}
      BY <2>0 DEF Linked
    <3>2. f[j] \in S \cup {Null}
      BY <2>0 DEF Linked
    <3>3. \A k \in S : f[k] \in S \cup {Null}
      BY <3>2, <2>0, <1>3
    <3> HIDE DEF S
    <3>4. Linked(f, j) \subseteq S
      BY <3>1, <3>3, <1>4
    <3> QED  BY <3>4 DEF S
  <2> QED  BY <2>1, <2>2, <1>5, <1>6
<1> QED  BY <1>1, <1>2, <1>3, <1>4, <1>5, <1>6, Zenon

(* A list does not depend on the links of jobs that are not in it. *)
LEMMA LinkedFrame ==
  ASSUME Null \notin Threads, NEW f \in [Threads -> Threads \cup {Null}],
         NEW g \in [Threads -> Threads \cup {Null}], NEW j \in Threads \cup {Null},
         \A k \in Linked(f, j) : g[k] = f[k]
  PROVE  Linked(g, j) = Linked(f, j)
<1>1. \A h \in {f, g} :
        /\ Linked(h, j) \subseteq Threads
        /\ j \in Linked(h, j) \cup {Null}
        /\ \A k \in Linked(h, j) : h[k] \in Linked(h, j) \cup {Null}
        /\ \A S \in SUBSET Threads :
             j \in S \cup {Null} /\ (\A k \in S : h[k] \in S \cup {Null}) => Linked(h, j) \subseteq S
  BY LinkedFacts, Zenon
<1>2. Linked(g, j) \subseteq Linked(f, j)
  BY <1>1, Zenon
<1>3. Linked(f, j) \subseteq Linked(g, j)
  BY <1>1, <1>2, Zenon
<1> QED  BY <1>2, <1>3

(* What the invariant says of the types and the lists *)
LEMMA WqTypes ==
  ASSUME NamesAssumption, WqInv
  PROVE  /\ Null \notin Threads /\ Wq!JobOrNull = Threads \cup {Null}
         /\ wq_lock \in Wq!Words /\ wq_lock.work \in Threads \cup {Null}
         /\ wq_next \in [Threads -> Threads \cup {Null}]
         /\ batch \in [Threads -> Threads \cup {Null}]
         /\ v \in [Threads -> Wq!Words] /\ ret \in [Threads -> {"hold", "slow"}]
         /\ queued \subseteq Threads
         /\ wq_pc \in [Threads -> {"idle", "wait", "asleep", "try_queue", "cas", "try_lock"}
                                    \cup Wq!Holding]
  BY NamesAssumption, Zenon DEF WqInv, Wq!TypeOK, Wq!JobOrNull, Wq!Words

(* A queued job is followed by queued jobs only. *)
LEMMA QueuedClosed ==
  ASSUME NamesAssumption, WqInv, NEW j \in queued
  PROVE  Jobs(j) \subseteq queued /\ Jobs(wq_next[j]) \subseteq queued
<1>t. /\ Null \notin Threads /\ wq_next \in [Threads -> Threads \cup {Null}]
      /\ wq_lock.work \in Threads \cup {Null} /\ batch \in [Threads -> Threads \cup {Null}]
      /\ j \in Threads /\ queued \subseteq Threads
  BY WqTypes, Zenon
<1>1. \A k \in queued : wq_next[k] \in queued \cup {Null}
  <2> SUFFICES ASSUME NEW k \in queued PROVE wq_next[k] \in queued \cup {Null}
    OBVIOUS
  <2>0. wq_next[k] \in Threads \cup {Null}
    BY <1>t, Zenon
  <2>1. CASE k \in Jobs(wq_lock.work)
    <3>0. PICK f \in [Threads -> Threads \cup {Null}], w \in Threads \cup {Null} :
            f = wq_next /\ w = wq_lock.work
      BY <1>t, Zenon
    <3>1. wq_next[k] \in Jobs(wq_lock.work) \cup {Null}
      <4>1. \A i \in Linked(f, w) : f[i] \in Linked(f, w) \cup {Null}
        BY <1>t, LinkedFacts, Zenon
      <4> QED  BY <2>1, <3>0, <4>1, Zenon DEF Jobs
    <3> QED  BY <2>0, <3>1, Zenon DEF WqInv, WqJobs
  <2>2. ASSUME NEW t \in Threads, k \in Jobs(batch[t]) PROVE wq_next[k] \in queued \cup {Null}
    <3>1. wq_next[k] \in Jobs(batch[t]) \cup {Null}
      BY <1>t, <2>2, LinkedFacts, Zenon DEF Jobs
    <3> QED  BY <2>0, <3>1, Zenon DEF WqInv, WqJobs
  <2> QED  BY <1>t, <2>1, <2>2, Zenon DEF WqInv, WqJobs
<1>2. ASSUME NEW k \in queued \cup {Null} PROVE Jobs(k) \subseteq queued
  <2>1. k \in Threads \cup {Null} /\ queued \in SUBSET Threads
    BY <1>t
  <2> QED  BY <1>t, <1>1, <2>1, LinkedFacts, Zenon DEF Jobs
<1> QED  BY <1>1, <1>2

(* A step that leaves the list of the word, the links and the batches      *)
(* alone.                                                                  *)
LEMMA JobsUntouched ==
  ASSUME WqJobs, UNCHANGED <<wq_next, batch, queued>>, wq_lock'.work = wq_lock.work
  PROVE  WqJobs'
  BY Zenon DEF WqJobs, Jobs

(* oo_wqlock_try_queue links a job that is not queued. *)
LEMMA JobsLinked ==
  ASSUME NamesAssumption, WqInv, NEW t \in Threads, t \notin queued,
         NEW j \in Threads \cup {Null},
         wq_next' = [wq_next EXCEPT ![t] = j], UNCHANGED <<batch, queued, wq_lock>>
  PROVE  WqJobs'
<1>t. /\ Null \notin Threads /\ wq_next \in [Threads -> Threads \cup {Null}]
      /\ wq_lock.work \in Threads \cup {Null} /\ batch \in [Threads -> Threads \cup {Null}]
      /\ queued \subseteq Threads
  BY WqTypes, Zenon
<1>1. wq_next' \in [Threads -> Threads \cup {Null}] /\ \A k \in queued : wq_next'[k] = wq_next[k]
  BY <1>t
<1>2. ASSUME NEW k \in Threads \cup {Null}, Jobs(k) \subseteq queued
      PROVE  Linked(wq_next', k) = Jobs(k)
  <2>1. PICK g \in [Threads -> Threads \cup {Null}] : g = wq_next'
    BY <1>1, Zenon
  <2>2. \A i \in Linked(wq_next, k) : g[i] = wq_next[i]
    BY <1>1, <1>2, <2>1, Zenon DEF Jobs
  <2>3. Linked(g, k) = Linked(wq_next, k)
    <3>1. PICK f \in [Threads -> Threads \cup {Null}] : f = wq_next
      BY <1>t, Zenon
    <3>2. \A i \in Linked(f, k) : g[i] = f[i]
      BY <2>2, <3>1, Zenon
    <3>3. Linked(g, k) = Linked(f, k)
      BY <1>t, <3>2, LinkedFrame
    <3> QED  BY <3>1, <3>3, Zenon
  <2> QED  BY <2>1, <2>3 DEF Jobs
<1>3. Jobs(wq_lock.work) \subseteq queued /\ \A u \in Threads : Jobs(batch[u]) \subseteq queued
  <2>1. \A k : Jobs(k) \subseteq Threads
    BY DEF Jobs, Linked
  <2> QED  BY <2>1, Zenon DEF WqInv, WqJobs
<1>4. /\ Linked(wq_next', wq_lock.work) = Jobs(wq_lock.work)
      /\ \A u \in Threads : Linked(wq_next', batch[u]) = Jobs(batch[u])
  BY <1>t, <1>2, <1>3, Zenon
<1>5. \A k \in queued : Linked(wq_next', wq_next'[k]) = Jobs(wq_next[k])
  BY <1>t, <1>1, <1>2, QueuedClosed, Zenon
<1> QED  BY <1>4, <1>5, Zenon DEF WqInv, WqJobs, Jobs

(* The swap of oo_wqlock_try_queue puts the job in front of the list. *)
LEMMA JobsHanded ==
  ASSUME NamesAssumption, WqInv, NEW t \in Threads, t \notin queued,
         wq_next[t] = wq_lock.work, wq_lock'.work = t, queued' = queued \cup {t},
         UNCHANGED <<wq_next, batch>>
  PROVE  WqJobs'
<1>t. /\ Null \notin Threads /\ wq_next \in [Threads -> Threads \cup {Null}]
      /\ t \in Threads \cup {Null} /\ t # Null
  BY WqTypes, Zenon
<1>1. Jobs(t) = {t} \cup Jobs(wq_lock.work)
  <2>1. PICK f \in [Threads -> Threads \cup {Null}] : f = wq_next
    BY <1>t, Zenon
  <2>2. Linked(f, t) = {t} \cup Linked(f, f[t])
    BY <1>t, LinkedFacts
  <2> QED  BY <2>1, <2>2, Zenon DEF Jobs
<1>2. /\ t \notin Jobs(wq_lock.work) /\ \A u \in Threads : t \notin Jobs(batch[u])
  BY Zenon DEF WqInv, WqJobs
<1>3. \A k : Jobs(k)' = Linked(wq_next, k) /\ Jobs(k) = Linked(wq_next, k)
  BY Zenon DEF Jobs
<1>4. WqJobs' = (/\ \A i \in Threads : i \in queued' <=>
                      i \in Jobs(t) \/ \E u \in Threads : i \in Jobs(batch[u])
                 /\ \A u \in Threads : Jobs(t) \cap Jobs(batch[u]) = {}
                 /\ \A j \in queued' : j \notin Jobs(wq_next[j]))
  BY Zenon DEF WqJobs, Jobs
<1>5. /\ \A i \in Threads : i \in queued <=>
           i \in Jobs(wq_lock.work) \/ \E u \in Threads : i \in Jobs(batch[u])
      /\ \A u \in Threads : Jobs(wq_lock.work) \cap Jobs(batch[u]) = {}
      /\ \A j \in queued : j \notin Jobs(wq_next[j])
  BY Zenon DEF WqInv, WqJobs
<1>6. \A i \in Threads : i \in queued' <=> i \in Jobs(t) \/ \E u \in Threads : i \in Jobs(batch[u])
  BY <1>1, <1>5, Zenon
<1>7. \A u \in Threads : Jobs(t) \cap Jobs(batch[u]) = {}
  <2> TAKE u \in Threads
  <2>1. Jobs(wq_lock.work) \cap Jobs(batch[u]) = {} /\ t \notin Jobs(batch[u])
    BY <1>2, <1>5, Zenon
  <2> QED  BY <1>1, <2>1, Zenon
<1>8. \A j \in queued' : j \notin Jobs(wq_next[j])
  BY <1>2, <1>5, Zenon
<1> QED  BY <1>4, <1>6, <1>7, <1>8, Zenon

(* The holder takes the list of the word as its batch. *)
LEMMA JobsTaken ==
  ASSUME NamesAssumption, WqInv, NEW t \in Threads, \A u \in Threads : batch[u] = Null,
         batch' = [batch EXCEPT ![t] = wq_lock.work], wq_lock'.work = Null,
         UNCHANGED <<wq_next, queued>>
  PROVE  WqJobs'
<1>t. /\ Null \notin Threads /\ wq_next \in [Threads -> Threads \cup {Null}]
      /\ batch \in [Threads -> Threads \cup {Null}]
  BY WqTypes, Zenon
<1>1. Jobs(Null) = {}
  BY <1>t, LinkedFacts, Zenon DEF Jobs
<1>2. batch'[t] = wq_lock.work /\ \A u \in Threads \ {t} : batch'[u] = Null
  BY <1>t, Zenon
<1>3. WqJobs' = (/\ \A i \in Threads : i \in queued <=>
                      i \in Jobs(Null) \/ \E u \in Threads : i \in Jobs(batch'[u])
                 /\ \A u \in Threads : Jobs(Null) \cap Jobs(batch'[u]) = {}
                 /\ \A j \in queued : j \notin Jobs(wq_next[j]))
  BY Zenon DEF WqJobs, Jobs
<1>4. \A i \in Threads : i \in queued <=> i \in Jobs(wq_lock.work)
  BY <1>1, Zenon DEF WqInv, WqJobs
<1> QED  BY <1>1, <1>2, <1>3, <1>4, Zenon DEF WqInv, WqJobs

(* oo_wqlock_work_do runs the first job of the batch, which is not in the  *)
(* rest of it.                                                             *)
LEMMA JobRun ==
  ASSUME NamesAssumption, WqInv, NEW t \in Threads, NEW j \in Threads, batch[t] = j,
         \A u \in Threads \ {t} : batch[u] = Null,
         batch' = [batch EXCEPT ![t] = wq_next[j]], queued' = queued \ {j},
         UNCHANGED <<wq_next, wq_lock>>
  PROVE  WqJobs'
<1>t. /\ Null \notin Threads /\ wq_next \in [Threads -> Threads \cup {Null}]
      /\ batch \in [Threads -> Threads \cup {Null}] /\ j # Null /\ j \in Threads \cup {Null}
  BY WqTypes, Zenon
<1>1. Jobs(j) = {j} \cup Jobs(wq_next[j]) /\ j \in Jobs(j) /\ Jobs(Null) = {}
  BY <1>t, LinkedFacts, Zenon DEF Jobs
<1>2. j \in queued /\ j \notin Jobs(wq_next[j]) /\ j \notin Jobs(wq_lock.work)
  BY <1>1, Zenon DEF WqInv, WqJobs
<1>3. batch'[t] = wq_next[j] /\ \A u \in Threads \ {t} : batch'[u] = Null
  BY <1>t
<1>4. WqJobs' = (/\ \A i \in Threads : i \in queued' <=>
                      i \in Jobs(wq_lock.work) \/ \E u \in Threads : i \in Jobs(batch'[u])
                 /\ \A u \in Threads : Jobs(wq_lock.work) \cap Jobs(batch'[u]) = {}
                 /\ \A k \in queued' : k \notin Jobs(wq_next[k]))
  BY Zenon DEF WqJobs, Jobs
<1>5. \A i \in Threads : i \in queued <=> i \in Jobs(wq_lock.work) \/ i \in Jobs(j)
  <2>1. \A i \in Threads : i \in queued <=>
          i \in Jobs(wq_lock.work) \/ \E u \in Threads : i \in Jobs(batch[u])
    BY Zenon DEF WqInv, WqJobs
  <2>2. \A u \in Threads : Jobs(batch[u]) = Jobs(j) \/ Jobs(batch[u]) = {}
    BY <1>1, Zenon
  <2>3. Jobs(batch[t]) = Jobs(j)
    BY Zenon
  <2> QED  BY <2>1, <2>2, <2>3, Zenon
<1>6. \A i \in Threads : i \in queued' <=> i \in Jobs(wq_lock.work) \/ i \in Jobs(wq_next[j])
  BY <1>1, <1>2, <1>5, Zenon
<1>7. \A u \in Threads : Jobs(wq_lock.work) \cap Jobs(batch[u]) = {}
  BY Zenon DEF WqInv, WqJobs
<1>8. \A k \in queued : k \notin Jobs(wq_next[k])
  BY Zenon DEF WqInv, WqJobs
<1>9. \A i \in Threads : (\E u \in Threads : i \in Jobs(batch'[u])) <=> i \in Jobs(wq_next[j])
  BY <1>1, <1>3, Zenon
<1>10. \A u \in Threads : Jobs(wq_lock.work) \cap Jobs(batch'[u]) = {}
  <2>1. Jobs(wq_lock.work) \cap Jobs(j) = {}
    BY <1>7, Zenon
  <2>2. \A u \in Threads : Jobs(batch'[u]) = Jobs(wq_next[j]) \/ Jobs(batch'[u]) = {}
    BY <1>1, <1>3, Zenon
  <2> QED  BY <1>1, <2>1, <2>2, Zenon
<1> QED  BY <1>4, <1>6, <1>8, <1>9, <1>10, Zenon

(* A thread takes the free word. *)
LEMMA WqTake ==
  ASSUME NamesAssumption, WqInv, NEW t \in Threads, wq_pc[t] \in {"idle", "wait", "try_lock"},
         wq_lock = Wq!Zero, wq_lock' = Wq!Locked, wq_pc' = [wq_pc EXCEPT ![t] = "hold"],
         UNCHANGED <<wq_next, v, batch, ret, queued>>
  PROVE  WqInv'
<1>t. /\ wq_lock \in Wq!Words /\ queued \subseteq Threads
      /\ wq_pc \in [Threads -> {"idle", "wait", "asleep", "try_queue", "cas", "try_lock"}
                                 \cup Wq!Holding]
  BY WqTypes, Zenon
<1>w. /\ Wq!Locked \in Wq!Words /\ Wq!Locked.locked /\ Wq!Locked.work = Wq!Zero.work
      /\ ~Wq!Zero.locked
  BY Zenon DEF Wq!Locked, Wq!Zero, Wq!Words, Wq!JobOrNull
<1>1. Wq!TypeOK'
  BY <1>t, <1>w, Zenon DEF WqInv, Wq!TypeOK, Wq!Holding
<1>2. \A u \in Threads : ~WqHeld(u)
  BY <1>w, Zenon DEF WqInv, WqOne
<1>3. \A u \in Threads : WqHeld(u)' <=> u = t
  BY <1>2, <1>t, Zenon DEF WqHeld, Wq!Holding
<1>4. WqOne'
  BY <1>3, <1>w DEF WqOne
<1>5. WqPlaces'
  BY <1>t, Zenon DEF WqInv, WqPlaces
<1>6. WqJobs'
  BY <1>w, JobsUntouched, Zenon DEF WqInv
<1> QED  BY <1>1, <1>4, <1>5, <1>6 DEF WqInv

(* A thread goes to a place where it holds the lock just when it held it   *)
(* before, and no job moves: a lock that is refused, a word that is read,  *)
(* a swap that fails.                                                      *)
LEMMA WqMove ==
  ASSUME NamesAssumption, WqInv, NEW t \in Threads, NEW w \in Wq!Words,
         NEW p \in {"idle", "wait", "asleep", "try_queue", "cas", "try_lock"} \cup Wq!Holding,
         wq_pc' = [wq_pc EXCEPT ![t] = p], v' = [v EXCEPT ![t] = w],
         p \in Wq!Holding <=> WqHeld(t), p # "run", wq_pc[t] # "run",
         p = "cas" => w.locked /\ wq_next[t] = w.work,
         p \in {"try_queue", "cas", "try_lock"} => t \notin queued,
         p = "drain" => w.work # Null,
         wq_lock' \in Wq!Words, wq_lock'.work = wq_lock.work, wq_lock'.locked = wq_lock.locked,
         wq_lock.locked \/ wq_lock' = wq_lock,
         UNCHANGED <<wq_next, batch, ret, queued>>
  PROVE  WqInv'
<1>t. /\ wq_lock \in Wq!Words /\ queued \subseteq Threads /\ v \in [Threads -> Wq!Words]
      /\ wq_pc \in [Threads -> {"idle", "wait", "asleep", "try_queue", "cas", "try_lock"}
                                 \cup Wq!Holding]
  BY WqTypes, Zenon
<1>1. Wq!TypeOK'
  BY <1>t, Zenon DEF WqInv, Wq!TypeOK
<1>2. \A u \in Threads : WqHeld(u)' <=> WqHeld(u)
  BY <1>t, Zenon DEF WqHeld
<1>3. WqOne'
  BY <1>2, Zenon DEF WqInv, WqOne
<1>4. WqPlaces'
  BY <1>t, Zenon DEF WqInv, WqPlaces
<1>5. WqJobs'
  BY JobsUntouched, Zenon DEF WqInv
<1> QED  BY <1>1, <1>3, <1>4, <1>5, Zenon DEF WqInv

(* The holder takes all the jobs of the word: the swap of                  *)
(* oo_wqlock_try_drain_work, and oo_wqlock_unlock_slow.                    *)
LEMMA WqGrab ==
  ASSUME NamesAssumption, WqInv, NEW t \in Threads, wq_pc[t] \in {"drain", "slow"},
         NEW w \in Wq!Words, NEW r \in {"hold", "slow"},
         wq_lock.work # Null, wq_lock' = [wq_lock EXCEPT !.work = Null],
         wq_pc' = [wq_pc EXCEPT ![t] = "run"], batch' = [batch EXCEPT ![t] = wq_lock.work],
         v' = [v EXCEPT ![t] = w], ret' = [ret EXCEPT ![t] = r], UNCHANGED <<wq_next, queued>>
  PROVE  WqInv'
<1>t. /\ wq_lock \in Wq!Words /\ queued \subseteq Threads /\ v \in [Threads -> Wq!Words]
      /\ wq_lock.work \in Threads \cup {Null} /\ batch \in [Threads -> Threads \cup {Null}]
      /\ Wq!JobOrNull = Threads \cup {Null} /\ ret \in [Threads -> {"hold", "slow"}]
      /\ wq_pc \in [Threads -> {"idle", "wait", "asleep", "try_queue", "cas", "try_lock"}
                                 \cup Wq!Holding]
  BY WqTypes
<1>w. wq_lock' \in Wq!Words /\ wq_lock'.work = Null /\ wq_lock'.locked = wq_lock.locked
  BY <1>t DEF Wq!Words
<1>1. Wq!TypeOK'
  <2>1. /\ wq_pc' \in [Threads -> {"idle", "wait", "asleep", "try_queue", "cas", "try_lock"}
                                    \cup Wq!Holding]
        /\ batch' \in [Threads -> Wq!JobOrNull]
        /\ v' \in [Threads -> Wq!Words] /\ ret' \in [Threads -> {"hold", "slow"}]
    BY <1>t DEF Wq!Holding
  <2> QED  BY <2>1, <1>w DEF WqInv, Wq!TypeOK
<1>2. WqHeld(t) /\ \A u \in Threads : WqHeld(u)' <=> WqHeld(u)
  BY <1>t DEF WqHeld, Wq!Holding
<1>3. WqOne'
  BY <1>2, <1>w DEF WqInv, WqOne
<1>4. WqPlaces'
  BY <1>t DEF WqInv, WqPlaces
<1>5. \A u \in Threads : batch[u] = Null
  <2>1. \A u \in Threads : wq_pc[u] # "run"
    BY <1>2 DEF WqInv, WqOne, WqHeld, Wq!Holding
  <2> QED  BY <2>1 DEF WqInv, WqPlaces
<1>6. WqJobs'
  BY <1>5, <1>w, JobsTaken, Zenon
<1> QED  BY <1>1, <1>3, <1>4, <1>6 DEF WqInv

(* The holder lets go of a word without jobs; sleepers may be woken. *)
LEMMA WqLetGo ==
  ASSUME NamesAssumption, WqInv, NEW t \in Threads, wq_pc[t] \in {"hold", "slow"},
         wq_lock.work = Null, wq_lock' = Wq!Zero,
         wq_pc' \in [Threads -> {"idle", "wait", "asleep", "try_queue", "cas", "try_lock"}
                                  \cup Wq!Holding],
         wq_pc'[t] = "idle",
         \A u \in Threads \ {t} : \/ wq_pc'[u] = wq_pc[u]
                                  \/ wq_pc[u] = "asleep" /\ wq_pc'[u] = "wait",
         UNCHANGED <<wq_next, v, batch, ret, queued>>
  PROVE  WqInv'
<1>w. Wq!Zero \in Wq!Words /\ Wq!Zero.work = Null /\ ~Wq!Zero.locked
  BY Zenon DEF Wq!Zero, Wq!Words, Wq!JobOrNull
<1>1. Wq!TypeOK'
  BY <1>w, Zenon DEF WqInv, Wq!TypeOK
<1>2. WqHeld(t)
  BY Zenon DEF WqHeld, Wq!Holding
<1>3. \A u \in Threads : ~WqHeld(u)'
  BY <1>2, Zenon DEF WqInv, WqOne, WqHeld, Wq!Holding
<1>4. WqOne'
  BY <1>3, <1>w, Zenon DEF WqOne
<1>5. WqPlaces'
  <2> SUFFICES ASSUME NEW u \in Threads
               PROVE  /\ wq_pc'[u] = "cas" => v[u].locked /\ wq_next[u] = v[u].work
                      /\ wq_pc'[u] \in {"try_queue", "cas", "try_lock"} => u \notin queued
                      /\ wq_pc'[u] = "drain" => v[u].work # Null
                      /\ batch[u] # Null <=> wq_pc'[u] = "run"
    BY Zenon DEF WqPlaces
  <2>1. /\ wq_pc[u] = "cas" => v[u].locked /\ wq_next[u] = v[u].work
        /\ wq_pc[u] \in {"try_queue", "cas", "try_lock"} => u \notin queued
        /\ wq_pc[u] = "drain" => v[u].work # Null
        /\ batch[u] # Null <=> wq_pc[u] = "run"
    BY Zenon DEF WqInv, WqPlaces
  <2>2. CASE u = t
    BY <2>1, <2>2, Zenon
  <2>3. CASE u # t
    <3>1. \/ wq_pc'[u] = wq_pc[u]
          \/ wq_pc[u] = "asleep" /\ wq_pc'[u] = "wait"
      BY <2>3, Zenon
    <3> QED  BY <2>1, <3>1, Zenon
  <2> QED  BY <2>2, <2>3
<1>6. WqJobs'
  BY <1>w, JobsUntouched, Zenon DEF WqInv
<1> QED  BY <1>1, <1>4, <1>5, <1>6, Zenon DEF WqInv

(* Every step of a thread keeps the invariant. *)
LEMMA WqStep ==
  ASSUME NamesAssumption, WqInv, [Wq!Next]_wqVars
  PROVE  WqInv'
<1>t. /\ Null \notin Threads /\ Wq!JobOrNull = Threads \cup {Null}
      /\ wq_lock \in Wq!Words /\ wq_lock.work \in Threads \cup {Null}
      /\ wq_next \in [Threads -> Threads \cup {Null}]
      /\ batch \in [Threads -> Threads \cup {Null}]
      /\ v \in [Threads -> Wq!Words] /\ ret \in [Threads -> {"hold", "slow"}]
      /\ queued \subseteq Threads
      /\ wq_pc \in [Threads -> {"idle", "wait", "asleep", "try_queue", "cas", "try_lock"}
                                 \cup Wq!Holding]
  BY WqTypes, Zenon
<1>w. Wq!Zero \in Wq!Words /\ ~Wq!Zero.locked /\ Wq!Zero.work = Null /\ Wq!Locked.work = Null
  BY DEF Wq!Zero, Wq!Locked, Wq!Words, Wq!JobOrNull
<1>z. wq_lock # Wq!Zero => wq_lock.locked
  BY DEF WqInv, WqOne
<1>h. Wq!Holding = {"hold", "drain", "run", "slow"}
  BY DEF Wq!Holding
<1>u. \A t \in Threads : v = [v EXCEPT ![t] = v[t]] /\ ret = [ret EXCEPT ![t] = ret[t]]
  BY <1>t, Zenon
<1>q. \A t \in Threads :
        /\ wq_pc[t] \in {"try_queue", "cas", "try_lock"} => t \notin queued
        /\ v[t] \in Wq!Words /\ ret[t] \in {"hold", "slow"}
  BY <1>t, Zenon DEF WqInv, WqPlaces
<1>1. CASE UNCHANGED wqVars
  BY <1>1, Zenon DEF wqVars, WqInv, Wq!TypeOK, WqOne, WqHeld, WqPlaces, WqJobs, Jobs
<1>2. ASSUME NEW t \in Threads, Wq!Lock(t) PROVE WqInv'
  <2>0. wq_pc[t] = "idle" /\ UNCHANGED <<wq_next, v, batch, ret, queued>>
    BY <1>2 DEF Wq!Lock, Wq!Goto, Wq!Rest
  <2>1. CASE wq_lock = Wq!Zero
    <3>1. wq_pc' = [wq_pc EXCEPT ![t] = "hold"] /\ wq_lock' = Wq!Locked
      BY <1>2, <2>1 DEF Wq!Lock, Wq!Goto
    <3> QED  BY <2>0, <2>1, <3>1, WqTake, Zenon
  <2>2. CASE wq_lock # Wq!Zero
    <3>1. wq_pc' = [wq_pc EXCEPT ![t] = "wait"] /\ wq_lock' = wq_lock
      BY <1>2, <2>2 DEF Wq!Lock, Wq!Goto
    <3>2. ~WqHeld(t) /\ "wait" \notin Wq!Holding
      BY <2>0, <1>h DEF WqHeld
    <3> QED  BY <2>0, <3>1, <3>2, <1>t, <1>u, <1>q, WqMove, Zenon
  <2> QED  BY <2>1, <2>2
<1>3. ASSUME NEW t \in Threads, Wq!LockSlow(t) PROVE WqInv'
  <2>0. wq_pc[t] = "wait" /\ UNCHANGED <<wq_next, v, batch, ret, queued>>
    BY <1>3 DEF Wq!LockSlow, Wq!Goto, Wq!Rest
  <2>1. CASE wq_lock = Wq!Zero
    <3>1. wq_pc' = [wq_pc EXCEPT ![t] = "hold"] /\ wq_lock' = Wq!Locked
      BY <1>3, <2>1 DEF Wq!LockSlow, Wq!Goto
    <3> QED  BY <2>0, <2>1, <3>1, WqTake, Zenon
  <2>2. CASE wq_lock # Wq!Zero
    <3>1. wq_pc' = [wq_pc EXCEPT ![t] = "asleep"] /\ wq_lock' = [wq_lock EXCEPT !.wake = TRUE]
      BY <1>3, <2>2 DEF Wq!LockSlow, Wq!Goto
    <3>2. ~WqHeld(t) /\ "asleep" \notin Wq!Holding
      BY <2>0, <1>h DEF WqHeld
    <3>3. wq_lock' \in Wq!Words /\ wq_lock'.work = wq_lock.work /\ wq_lock'.locked = wq_lock.locked
      BY <3>1, <1>t, Zenon DEF Wq!Words
    <3> QED  BY <2>0, <2>2, <3>1, <3>2, <3>3, <1>u, <1>q, <1>z, WqMove, Zenon
  <2> QED  BY <2>1, <2>2
<1>4. ASSUME NEW t \in Threads, Wq!LockOrQueue(t) PROVE WqInv'
  <2>1. /\ wq_pc[t] = "idle" /\ t \notin queued /\ wq_pc' = [wq_pc EXCEPT ![t] = "try_queue"]
        /\ UNCHANGED <<wq_lock, wq_next, v, batch, ret, queued>>
    BY <1>4 DEF Wq!LockOrQueue, Wq!Goto, Wq!Rest
  <2>2. ~WqHeld(t) /\ "try_queue" \notin Wq!Holding
    BY <2>1, <1>h DEF WqHeld
  <2> QED  BY <2>1, <2>2, <1>t, <1>u, <1>q, WqMove, Zenon
<1>5. ASSUME NEW t \in Threads, Wq!TryQueue(t) PROVE WqInv'
  <2>0. wq_pc[t] = "try_queue" /\ t \notin queued /\ UNCHANGED <<wq_lock, batch, ret, queued>>
    BY <1>5, <1>q, Zenon DEF Wq!TryQueue, Wq!Goto
  <2>h. ~WqHeld(t) /\ "cas" \notin Wq!Holding /\ "try_lock" \notin Wq!Holding
    BY <2>0, <1>h DEF WqHeld
  <2>1. CASE ~wq_lock.locked
    <3>1. wq_pc' = [wq_pc EXCEPT ![t] = "try_lock"] /\ v' = v /\ wq_next' = wq_next
      BY <1>5, <2>1 DEF Wq!TryQueue, Wq!Goto
    <3> QED  BY <2>0, <2>h, <3>1, <1>t, <1>u, <1>q, WqMove, Zenon
  <2>2. CASE wq_lock.locked
    <3>1. /\ wq_pc' = [wq_pc EXCEPT ![t] = "cas"] /\ v' = [v EXCEPT ![t] = wq_lock]
          /\ wq_next' = [wq_next EXCEPT ![t] = wq_lock.work]
      BY <1>5, <2>2 DEF Wq!TryQueue, Wq!Goto
    <3>2. Wq!TypeOK'
      BY <1>t, <2>0, <3>1, Zenon DEF WqInv, Wq!TypeOK
    <3>3. \A u \in Threads : WqHeld(u)' <=> WqHeld(u)
      BY <1>t, <2>h, <3>1, Zenon DEF WqHeld
    <3>4. WqOne'
      BY <2>0, <3>3, Zenon DEF WqInv, WqOne
    <3>5. WqPlaces'
      BY <1>t, <2>0, <2>2, <3>1, Zenon DEF WqInv, WqPlaces
    <3>6. WqJobs'
      BY <1>t, <2>0, <3>1, JobsLinked, Zenon
    <3> QED  BY <3>2, <3>4, <3>5, <3>6, Zenon DEF WqInv
  <2> QED  BY <2>1, <2>2
<1>6. ASSUME NEW t \in Threads, Wq!TryQueueCas(t) PROVE WqInv'
  <2>0. /\ wq_pc[t] = "cas" /\ t \notin queued
        /\ v' = [v EXCEPT ![t] = Wq!Zero] /\ UNCHANGED <<wq_next, batch, ret>>
    BY <1>6, <1>q DEF Wq!TryQueueCas
  <2>h. ~WqHeld(t) /\ "idle" \notin Wq!Holding /\ "try_lock" \notin Wq!Holding
    BY <2>0, <1>h DEF WqHeld
  <2>1. CASE wq_lock # v[t]
    <3>1. wq_pc' = [wq_pc EXCEPT ![t] = "try_lock"] /\ UNCHANGED <<wq_lock, queued>>
      BY <1>6, <2>1, Zenon DEF Wq!TryQueueCas, Wq!Goto
    <3> QED  BY <2>0, <2>h, <3>1, <1>t, <1>w, WqMove, Zenon
  <2>2. CASE wq_lock = v[t]
    <3>1. /\ wq_pc' = [wq_pc EXCEPT ![t] = "idle"] /\ wq_lock' = [wq_lock EXCEPT !.work = t]
          /\ queued' = queued \cup {t}
      BY <1>6, <2>2 DEF Wq!TryQueueCas, Wq!Goto
    <3>2. wq_lock.locked /\ wq_next[t] = wq_lock.work
      BY <2>0, <2>2, Zenon DEF WqInv, WqPlaces
    <3>3. wq_lock' \in Wq!Words /\ wq_lock'.work = t /\ wq_lock'.locked = wq_lock.locked
      BY <1>t, <3>1 DEF Wq!Words
    <3>4. Wq!TypeOK'
      BY <1>t, <1>w, <2>0, <3>1, <3>3 DEF WqInv, Wq!TypeOK
    <3>5. \A u \in Threads : WqHeld(u)' <=> WqHeld(u)
      BY <1>t, <2>h, <3>1 DEF WqHeld
    <3>6. WqOne'
      BY <3>2, <3>3, <3>5, Zenon DEF WqInv, WqOne
    <3>7. WqPlaces'
      BY <1>t, <2>0, <3>1 DEF WqInv, WqPlaces
    <3>8. WqJobs'
      BY <2>0, <3>1, <3>2, <3>3, JobsHanded, Zenon
    <3> QED  BY <3>4, <3>6, <3>7, <3>8 DEF WqInv
  <2> QED  BY <2>1, <2>2, Zenon
<1>7. ASSUME NEW t \in Threads, Wq!TryLock(t) PROVE WqInv'
  <2>0. wq_pc[t] = "try_lock" /\ t \notin queued /\ UNCHANGED <<wq_next, v, batch, ret, queued>>
    BY <1>7, <1>q, Zenon DEF Wq!TryLock, Wq!Goto, Wq!Rest
  <2>1. CASE wq_lock = Wq!Zero
    <3>1. wq_pc' = [wq_pc EXCEPT ![t] = "hold"] /\ wq_lock' = Wq!Locked
      BY <1>7, <2>1 DEF Wq!TryLock, Wq!Goto
    <3> QED  BY <2>0, <2>1, <3>1, WqTake, Zenon
  <2>2. CASE wq_lock # Wq!Zero
    <3>1. wq_pc' = [wq_pc EXCEPT ![t] = "try_queue"] /\ wq_lock' = wq_lock
      BY <1>7, <2>2 DEF Wq!TryLock, Wq!Goto
    <3>2. ~WqHeld(t) /\ "try_queue" \notin Wq!Holding
      BY <2>0, <1>h DEF WqHeld
    <3> QED  BY <2>0, <3>1, <3>2, <1>t, <1>u, <1>q, WqMove, Zenon
  <2> QED  BY <2>1, <2>2
<1>8. ASSUME NEW t \in Threads, Wq!DrainRead(t) PROVE WqInv'
  <2>1. /\ wq_pc[t] = "hold" /\ wq_lock.work # Null /\ wq_pc' = [wq_pc EXCEPT ![t] = "drain"]
        /\ v' = [v EXCEPT ![t] = wq_lock] /\ UNCHANGED <<wq_lock, wq_next, batch, ret, queued>>
    BY <1>8, Zenon DEF Wq!DrainRead, Wq!Goto
  <2>2. WqHeld(t) /\ "drain" \in Wq!Holding
    BY <2>1, <1>h, Zenon DEF WqHeld
  <2> QED  BY <2>1, <2>2, <1>t, WqMove, Zenon
<1>9. ASSUME NEW t \in Threads, Wq!DrainCas(t) PROVE WqInv'
  <2>0. /\ wq_pc[t] = "drain" /\ v' = [v EXCEPT ![t] = Wq!Zero]
        /\ UNCHANGED <<wq_next, ret, queued>>
    BY <1>9 DEF Wq!DrainCas, Wq!Goto
  <2>1. CASE wq_lock # v[t]
    <3>1. wq_pc' = [wq_pc EXCEPT ![t] = "hold"] /\ UNCHANGED <<wq_lock, batch>>
      BY <1>9, <2>1 DEF Wq!DrainCas, Wq!Goto
    <3>2. WqHeld(t) /\ "hold" \in Wq!Holding
      BY <2>0, <1>h DEF WqHeld
    <3> QED  BY <2>0, <3>1, <3>2, <1>t, <1>w, WqMove, Zenon
  <2>2. CASE wq_lock = v[t]
    <3>1. /\ wq_pc' = [wq_pc EXCEPT ![t] = "run"] /\ wq_lock' = [wq_lock EXCEPT !.work = Null]
          /\ batch' = [batch EXCEPT ![t] = wq_lock.work]
      BY <1>9, <2>2 DEF Wq!DrainCas, Wq!Goto
    <3>2. wq_lock.work # Null
      BY <2>0, <2>2, Zenon DEF WqInv, WqPlaces
    <3>3. ret' = [ret EXCEPT ![t] = ret[t]] /\ ret[t] \in {"hold", "slow"}
      BY <2>0, <1>u, <1>q, Zenon
    <3> QED  BY <2>0, <3>1, <3>2, <3>3, <1>w, WqGrab, Zenon
  <2> QED  BY <2>1, <2>2
<1>10. ASSUME NEW t \in Threads, Wq!WorkDo(t) PROVE WqInv'
  <2>j. wq_pc[t] = "run"
    BY <1>10, Zenon DEF Wq!WorkDo
  <2>0. PICK j \in Threads : j = batch[t]
    BY <2>j, <1>t, Zenon DEF WqInv, WqPlaces
  <2>n. PICK n \in Threads \cup {Null} : n = wq_next[j]
    BY <1>t, Zenon
  <2>1. /\ queued' = queued \ {j} /\ batch' = [batch EXCEPT ![t] = n]
        /\ wq_pc' = [wq_pc EXCEPT ![t] = IF n = Null THEN ret[t] ELSE "run"]
        /\ ret' = IF n = Null THEN [ret EXCEPT ![t] = "hold"] ELSE ret
        /\ UNCHANGED <<wq_lock, wq_next, v>>
    BY <1>10, <1>t, <2>0, <2>n, Zenon DEF Wq!WorkDo, Wq!Goto
  <2>2. Wq!TypeOK'
    BY <1>t, <1>h, <2>1, Zenon DEF WqInv, Wq!TypeOK
  <2>3. \A u \in Threads : WqHeld(u)' <=> WqHeld(u)
    BY <1>t, <1>h, <2>1, <2>j, Zenon DEF WqHeld
  <2>4. WqOne'
    BY <2>1, <2>3, Zenon DEF WqInv, WqOne
  <2>5. WqPlaces'
    <3>1. IF n = Null THEN wq_pc'[t] \in {"hold", "slow"} ELSE wq_pc'[t] = "run"
      BY <1>t, <2>1, Zenon
    <3>2. \A u \in Threads \ {t} : wq_pc'[u] = wq_pc[u] /\ batch'[u] = batch[u]
      BY <1>t, <2>1, Zenon
    <3>3. batch'[t] = n /\ queued' \subseteq queued /\ UNCHANGED <<wq_next, v>>
      BY <1>t, <2>1, Zenon
    <3> QED  BY <3>1, <3>2, <3>3, Zenon DEF WqInv, WqPlaces
  <2>6. \A u \in Threads \ {t} : batch[u] = Null
    BY <2>j, <1>h, Zenon DEF WqInv, WqPlaces, WqOne, WqHeld
  <2>7. WqJobs'
    BY <2>0, <2>n, <2>1, <2>6, JobRun, Zenon
  <2> QED  BY <2>2, <2>4, <2>5, <2>7, Zenon DEF WqInv
<1>11. ASSUME NEW t \in Threads, Wq!Unlock(t) PROVE WqInv'
  <2>0. wq_pc[t] = "hold" /\ UNCHANGED <<wq_next, v, batch, ret, queued>>
    BY <1>11 DEF Wq!Unlock, Wq!Goto, Wq!Rest
  <2>1. CASE wq_lock = Wq!Locked
    <3>1. wq_pc' = [wq_pc EXCEPT ![t] = "idle"] /\ wq_lock' = Wq!Zero
      BY <1>11, <2>1 DEF Wq!Unlock, Wq!Goto
    <3>2. /\ wq_pc' \in [Threads -> {"idle", "wait", "asleep", "try_queue", "cas", "try_lock"}
                                      \cup Wq!Holding]
          /\ wq_pc'[t] = "idle"
          /\ \A u \in Threads \ {t} : \/ wq_pc'[u] = wq_pc[u]
                                      \/ wq_pc[u] = "asleep" /\ wq_pc'[u] = "wait"
      BY <3>1, <1>t, Zenon
    <3>3. wq_lock.work = Null /\ wq_pc[t] \in {"hold", "slow"}
      BY <2>0, <2>1, <1>w, Zenon
    <3> QED  BY <2>0, <3>1, <3>2, <3>3, WqLetGo, Zenon
  <2>2. CASE wq_lock # Wq!Locked
    <3>1. wq_pc' = [wq_pc EXCEPT ![t] = "slow"] /\ wq_lock' = wq_lock
      BY <1>11, <2>2 DEF Wq!Unlock, Wq!Goto
    <3>2. WqHeld(t) /\ "slow" \in Wq!Holding
      BY <2>0, <1>h, Zenon DEF WqHeld
    <3> QED  BY <2>0, <3>1, <3>2, <1>t, <1>u, <1>q, WqMove, Zenon
  <2> QED  BY <2>1, <2>2
<1>12. ASSUME NEW t \in Threads, Wq!UnlockSlow(t) PROVE WqInv'
  <2>0. wq_pc[t] = "slow" /\ UNCHANGED <<wq_next, v, queued>>
    BY <1>12 DEF Wq!UnlockSlow
  <2>1. CASE wq_lock.work # Null
    <3>1. /\ wq_pc' = [wq_pc EXCEPT ![t] = "run"] /\ wq_lock' = [wq_lock EXCEPT !.work = Null]
          /\ batch' = [batch EXCEPT ![t] = wq_lock.work] /\ ret' = [ret EXCEPT ![t] = "slow"]
      BY <1>12, <2>1 DEF Wq!UnlockSlow, Wq!Goto
    <3>2. v' = [v EXCEPT ![t] = v[t]] /\ v[t] \in Wq!Words
      BY <2>0, <1>u, <1>q
    <3> QED  BY <2>0, <2>1, <3>1, <3>2, WqGrab, Zenon
  <2>2. CASE wq_lock.work = Null
    <3>1. /\ wq_pc' = [u \in Threads |-> IF u = t THEN "idle"
                         ELSE IF wq_pc[u] = "asleep" THEN "wait" ELSE wq_pc[u]]
          /\ wq_lock' = Wq!Zero /\ UNCHANGED <<batch, ret>>
      BY <1>12, <2>2 DEF Wq!UnlockSlow
    <3>2. /\ wq_pc' \in [Threads -> {"idle", "wait", "asleep", "try_queue", "cas", "try_lock"}
                                      \cup Wq!Holding]
          /\ wq_pc'[t] = "idle"
          /\ \A u \in Threads \ {t} : \/ wq_pc'[u] = wq_pc[u]
                                      \/ wq_pc[u] = "asleep" /\ wq_pc'[u] = "wait"
      BY <3>1, <1>t, Zenon
    <3>3. wq_pc[t] \in {"hold", "slow"}
      BY <2>0
    <3> QED  BY <2>0, <2>2, <3>1, <3>2, <3>3, WqLetGo, Zenon
  <2> QED  BY <2>1, <2>2
<1> QED
  BY <1>1, <1>2, <1>3, <1>4, <1>5, <1>6, <1>7, <1>8, <1>9, <1>10, <1>11, <1>12, Zenon
     DEF Wq!Next, Wq!Step, Wq!HolderStep

LEMMA WqStarts ==
  ASSUME NamesAssumption, Wq!Init
  PROVE  WqInv
<1>w. Wq!Zero \in Wq!Words /\ ~Wq!Zero.locked /\ Wq!Zero.work = Null
  BY DEF Wq!Zero, Wq!Words, Wq!JobOrNull
<1>1. Wq!TypeOK
  BY <1>w, Zenon DEF Wq!Init, Wq!TypeOK, Wq!JobOrNull
<1>2. WqOne
  BY <1>w DEF Wq!Init, WqOne, WqHeld, Wq!Holding
<1>3. WqPlaces
  BY Zenon DEF Wq!Init, WqPlaces
<1>4. /\ wq_next \in [Threads -> Threads \cup {Null}] /\ Null \notin Threads
      /\ wq_lock.work = Null /\ queued = {} /\ \A t \in Threads : batch[t] = Null
  BY <1>w, NamesAssumption, Zenon DEF Wq!Init
<1>5. Jobs(Null) = {}
  BY <1>4, LinkedFacts, Zenon DEF Jobs
<1>6. WqJobs
  BY <1>4, <1>5 DEF WqJobs
<1> QED  BY <1>1, <1>2, <1>3, <1>6, Zenon DEF WqInv

(* The invariant says what the two properties of the lock say. *)
LEMMA WqKeepsJobs ==
  ASSUME NamesAssumption, WqInv
  PROVE  Wq!Exclusive /\ Wq!JobsKept
<1>1. Wq!Exclusive
  BY DEF WqInv, WqOne, WqHeld, Wq!Exclusive, Wq!Zero
<1>2. \A j : Wq!Reach(j) = Jobs(j)
  BY Zenon DEF Wq!Reach, Wq!Closed, Jobs, Linked
<1>3. queued \subseteq Threads /\ \A j : Jobs(j) \subseteq Threads
  BY WqTypes DEF Jobs, Linked
<1>4. queued = Jobs(wq_lock.work) \cup UNION {Jobs(batch[t]) : t \in Threads}
  BY <1>3 DEF WqInv, WqJobs
<1>5. Wq!JobsKept
  BY <1>2, <1>4 DEF WqInv, WqJobs, Wq!JobsKept
<1> QED  BY <1>1, <1>5, Zenon

-----------------------------------------------------------------------------
(* The parts side by side *)

WordsInv == EpInv /\ WqInv /\ CpInv /\ CpResult /\ FwdInv

(* A step of the whole is a step of one part at most. *)
LEMMA WordsSteps ==
  ASSUME [WordsNext]_wordsVars
  PROVE  [Ep!Next]_epVars /\ [Wq!Next]_wqVars /\ [Cp!Next]_cpVars /\ [Fwd!Next]_fwdVars
  BY DEF WordsNext, wordsVars, EpMoves, WqMoves, CpMoves, FwdMoves

(* The invariants of the parts hold at the start and are kept. *)
LEMMA WordsInduction ==
  /\ WordsInit => WordsInv
  /\ WordsInv /\ [WordsNext]_wordsVars => WordsInv'
<1>1. WordsInit => WordsInv
  BY EpStarts, WqStarts, CpStarts, CpResultStarts, FwdStarts, NamesAssumption, TablesAssumption, Zenon
     DEF WordsInit, WordsInv
<1>2. ASSUME WordsInv, [WordsNext]_wordsVars
      PROVE  WordsInv'
  BY <1>2, WordsSteps, EpStep, WqStep, CpStep, CpResultStep, FwdStep, NamesAssumption,
     TablesAssumption, Zenon DEF WordsInv
<1> QED  BY <1>1, <1>2

(* ef_eplock and oo_wqlock: one holder, and a word that says so, for any   *)
(* number of threads and all flags.                                        *)
THEOREM Exclude == WordsSpec => []LocksExclude
<1>1. WordsInv => LocksExclude
  BY EpOneHolder, WqKeepsJobs, NamesAssumption, Zenon DEF LocksExclude, WordsInv
<1> QED  BY <1>1, WordsInduction, PTL DEF WordsSpec

(* No job left to a holder is lost or run twice, nobody sleeps on a word   *)
(* that does not ask for a wake-up, and a confirmation that the server     *)
(* waits for is not lost, for any number of threads, clients and versions. *)
THEOREM Remembered == WordsSpec => []NothingForgotten
<1>1. WordsInv => NothingForgotten
  BY WqKeepsJobs, NamesAssumption DEF NothingForgotten, WordsInv, EpInv, FwdInv
<1> QED  BY <1>1, WordsInduction, PTL DEF WordsSpec

(* Tables read while the server rewrites them: a lookup returns the answer *)
(* of the copy in use, unless it had to start again and its last scan sets *)
(* no result, when rc may be left from a scan that was given up (the only  *)
(* wrong answers there are: a failure of oo_cp_find_llap and a success of  *)
(* the others); oo_cp_route_resolve returns 1 only with data of one        *)
(* version, and the assertion at cplane.h 190 holds, for tables of any     *)
(* size and however many updates fall between the reads.                   *)
THEOREM Snapshots == WordsSpec => OnlySnapshots
<1>1. WordsInv /\ [WordsNext]_wordsVars
        => [Cp!SnapshotStep /\ Fwd!ValidStep /\ Fwd!BadIfindexMeansOldVersion]_wordsVars
  BY WordsSteps, CpSnapshot, FwdValid, FwdBadIfindex, TablesAssumption DEF WordsInv
<1> QED  BY <1>1, WordsInduction, PTL DEF WordsSpec, OnlySnapshots
=============================================================================
