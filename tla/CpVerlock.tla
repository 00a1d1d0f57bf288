------------------------------ MODULE CpVerlock -----------------------------
(***************************************************************************)
(* Lookups in the tables the control plane server shares with its clients  *)
(* (cplane/cplane.h, cplane/mib.h).  There are two copies of the tables:   *)
(* clients read the one the parity of *version selects and start again     *)
(* when the version has changed meanwhile (CP_VERLOCK_START and _STOP);    *)
(* the server writes the other one and then increases the version.  The    *)
(* model has the ipif table (addresses of interfaces) and the llap table   *)
(* (ports of interfaces), one client and the server.                       *)
(***************************************************************************)
EXTENDS Integers, FiniteSets

CONSTANTS Ips, Ifs, Ports,
          Rows,        \* rows of each table
          Wanted,      \* the interfaces that the caller's check() accepts
          MaxVersion,  \* bound on the updates
          MaxWrites    \* bound on the field writes of one update

VARIABLES version, mib,      \* the shared version and the two copies
          writes,            \* field writes since the last update
          pc, op, arg,       \* the client: place, lookup and its argument
          ver, id, lid,      \* version read at the start, row of each table
          ifindex,           \* the argument of cp_llap_find_row
          rc,                \* the result variable of the lookup
          found,             \* what the scan under way has found
          retried,           \* the lookup has started again
          truths             \* answers right at some time since the call

server == <<version, mib, writes>>
vars == <<server, pc, op, arg, ver, id, lid, ifindex, rc, found, retried, truths>>

None == 0                    \* a free row has no ifindex; also INADDR_ANY

Ops == {"find_ipif_by_ip", "find_llap_by_ip", "find_llap", "ifindex_to_ip", "hwport_vlan_to_ifindex"}
Args(o) == IF o \in {"find_ipif_by_ip", "find_llap_by_ip"} THEN Ips
           ELSE IF o = "hwport_vlan_to_ifindex" THEN Ports ELSE Ifs
ENOENT == -2

Cell == [ip : Ips \cup {None}, ifindex : Ifs \cup {None}]
LCell == [port : Ports \cup {None}, ifindex : Ifs \cup {None}]
Tables == [ipif : [1 .. Rows -> Cell], llap : [1 .. Rows -> LCell]]

Results == {0, 1, ENOENT} \cup Ips \cup Ifs \cup Ports

TypeOK ==
  /\ version \in 0 .. MaxVersion /\ ver \in 0 .. MaxVersion
  /\ mib \in [0 .. 1 -> Tables] /\ writes \in 0 .. MaxWrites
  /\ pc \in {"idle", "start", "match", "use", "llap", "stop"}
  /\ op \in Ops /\ arg \in Args(op)
  /\ id \in 1 .. Rows + 1 /\ lid \in 1 .. Rows + 1 /\ ifindex \in Results
  /\ {rc, found} \cup truths \subseteq Results /\ retried \in BOOLEAN

(* One interface, with its address and its port. *)
OneInterface ==
  \E i \in Ips, f \in Ifs, p \in Ports :
    mib = [v \in 0 .. 1 |->
             [ipif |-> [r \in 1 .. Rows |-> [ip |-> IF r = 1 THEN i ELSE None,
                                            ifindex |-> IF r = 1 THEN f ELSE None]],
              llap |-> [r \in 1 .. Rows |-> [port |-> IF r = 1 THEN p ELSE None,
                                            ifindex |-> IF r = 1 THEN f ELSE None]]]]

SomeIf == CHOOSE i \in Ifs : TRUE

Init ==
  /\ version = 0 /\ OneInterface /\ writes = 0
  /\ pc = "idle" /\ op = "ifindex_to_ip" /\ arg = SomeIf
  /\ ver = 0 /\ id = 1 /\ lid = 1 /\ ifindex = SomeIf /\ rc = 0 /\ found = 0
  /\ retried = FALSE /\ truths = {}

-----------------------------------------------------------------------------
(* What a lookup answers when nothing changes while it runs. *)

Used(T) == {r \in 1 .. Rows : \A q \in 1 .. r : T[q].ifindex # None}
First(S) == CHOOSE r \in S : \A q \in S : r <= q
ValueAt(S, f(_), default) == IF S = {} THEN default ELSE f(First(S))

Answer(o, a, m) ==
  CASE o = "find_ipif_by_ip" ->
         IF \E r \in Used(m.ipif) : m.ipif[r].ip = a /\ m.ipif[r].ifindex \in Wanted THEN 1 ELSE 0
    [] o = "find_llap_by_ip" ->
         IF \E r \in Used(m.ipif), l \in Used(m.llap) :
               m.ipif[r].ip = a /\ m.ipif[r].ifindex = m.llap[l].ifindex /\ m.llap[l].ifindex \in Wanted
         THEN 1 ELSE 0
    [] o = "find_llap" ->
         ValueAt({l \in Used(m.llap) : m.llap[l].ifindex = a}, LAMBDA l : m.llap[l].port, ENOENT)
    [] o = "ifindex_to_ip" ->
         ValueAt({r \in Used(m.ipif) : m.ipif[r].ifindex = a}, LAMBDA r : m.ipif[r].ip, None)
    [] o = "hwport_vlan_to_ifindex" ->
         ValueAt({l \in Used(m.llap) : m.llap[l].port = a}, LAMBDA l : m.llap[l].ifindex, None)

-----------------------------------------------------------------------------
(* The server writes one field of the copy that is not in use ... *)
Write ==
  /\ version < MaxVersion /\ writes < MaxWrites
  /\ writes' = writes + 1
  /\ \E r \in 1 .. Rows :
       LET c == (version + 1) % 2 IN
       \/ \E x \in Ips \cup {None} : mib' = [mib EXCEPT ![c].ipif[r].ip = x]
       \/ \E x \in Ifs \cup {None} : mib' = [mib EXCEPT ![c].ipif[r].ifindex = x]
       \/ \E x \in Ports \cup {None} : mib' = [mib EXCEPT ![c].llap[r].port = x]
       \/ \E x \in Ifs \cup {None} : mib' = [mib EXCEPT ![c].llap[r].ifindex = x]
  /\ UNCHANGED <<version, pc, op, arg, ver, id, lid, ifindex, rc, found, retried, truths>>

(* ... and makes it the one in use. *)
Publish ==
  /\ version < MaxVersion
  /\ version' = version + 1 /\ writes' = 0
  /\ truths' = IF pc = "idle" THEN {} ELSE truths \cup {Answer(op, arg, mib[version' % 2])}
  /\ UNCHANGED <<mib, pc, op, arg, ver, id, lid, ifindex, rc, found, retried>>

-----------------------------------------------------------------------------
(* The client *)

Goto(p) == pc' = p

(* A lookup is called; its result variable gets its initial value, once. *)
Call(o, a) ==
  /\ pc = "idle" /\ Goto("start")
  /\ op' = o /\ arg' = a /\ rc' = 0 /\ retried' = FALSE
  /\ truths' = {Answer(o, a, mib[version % 2])}
  /\ UNCHANGED <<server, ver, id, lid, ifindex, found>>

Mut_VerlockStart ==
  /\ pc = "start" /\ Goto(IF op = "find_llap" THEN "llap" ELSE "match")
  /\ ver' = IF rc = 0 THEN version ELSE ver
  /\ id' = 1 /\ lid' = 1 /\ ifindex' = arg
  /\ found' = IF op = "find_llap" THEN ENOENT ELSE 0
  /\ UNCHANGED <<server, op, arg, rc, retried, truths>>
(* CP_VERLOCK_START *)
VerlockStart ==
  /\ pc = "start" /\ Goto(IF op = "find_llap" THEN "llap" ELSE "match")
  /\ ver' = version
  /\ id' = 1 /\ lid' = 1 /\ ifindex' = arg
  /\ found' = IF op = "find_llap" THEN ENOENT ELSE 0
  /\ UNCHANGED <<server, op, arg, rc, retried, truths>>

M == mib[ver % 2]

(* The loop ends at the last row and at the first free one; the lookup by  *)
(* port looks for a match before it looks for a free row.                  *)
Match ==
  /\ pc = "match"
  /\ LET end == id > Rows
         row == IF op = "hwport_vlan_to_ifindex" THEN M.llap[id] ELSE M.ipif[id]
         hit == CASE op = "hwport_vlan_to_ifindex" -> row.port = arg
                  [] op = "ifindex_to_ip" -> row.ifindex = arg
                  [] OTHER -> row.ip = arg
         free == row.ifindex = None
     IN  IF end THEN Goto("stop") /\ UNCHANGED id
         ELSE IF hit /\ (op = "hwport_vlan_to_ifindex" \/ ~free) THEN Goto("use") /\ UNCHANGED id
         ELSE IF free THEN Goto("stop") /\ UNCHANGED id
         ELSE UNCHANGED pc /\ id' = id + 1
  /\ UNCHANGED <<server, op, arg, ver, lid, ifindex, rc, found, retried, truths>>

Return1(v) == rc' = v /\ found' = v /\ Goto("stop")
NextRow == id' = id + 1 /\ Goto("match")

(* What the lookups do with a row that matches: they read the rest of it. *)
FindIpifByIp ==
  IF M.ipif[id].ifindex \in Wanted THEN Return1(1) /\ UNCHANGED id
  ELSE NextRow /\ UNCHANGED <<rc, found>>
IfindexToIp == Return1(M.ipif[id].ip) /\ UNCHANGED id
HwportVlanToIfindex == Return1(M.llap[id].ifindex) /\ UNCHANGED id

Use ==
  /\ pc = "use"
  /\ \/ op = "find_ipif_by_ip" /\ FindIpifByIp /\ UNCHANGED <<lid, ifindex>>
     \/ op = "ifindex_to_ip" /\ IfindexToIp /\ UNCHANGED <<lid, ifindex>>
     \/ op = "hwport_vlan_to_ifindex" /\ HwportVlanToIfindex /\ UNCHANGED <<lid, ifindex>>
     \/ op = "find_llap_by_ip" /\ lid' = 1 /\ ifindex' = M.ipif[id].ifindex
        /\ Goto("llap") /\ UNCHANGED <<id, rc, found>>
  /\ UNCHANGED <<server, op, arg, ver, retried, truths>>

(* What they do with the llap row of the interface, or without one. *)
FindLlap(bad) ==
  /\ IF bad THEN rc' = ENOENT /\ UNCHANGED found
     ELSE found' = M.llap[lid].port /\ UNCHANGED rc
  /\ Goto("stop") /\ UNCHANGED id
FindLlapByIp(bad) ==
  IF ~bad /\ M.llap[lid].ifindex \in Wanted THEN Return1(1) /\ UNCHANGED id
  ELSE NextRow /\ UNCHANGED <<rc, found>>

(* One round of cp_llap_find_row, and the return to its caller. *)
LlapFindRow ==
  /\ pc = "llap"
  /\ LET row == IF lid > Rows THEN None ELSE M.llap[lid].ifindex
         bad == IF lid > Rows THEN TRUE ELSE row = None /\ row # ifindex
     IN  \/ ~bad /\ row # ifindex /\ lid' = lid + 1 /\ UNCHANGED <<pc, id, rc, found>>
         \/ row \in {None, ifindex} /\ op = "find_llap" /\ FindLlap(bad) /\ UNCHANGED lid
         \/ row \in {None, ifindex} /\ op = "find_llap_by_ip" /\ FindLlapByIp(bad) /\ UNCHANGED lid
  /\ UNCHANGED <<server, op, arg, ver, ifindex, retried, truths>>

(* The lookup returns rc and its variables are gone. *)
Return ==
  /\ Goto("idle") /\ op' = "ifindex_to_ip" /\ arg' = SomeIf
  /\ ver' = 0 /\ id' = 1 /\ lid' = 1 /\ ifindex' = SomeIf /\ rc' = 0 /\ found' = 0
  /\ retried' = FALSE /\ truths' = {}
Again ==
  /\ Goto("start") /\ retried' = TRUE
  /\ UNCHANGED <<op, arg, ver, id, lid, ifindex, rc, found, truths>>

Mut_VerlockStop ==
  /\ pc = "stop"
  /\ IF ver % 2 = version % 2 THEN Return ELSE Again
  /\ UNCHANGED server
(* CP_VERLOCK_STOP *)
VerlockStop ==
  /\ pc = "stop"
  /\ IF ver = version THEN Return ELSE Again
  /\ UNCHANGED server

Step == VerlockStart \/ Match \/ Use \/ LlapFindRow \/ VerlockStop
Next == Write \/ Publish \/ Step \/ \E o \in Ops : \E a \in Args(o) : Call(o, a)
Spec == Init /\ [][Next]_vars
FairSpec == Spec /\ WF_vars(Step)

-----------------------------------------------------------------------------
(* What the caller gets: rc, and from oo_cp_find_llap the port as well. *)
Returned == IF op = "find_llap" /\ rc # ENOENT THEN found ELSE rc

(* The purpose of the version check: a lookup returns the answer of one    *)
(* snapshot of the tables, the current one, however the server's writes    *)
(* fell between the reads of the rows.  One exception: rc is not reset     *)
(* when the lookup starts again, so a result of the scan it has given up   *)
(* stays where the last scan sets none.  Hence after a retry a failure of  *)
(* oo_cp_find_llap, and a success of the others, may be an old one.        *)
SnapshotStep ==
  pc = "stop" /\ pc' = "idle" =>
    LET a == Answer(op, arg, mib[version % 2]) IN
    Returned = a \/ (retried /\ IF op = "find_llap" THEN Returned = ENOENT ELSE a = 0)

(* oo_cp_find_ipif_by_ip returns what was the answer at some time during   *)
(* the call.                                                               *)
TrueStep == pc = "stop" /\ pc' = "idle" /\ op = "find_ipif_by_ip" => rc \in truths

(* Every lookup returns once the server has stopped changing the tables.   *)
LookupReturns == (pc = "start") ~> (pc = "idle")
=============================================================================
