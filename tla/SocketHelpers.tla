---------------------------- MODULE SocketHelpers ---------------------------
(***************************************************************************)
(* The socket and address helpers of EF_VI/utils.cpp, each as the sequence *)
(* of its library calls with the outcome of every call left open: what a   *)
(* helper still holds when it returns, and what it returns.                *)
(***************************************************************************)
EXTENDS Integers, Sequences, SequencesExt

CONSTANTS Names, Addrs,    \* of interfaces
          MaxAddrs         \* bound on the length of the list of getifaddrs

VARIABLES op, arg, ifaddrs, pc,   \* the call, its argument, the list, the place in it
          ifa,                    \* position in the list
          held,                   \* "ai", "ifaddrs", "sock": what has to be given back
          result

vars == <<op, arg, ifaddrs, pc, ifa, held, result>>

None == "none"
Family == {"AF_INET", "AF_INET6", None}     \* None: another, or ifa_addr is NULL
Entry == [name : Names, up : BOOLEAN, family : Family, addr : Addrs]
ScanOps == {"sock_get_ifindex", "get_ipaddr_of_intf"}
AddrOps == {"getaddrinfo_storage", "parse_host"}
Ops == ScanOps \cup AddrOps \cup {"mk_socket"}

TypeOK ==
  /\ op \in Ops /\ ifaddrs \in Seq(Entry)
  /\ pc \in {"call", "ifaddrs", "list", "addrinfo", "socket", "op", "returned", "aborted"}
  /\ ifa \in 1 .. Len(ifaddrs) + 1
  /\ held \subseteq {"ai", "ifaddrs", "sock"}
  /\ result \in {None, "-1", "0", "sock"} \cup Names \cup Addrs

(* sock_get_ifindex looks for the address of its socket, in its family.    *)
Init ==
  /\ op \in Ops
  /\ arg \in IF op = "sock_get_ifindex" THEN Addrs \X Family ELSE Names \X {"AF_INET"}
  /\ ifaddrs \in IF op \in ScanOps THEN BoundedSeq(Entry, MaxAddrs) ELSE {<< >>}
  /\ pc = "call" /\ ifa = 1 /\ held = {} /\ result = None

Return(r, h) == pc' = "returned" /\ result' = r /\ held' = h /\ UNCHANGED <<op, arg, ifaddrs, ifa>>
Abort == pc' = "aborted" /\ UNCHANGED <<op, arg, ifaddrs, ifa, held, result>>
Step(p, h) == pc' = p /\ held' = h /\ UNCHANGED <<op, arg, ifaddrs, ifa, result>>

(* TRY(getsockname()), and the switch on the family *)
GetSockName ==
  /\ pc = "call" /\ op = "sock_get_ifindex"
  /\ \/ Abort
     \/ arg[2] = None /\ Return("-1", {})
     \/ arg[2] # None /\ Step("ifaddrs", {})

(* TRY(getifaddrs()) *)
GetIfAddrs ==
  /\ pc = "ifaddrs" \/ (pc = "call" /\ op = "get_ipaddr_of_intf")
  /\ Abort \/ Step("list", {"ifaddrs"})

Mut_Matches(e) ==
  IF op = "sock_get_ifindex"
  THEN e.up /\ e.addr = arg[1]
  ELSE e.name = arg[1] /\ e.family = "AF_INET"
Matches(e) ==
  IF op = "sock_get_ifindex"
  THEN e.up /\ e.family = arg[2] /\ e.addr = arg[1]
  ELSE e.family = "AF_INET" /\ e.name = arg[1]

(* One round of the loop over the list; at its end, or at the first match, *)
(* the list is freed.  The calls that turn a match into the result may     *)
(* fail, which aborts.                                                     *)
Scan ==
  /\ pc = "list"
  /\ IF ifa > Len(ifaddrs) THEN Return(IF op = "sock_get_ifindex" THEN "-1" ELSE None, {})
     ELSE IF Matches(ifaddrs[ifa])
     THEN \/ Return(IF op = "sock_get_ifindex" THEN ifaddrs[ifa].name ELSE ifaddrs[ifa].addr, {})
          \/ Abort
     ELSE ifa' = ifa + 1 /\ UNCHANGED <<op, arg, ifaddrs, pc, held, result>>

(* getaddrinfo() *)
GetAddrInfo ==
  /\ pc = "call" /\ op \notin ScanOps
  /\ \/ Return("-1", {})
     \/ Step(IF op = "mk_socket" THEN "socket" ELSE "addrinfo", {"ai"})
UseAddrInfo ==
  /\ pc = "addrinfo"
  /\ Return("0", {}) \/ (op = "getaddrinfo_storage" /\ Abort)

(* mk_socket *)
MkSocket ==
  /\ pc = "socket"
  /\ Return("-1", held) \/ Step("op", held \cup {"sock"})
Mut_MkSocketOp ==
  /\ pc = "op"
  /\ Return("-1", held) \/ Return("sock", held \ {"ai"})
MkSocketOp ==
  /\ pc = "op"
  /\ Return("-1", held \ {"sock"}) \/ Return("sock", held \ {"ai"})

Done == pc \in {"returned", "aborted"} /\ UNCHANGED vars
Next == GetSockName \/ GetIfAddrs \/ Scan \/ GetAddrInfo \/ UseAddrInfo \/ MkSocket \/ MkSocketOp \/ Done
Spec == Init /\ [][Next]_vars

-----------------------------------------------------------------------------
(* The caller of mk_socket owns an open socket exactly when it is given    *)
(* one, and the list of interfaces is given back on every way out of the   *)
(* helpers that scan it.                                                   *)
NothingLeftOpen ==
  pc = "returned" => ("sock" \in held <=> result = "sock") /\ "ifaddrs" \notin held

(* The scans answer with the first entry of the list that fits, whatever   *)
(* entries of other families, without address or down come before it.  No  *)
(* entry fits a socket that is neither IPv4 nor IPv6.                      *)
FirstThatFits ==
  pc = "returned" /\ op \in ScanOps =>
    LET fits(i) == IF op = "sock_get_ifindex"
                   THEN <<ifaddrs[i].addr, ifaddrs[i].family>> = arg /\ ifaddrs[i].up
                   ELSE <<ifaddrs[i].name, ifaddrs[i].family>> = arg
        F == {i \in 1 .. Len(ifaddrs) : fits(i) /\ ifaddrs[i].family # None}
        first == CHOOSE i \in F : \A j \in F : i <= j
    IN  IF F = {} THEN result \in {"-1", None}
        ELSE result = IF op = "sock_get_ifindex" THEN ifaddrs[first].name ELSE ifaddrs[first].addr
=============================================================================
