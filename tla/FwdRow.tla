------------------------------- MODULE FwdRow -------------------------------
(***************************************************************************)
(* One row of the forwarding table that the control plane server shares    *)
(* with its clients (cplane/mib.h) and the client calls that use it        *)
(* (cplane/cplane.h).  A client remembers the version of the row it has    *)
(* resolved a route to, and reads the copy of the data which the parity of *)
(* that version selects.                                                   *)
(***************************************************************************)
EXTENDS Integers

CONSTANTS Clients, Ifs, Bad,   \* Bad is CI_IFID_BAD
          MaxVersion           \* bound on the versions of the row

VARIABLES version, data,       \* of the row
          stale, recent,       \* CICP_FWD_FLAG_STALE; frc_used is not before frc_stale
          need_refresh,        \* CICP_FWD_RW_FLAG_ARP_NEED_REFRESH
          owed,                \* the server waits for a confirmation that no failed call has lost
          pc, verinfo, out     \* of each client: place, remembered version, data read

row == <<version, data>>
flags == <<stale, recent, need_refresh, owed>>
vars == <<row, flags, pc, verinfo, out>>

Data == [ifindex : Ifs \cup {Bad}, arp_valid : BOOLEAN]

NoData == [ifindex |-> Bad, arp_valid |-> FALSE]   \* outside of a call

TypeOK ==
  /\ version \in 0 .. MaxVersion /\ data \in [0 .. 1 -> Data]
  /\ flags \in BOOLEAN \X BOOLEAN \X BOOLEAN \X BOOLEAN
  /\ pc \in [Clients -> {"idle", "copy_if", "copy_arp", "recheck", "slow", "valid", "resolved",
                         "res_if", "res_assert", "res_arp", "res_version",
                         "conf_flag", "conf_clear", "conf_ioctl"}]
  /\ verinfo \in [Clients -> 0 .. MaxVersion] /\ out \in [Clients -> Data]

Init ==
  /\ version = 0 /\ data \in {[v \in 0 .. 1 |-> d] : d \in [ifindex : Ifs, arp_valid : BOOLEAN]}
  /\ stale = FALSE /\ recent = TRUE /\ need_refresh = FALSE /\ owed = FALSE
  /\ pc = [c \in Clients |-> "idle"] /\ verinfo = [c \in Clients |-> 0]
  /\ out = [c \in Clients |-> NoData]

-----------------------------------------------------------------------------
(* The server: field by field it changes the copy that is not in use, then *)
(* the version; it marks the row stale, and asks for a confirmation.       *)

Inactive == (version + 1) % 2

Write ==
  /\ version < MaxVersion
  /\ \/ \E i \in Ifs \cup {Bad} : data' = [data EXCEPT ![Inactive].ifindex = i]
     \/ \E b \in BOOLEAN : data' = [data EXCEPT ![Inactive].arp_valid = b]
  /\ UNCHANGED <<version, flags, pc, verinfo, out>>

Publish ==
  /\ version < MaxVersion /\ data[Inactive].ifindex # Bad
  /\ version' = version + 1
  /\ UNCHANGED <<data, flags, pc, verinfo, out>>

MarkStale == stale' = TRUE /\ recent' = FALSE /\ UNCHANGED <<row, need_refresh, owed, pc, verinfo, out>>
AskRefresh == need_refresh' = TRUE /\ owed' = TRUE /\ UNCHANGED <<row, stale, recent, pc, verinfo, out>>

-----------------------------------------------------------------------------
(* The clients *)

Goto(c, from, to) == pc[c] = from /\ pc' = [pc EXCEPT ![c] = to]

(* cp_fwd_version_matches: a client that finds its version current tells   *)
(* the server of a stale row that it is still used.                        *)
VersionMatches(c) == verinfo[c] = version
Touch(c) == recent' = (recent \/ (VersionMatches(c) /\ stale))

(* oo_cp_route_resolve *)
Resolve(c) ==
  /\ Goto(c, "idle", IF VersionMatches(c) THEN "copy_if" ELSE "slow")
  /\ Touch(c)
  /\ UNCHANGED <<row, stale, need_refresh, owed, verinfo, out>>

MyData(c) == data[verinfo[c] % 2]

CopyIf(c) ==
  /\ Goto(c, "copy_if", "copy_arp")
  /\ recent' = TRUE
  /\ out' = [out EXCEPT ![c].ifindex = MyData(c).ifindex]
  /\ UNCHANGED <<row, stale, need_refresh, owed, verinfo>>
CopyArp(c) ==
  /\ Goto(c, "copy_arp", "recheck")
  /\ out' = [out EXCEPT ![c].arp_valid = MyData(c).arp_valid]
  /\ UNCHANGED <<row, flags, verinfo>>

Mut_Recheck(c) ==
  /\ Goto(c, "recheck", IF verinfo[c] % 2 = version % 2 THEN "valid" ELSE "slow")
  /\ Touch(c)
  /\ UNCHANGED <<row, stale, need_refresh, owed, verinfo, out>>
Recheck(c) ==
  /\ Goto(c, "recheck", IF VersionMatches(c) THEN "valid" ELSE "slow")
  /\ Touch(c)
  /\ UNCHANGED <<row, stale, need_refresh, owed, verinfo, out>>

(* __oo_cp_route_resolve looks the route up anew. *)
SlowPath(c) ==
  /\ Goto(c, "slow", "resolved")
  /\ verinfo' = [verinfo EXCEPT ![c] = version]
  /\ out' = [out EXCEPT ![c] = data[version % 2]]
  /\ UNCHANGED <<row, flags>>

Return(c) ==
  /\ pc[c] \in {"valid", "resolved"} /\ Goto(c, pc[c], "idle")
  /\ out' = [out EXCEPT ![c] = NoData]
  /\ UNCHANGED <<row, flags, verinfo>>

(* oo_cp_arp_resolve *)
ArpResolve(c) == Goto(c, "idle", "res_if") /\ UNCHANGED <<row, flags, verinfo, out>>
Mut_ResolveIf(c) ==
  /\ Goto(c, "res_if", IF data[(verinfo[c] + 1) % 2].ifindex = Bad THEN "res_assert" ELSE "res_arp")
  /\ UNCHANGED <<row, flags, verinfo, out>>
ResolveIf(c) ==
  /\ Goto(c, "res_if", IF MyData(c).ifindex = Bad THEN "res_assert" ELSE "res_arp")
  /\ UNCHANGED <<row, flags, verinfo, out>>
ResolveAssert(c) == Goto(c, "res_assert", "res_arp") /\ UNCHANGED <<row, flags, verinfo, out>>
ResolveArp(c) ==
  /\ Goto(c, "res_arp", IF MyData(c).arp_valid THEN "idle" ELSE "res_version")
  /\ UNCHANGED <<row, flags, verinfo, out>>
(* The request to the server, if any, leaves the client as it is. *)
ResolveVersion(c) ==
  /\ Goto(c, "res_version", "idle") /\ Touch(c)
  /\ UNCHANGED <<row, stale, need_refresh, owed, verinfo, out>>

(* oo_cp_arp_confirm *)
ArpConfirm(c) ==
  /\ Goto(c, "idle", IF VersionMatches(c) THEN "conf_flag" ELSE "idle")
  /\ Touch(c)
  /\ UNCHANGED <<row, stale, need_refresh, owed, verinfo, out>>
ConfirmFlag(c) ==
  /\ Goto(c, "conf_flag", IF need_refresh THEN "conf_clear" ELSE "idle")
  /\ UNCHANGED <<row, flags, verinfo, out>>
Mut_ConfirmClear(c) ==
  /\ Goto(c, "conf_clear", IF VersionMatches(c) THEN "conf_ioctl" ELSE "idle") /\ need_refresh' = FALSE
  /\ UNCHANGED <<row, stale, recent, owed, verinfo, out>>
ConfirmClear(c) ==
  /\ Goto(c, "conf_clear", "conf_ioctl") /\ need_refresh' = FALSE
  /\ UNCHANGED <<row, stale, recent, owed, verinfo, out>>
(* The call tells the server, or fails; nobody looks at its result, so the *)
(* confirmation is then lost unless the server has asked again.            *)
ConfirmIoctl(c) ==
  /\ Goto(c, "conf_ioctl", "idle")
  /\ \/ owed' = FALSE
     \/ owed' = (owed /\ need_refresh)
  /\ UNCHANGED <<row, stale, recent, need_refresh, verinfo, out>>

Next ==
  \/ Write \/ Publish \/ MarkStale \/ AskRefresh
  \/ \E c \in Clients :
       \/ Resolve(c) \/ CopyIf(c) \/ CopyArp(c) \/ Recheck(c) \/ SlowPath(c) \/ Return(c)
       \/ ArpResolve(c) \/ ResolveIf(c) \/ ResolveAssert(c) \/ ResolveArp(c) \/ ResolveVersion(c)
       \/ ArpConfirm(c) \/ ConfirmFlag(c) \/ ConfirmClear(c) \/ ConfirmIoctl(c)
Spec == Init /\ [][Next]_vars

-----------------------------------------------------------------------------
(* oo_cp_route_resolve returns 1 only with data that is wholly that of the *)
(* version the client remembers, and current: no mixture of two versions,  *)
(* although the server rewrites both copies while the client copies them.  *)
ValidStep ==
  \A c \in Clients : pc[c] = "recheck" /\ pc'[c] = "valid" =>
    out[c] = data[version % 2] /\ verinfo[c] = version

(* The assertion of oo_cp_arp_resolve (cplane.h 190): a client that has    *)
(* read a bad ifindex then finds that its version is not the current one.  *)
BadIfindexMeansOldVersion ==
  \A c \in Clients : pc[c] = "res_assert" => verinfo[c] # version

(* A confirmation that the server waits for is not lost between the        *)
(* clients that see the flag: it is still set, or a client that has        *)
(* cleared it is about to confirm.  Only a call to the server that fails   *)
(* loses it, as oo_cp_arp_confirm ignores the result.                      *)
RefreshNotLost ==
  owed => need_refresh \/ \E c \in Clients : pc[c] = "conf_ioctl"
=============================================================================
