----------------------------- MODULE EfviClient -----------------------------
(***************************************************************************)
(* The whole EF_VI client: the receive path of EfviRx with the frames of   *)
(* the feed arriving at the adapter, and handle_pkt() run on the contents  *)
(* of each received buffer.                                                *)
(***************************************************************************)
EXTENDS EfviRx, QuoteLine

VARIABLES prev_ip_id,   \* IP-ID of the last frame accepted
          output_data   \* what the decoder wrote, part by part

clientVars == <<prev_ip_id, output_data, lines>>
allVars == <<vars, feedVars, clientVars>>

ClientInit ==
  /\ Init
  /\ FeedInit
  /\ prev_ip_id = 0
  /\ output_data = [p \in Parts |-> 0]
  /\ lines = << >>

(* The tests at the head of handle_pkt, which takes the frame to start 6   *)
(* bytes before rx_ptr: len, then IPv4 without a VLAN tag, a 20-byte       *)
(* header, UDP and the group.  The tests that follow repeat the last four. *)
Accepts(shape) ==
  /\ shape.size - 6 >= 60
  /\ shape.etype = "ipv4"
  /\ shape.udp
  /\ shape.group

(* handle_pkt() on a buffer that holds frame k. *)
Mut_handle_pkt(k) ==
  LET shape == frames[k].shape
      id == IpId(frames[k])
  IN
  \/ ~Accepts(shape) /\ UNCHANGED clientVars
  \/ /\ Accepts(shape)
     /\ prev_ip_id' = IF Gap(prev_ip_id, id) THEN prev_ip_id ELSE id
     /\ \E r \in DecodeAndPrint(k, shape, Gap(prev_ip_id, id), output_data, lines) :
          output_data' = r.out /\ lines' = r.lines
handle_pkt(k) ==
  LET shape == frames[k].shape
      id == IpId(frames[k])
  IN
  \/ ~Accepts(shape) /\ UNCHANGED clientVars
  \/ /\ Accepts(shape)
     /\ prev_ip_id' = id
     /\ \E r \in DecodeAndPrint(k, shape, Gap(prev_ip_id, id), output_data, lines) :
          output_data' = r.out /\ lines' = r.lines

(* A good event: the buffer's contents go through handle_pkt. *)
HandleFrame ==
  /\ HandleRx
  /\ handle_pkt(mem[Head(evs).rq_id])
  /\ UNCHANGED feedVars

FrameArrives ==
  /\ NicReceive \/ NicDrop
  /\ \E shape \in Traffic : Arrive(shape)
  /\ UNCHANGED clientVars

Upstream ==
  /\ LostUpstream
  /\ UNCHANGED <<vars, clientVars>>

OtherSteps ==
  /\ \/ OpenVi \/ AllocPktBufs \/ RegisterMemory \/ FillRing \/ RingFilled
     \/ AddFilter \/ InitFails \/ Refill \/ Poll \/ HandleRxDiscard
     \/ HandleScatter \/ NicOtherEvent \/ ProcessEnded
  /\ UNCHANGED <<feedVars, clientVars>>

ClientNext == HandleFrame \/ FrameArrives \/ Upstream \/ OtherSteps

ClientSpec == ClientInit /\ [][ClientNext]_allVars

-----------------------------------------------------------------------------
Sub == INSTANCE Subscriber WITH Wanted <- {s \in Traffic : Accepts(s)},
                                ChecksIpId <- TRUE

(* The EF_VI client is a Subscriber: through ring, batches and buffer      *)
(* reuse, what handle_pkt prints are the wanted frames in the order of     *)
(* arrival, each at most once, each line made of its own frame only, with  *)
(* a gap warning exactly when the IP-ID jumps.                             *)
ImplementsSubscriber == Sub!SubSpec
=============================================================================
