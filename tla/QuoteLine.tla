----------------------------- MODULE QuoteLine ------------------------------
(***************************************************************************)
(* What reaches a subscriber, and what it prints.  The feed is external to *)
(* the repository, modelled from what the clients test in a frame: the     *)
(* datagrams of the DCE multicast feed (group 239.239.239.8), numbered by  *)
(* their IP-ID, and whatever else is on the wire.  The rest is the code    *)
(* the four clients share, copied from one to the other: the IP-ID check,  *)
(* the zeroing of output_data, the call of the decoder, the replacement of *)
(* absent prices and the line that is printed.                             *)
(***************************************************************************)
EXTENDS Integers, Sequences

CONSTANTS IpIds,      \* number of IP-IDs: 65536, a uint16_t
          Traffic,    \* the shapes of frame that may arrive
          StartSeqs,  \* how many datagrams the feed may have sent before
          MaxLost     \* bound: datagrams lost before they reach the port

(* A shape is what the clients look at in a frame: the interface it comes  *)
(* in on, its ethertype (a VLAN tag may precede IPv4), whether it is to    *)
(* the group, whether its IP header is 20 bytes long and says UDP, its     *)
(* size, and for the decoder which message it holds and whether prices in  *)
(* it are absent (encoded as a number above 0xffff).                       *)
Shapes == [iface : {"ours", "other"},
           etype : {"ipv4", "dot1q", "other"}, group : BOOLEAN, udp : BOOLEAN,
           size : Nat, msg : {"best", "deep", "bad"}, absent : BOOLEAN]

ASSUME FeedAssumption ==
  /\ IpIds \in Nat \ {0, 1}
  /\ \A s \in Traffic : s \in Shapes
  /\ \A n \in StartSeqs : n \in Nat
  /\ MaxLost \in Nat

VARIABLES frames,  \* the frames that reached the port, oldest first
          sent,    \* datagrams the feed has sent
          lost,    \* how many of them were lost on the way
          lines    \* what the subscriber has printed

feedVars == <<frames, sent, lost>>

IsFeed(shape) == /\ shape.iface = "ours" /\ shape.etype # "other"
                 /\ shape.group /\ shape.udp

(* The IP-ID of a frame: the feed's stack counts its datagrams modulo      *)
(* IpIds; frames of other hosts carry an ID of no meaning, here 0.         *)
IpId(f) == f.seq % IpIds

FeedInit ==
  /\ frames = << >>
  /\ sent \in StartSeqs
  /\ lost = 0

Arrive(shape) ==
  /\ frames' = Append(frames, [shape |-> shape,
                               seq   |-> IF IsFeed(shape) THEN sent + 1 ELSE 0])
  /\ sent' = IF IsFeed(shape) THEN sent + 1 ELSE sent
  /\ UNCHANGED lost

LostUpstream ==
  /\ lost < MaxLost
  /\ sent' = sent + 1
  /\ lost' = lost + 1
  /\ UNCHANGED frames

-----------------------------------------------------------------------------
(* output_data in three parts: the bytes that hold contract_id and         *)
(* gen_time in both records; those that both records use for quotes; those *)
(* only the longer normal_depth_update has.                                *)
Parts == {"head", "quote", "tail"}

RecordParts(msg) == CASE msg = "best" -> {"head", "quote"}
                      [] msg = "deep" -> Parts
                      [] msg = "bad"  -> {}

(* The price fields of the two records. *)
PriceFields(msg) == CASE msg = "best" -> {"bid", "ask", "last"}
                      [] msg = "deep" -> {"bid", "ask"} \X (1 .. 5)
                      [] msg = "bad"  -> {}

(* The prices the clients set to 0 when they are above 0xffff. *)
Mut_ZeroedPrices(msg) ==
  CASE msg = "best" -> {"bid", "ask", "last"}
    [] msg = "deep" -> {"bid", "ask"} \X (1 .. 4)
    [] msg = "bad"  -> {}
ZeroedPrices(msg) == CASE msg = "best" -> {"bid", "ask", "last"}
                       [] msg = "deep" -> {"bid", "ask"} \X (1 .. 5)
                       [] msg = "bad"  -> {}

(* Each part of output_data is tagged with the number of the frame that    *)
(* was decoded into it last, 0 for zeroed bytes.                           *)
Mut_Zeroed(out) == out
Zeroed(out) == [p \in Parts |-> 0]

(* packet_handler_full and packet_handler_payload write the record of the  *)
(* message and return its type.  They need not write every byte of it, and *)
(* they may have written some when they find the message malformed.        *)
Decodings(msg) == IF msg = "bad" THEN {{}, Parts}
                                 ELSE {{"head"}, RecordParts(msg)}

Decoded(out, k, W) == [p \in Parts |-> IF p \in W THEN k ELSE out[p]]

(* The line printed for frame k of the given shape from output_data: a     *)
(* quote or an error, whether a gap warning precedes it, whether all it    *)
(* shows comes from frame k, and the absent prices it shows.               *)
Line(k, shape, warned, out) ==
  [frame  |-> k,
   kind   |-> shape.msg,
   warned |-> warned,
   pure   |-> \A p \in RecordParts(shape.msg) : out[p] \in {0, k},
   absent |-> IF shape.absent THEN PriceFields(shape.msg) \ ZeroedPrices(shape.msg)
                              ELSE {}]

(* The comparison of the IP-ID with the uint16_t successor of the last. *)
Mut_Gap(prev, id) == id # prev + 1
Gap(prev, id) == id # (prev + 1) % IpIds

(* From memset to the printed line: output_data and lines as they may be   *)
(* after frame k.                                                          *)
DecodeAndPrint(k, shape, warned, out, lns) ==
  {[out   |-> Decoded(Zeroed(out), k, W),
    lines |-> Append(lns, Line(k, shape, warned, Decoded(Zeroed(out), k, W)))] :
      W \in Decodings(shape.msg)}
=============================================================================
