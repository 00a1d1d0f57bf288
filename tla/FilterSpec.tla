----------------------------- MODULE FilterSpec -----------------------------
(***************************************************************************)
(* filter_parse (EF_VI/utils.cpp): the text of a filter, such as           *)
(* "udp:vid=5,239.1.1.1:80", becomes an ef_filter_spec by one pass of      *)
(* strtok() calls that cut the text as they go.  The text is modelled as   *)
(* the kind of the word before the first colon and the fields between the  *)
(* commas after it.  Words and parameters that are parsed alike are one:   *)
(* udp and tcp are "ip", the types ethertype and ipproto are "number", the *)
(* parameters of these names in an eth filter are "proto=", both -mis, both *)
(* -all and the four without fields (tx-sniff, block-kernel...) one each.  *)
(***************************************************************************)
EXTENDS Integers, Sequences, SequencesExt

CONSTANTS MaxFields   \* bound on the fields of a text

Hosts == {"host4", "host6"}
Vids == {"vid=", "vid=5", "vid=x"}
Protos == {"proto=", "proto=7"}
Types == {"ip", "eth", "number", "mis", "all", "sniff", "block", "junk"}
Fields(type) ==
  {"", "junk"} \cup Vids \cup
  CASE type = "ip" -> {"mcastloop-rx"} \cup Hosts
    [] type = "eth" -> {"mac"} \cup Protos
    [] type = "number" -> {"7"}
    [] OTHER -> {"promisc", "no-promisc"}

(* rest is << >> when no colon follows the word, <<"">> when nothing       *)
(* follows the colon.                                                      *)
Texts == UNION {[type : {t}, rest : BoundedSeq(Fields(t), MaxFields)] : t \in Types}

VARIABLES text, remainder,   \* the text, and what of it is left
          stage, rc,         \* the place in the function; 0 or -EINVAL or abort()
          fs, mcast          \* the ef_filter_spec and *sa_mcast

vars == <<text, remainder, stage, rc, fs, mcast>>

NoVlan == -1                 \* EF_FILTER_VLAN_ID_ANY
NoSpec == [loop |-> FALSE, vlan |-> NoVlan, match |-> {}]
Matches == {"ip4_local", "ip4_full", "ip6_local", "ip6_full", "eth_local", "proto",
            "mis", "all", "sniff", "sniff_promisc", "block"}

TypeOK ==
  /\ text.type \in Types /\ text.rest \in Seq(Fields(text.type))
  /\ remainder \in Seq(Fields(text.type))
  /\ stage \in {"type", "loop", "vid", "host", "eth", "mac", "number", "done"}
  /\ rc \in {"EINVAL", "ok", "abort"}
  /\ fs.loop \in BOOLEAN /\ fs.vlan \in {NoVlan, 0, 5} /\ fs.match \subseteq Matches
  /\ mcast \in {"unset"} \cup Hosts

Init ==
  /\ text \in Texts /\ remainder = text.rest
  /\ stage = "type" /\ rc = "EINVAL" /\ fs = NoSpec /\ mcast = "unset"

-----------------------------------------------------------------------------
(* strtok(NULL, ""): what is left, NULL if that is nothing *)
IsNull(r) == r = << >> \/ r = <<"">>
Whole == text.rest = << >>

Out == stage' = "done" /\ UNCHANGED <<remainder, rc, fs, mcast>>
Abort == stage' = "done" /\ rc' = "abort" /\ UNCHANGED <<remainder, fs, mcast>>
Continue(s, r, f) == stage' = s /\ remainder' = r /\ fs' = f /\ UNCHANGED <<rc, mcast>>
Accept(f) == stage' = "done" /\ rc' = "ok" /\ fs' = f /\ UNCHANGED <<remainder, mcast>>
With(m) == [fs EXCEPT !.match = @ \cup {m}]

(* consume_parameter: atoi() of what follows the equals sign, which is 0   *)
(* if that is no number; the rest is NULL if the parameter is empty or the *)
(* last field.                                                             *)
Mut_Consumed(param) == Tail(remainder)
Consumed(param) == IF param \in {"vid=", "proto="} THEN << >> ELSE Tail(remainder)
Atoi(param) == IF param = "vid=5" THEN 5 ELSE 0

(* The comparison of the word before the colon *)
Type ==
  /\ stage = "type" /\ UNCHANGED text
  /\ \/ /\ text.type \in {"ip", "eth", "number"}
        /\ IF IsNull(remainder) THEN Out
           ELSE Continue(IF text.type = "ip" THEN "loop" ELSE "vid", remainder, fs)
     \/ text.type = "all" /\ IF Whole THEN Accept(With("all")) ELSE Out
     \/ text.type = "junk" /\ Out

(* The match is set before the VLAN is looked at; "vid=," is not empty. *)
TypeMismatch ==
  /\ stage = "type" /\ text.type = "mis" /\ UNCHANGED text
  /\ IF Whole THEN Accept(With("mis"))
     ELSE IF IsNull(remainder) THEN Continue("done", remainder, With("mis"))
     ELSE IF remainder[1] \notin Vids \/ remainder = <<"vid=">>
     THEN Continue("done", remainder, With("mis"))
     ELSE Accept([With("mis") EXCEPT !.vlan = Atoi(remainder[1])])

TypeSniff ==
  /\ stage = "type" /\ text.type = "sniff" /\ UNCHANGED text
  /\ IF Whole \/ remainder = <<"promisc">> THEN Accept(With("sniff_promisc"))
     ELSE IF remainder = <<"no-promisc">> THEN Accept(With("sniff")) ELSE Out

(* tx-sniff, block-kernel and the others that look at nothing else *)
TypeBlock ==
  /\ stage = "type" /\ text.type = "block" /\ Accept(With("block")) /\ UNCHANGED text

(* "mcastloop-rx," is an option only with its comma. *)
Loop ==
  /\ stage = "loop" /\ UNCHANGED text
  /\ IF remainder[1] = "mcastloop-rx" /\ Len(remainder) > 1
     THEN Continue(IF IsNull(Tail(remainder)) THEN "done" ELSE "vid", Tail(remainder),
                   [NoSpec EXCEPT !.loop = TRUE])
     ELSE Continue("vid", remainder, fs)

(* For "eth" the VLAN is kept in a variable until the address is known. *)
VlanId == IF text.rest[1] \in Vids THEN Atoi(text.rest[1]) ELSE NoVlan
AfterVid == CASE text.type = "ip" -> "host" [] text.type = "eth" -> "eth" [] OTHER -> "number"
Vid ==
  /\ stage = "vid" /\ UNCHANGED text
  /\ IF remainder[1] \notin Vids THEN Continue(AfterVid, remainder, fs)
     ELSE LET r == Consumed(remainder[1]) IN
          IF IsNull(r) THEN Continue("done", r, fs)
          ELSE Continue(AfterVid, r, IF text.type = "eth" THEN fs
                                     ELSE [fs EXCEPT !.vlan = Atoi(remainder[1])])

(* strtok(remainder, ",") skips commas at the front. *)
Skipped == SelectInSeq(remainder, LAMBDA f : f # "")
LocalRemote ==
  /\ stage = "host" /\ Len(remainder) > 1 /\ UNCHANGED text
  /\ LET i == Skipped
         local == remainder[i]
         rest == SubSeq(remainder, i + 1, Len(remainder))
     IN  IF i = 0 THEN Abort
         ELSE IF local \notin Hosts \/ rest # <<local>> THEN Abort
         ELSE Accept(With(IF local = "host4" THEN "ip4_full" ELSE "ip6_full"))
Mut_Local ==
  /\ stage = "host" /\ Len(remainder) = 1 /\ UNCHANGED text
  /\ IF remainder[1] \notin Hosts THEN Abort
     ELSE /\ stage' = "done" /\ rc' = "ok" /\ UNCHANGED remainder
          /\ fs' = With(IF remainder[1] = "host4" THEN "ip4_local" ELSE "ip6_local")
          /\ mcast' = remainder[1]
Local ==
  /\ stage = "host" /\ Len(remainder) = 1 /\ UNCHANGED text
  /\ IF remainder[1] \notin Hosts THEN Abort
     ELSE /\ stage' = "done" /\ rc' = "ok" /\ UNCHANGED remainder
          /\ fs' = With(IF remainder[1] = "host4" THEN "ip4_local" ELSE "ip6_local")
          /\ mcast' = IF remainder[1] = "host4" THEN remainder[1] ELSE mcast

Eth ==
  /\ stage = "eth" /\ UNCHANGED text
  /\ IF remainder[1] \notin Protos THEN Continue("mac", remainder, fs)
     ELSE LET r == Consumed(remainder[1]) IN
          IF IsNull(r) THEN Continue("done", r, fs) ELSE Continue("mac", r, With("proto"))
Mac ==
  /\ stage = "mac" /\ UNCHANGED text
  /\ IF remainder = <<"mac">> THEN Accept([With("eth_local") EXCEPT !.vlan = VlanId]) ELSE Out
Number ==
  /\ stage = "number" /\ UNCHANGED text
  /\ IF remainder = <<"7">> THEN Accept(With("proto")) ELSE Out

Done == stage = "done" /\ UNCHANGED vars
Next == \/ Type \/ TypeMismatch \/ TypeSniff \/ TypeBlock \/ Loop \/ Vid \/ LocalRemote \/ Local
        \/ Eth \/ Mac \/ Number \/ Done
Spec == Init /\ [][Next]_vars

-----------------------------------------------------------------------------
(* The texts a user may write, as a grammar: the options in their order,   *)
(* then what the filter is about.                                          *)
Opt(S) == {<< >>} \cup {<<x>> : x \in S}
About(type) ==
  CASE type = "ip" -> {<<h>> : h \in Hosts} \cup {<<h, h>> : h \in Hosts}
    [] type = "eth" -> {o \o <<"mac">> : o \in Opt({"proto=7"})}
    [] type = "number" -> {<<"7">>}
    [] OTHER -> {}
LoopOpt(type) == IF type = "ip" THEN Opt({"mcastloop-rx"}) ELSE {<< >>}
Derives(d) == text.rest = d[1] \o d[2] \o d[3]
Derivations(vids, about) == LoopOpt(text.type) \X Opt(vids) \X about
InGrammar ==
  \/ \E d \in Derivations({"vid=5"}, About(text.type)) : Derives(d)
  \/ text.type = "block"
  \/ text.type \in {"all", "mis", "sniff"} /\ Whole
  \/ text.type = "sniff" /\ text.rest \in {<<"promisc">>, <<"no-promisc">>}
  \/ text.type = "mis" /\ text.rest = <<"vid=5">>

(* Texts outside the grammar that are accepted all the same: a VLAN that   *)
(* is not a number, empty fields before two addresses, and anything after  *)
(* the VLAN of a mismatch filter.                                          *)
EmptyFirst == {[i \in 1 .. k |-> ""] \o <<h, h>> : k \in 1 .. MaxFields, h \in Hosts}
Lenient == About(text.type) \cup IF text.type = "ip" THEN EmptyFirst ELSE {}
Tolerated ==
  \/ \E d \in Derivations({"vid=5", "vid=x"}, Lenient) : Derives(d)
  \/ text.type = "mis" /\ text.rest # << >> /\ text.rest[1] \in Vids /\ text.rest # <<"vid=">>

(* The parser accepts the texts of the grammar, the tolerated ones and no  *)
(* others: no option is lost or taken for an address by the strtok() calls *)
(* that cut the text under one another, in any order and number of fields. *)
AcceptsTheGrammar == stage = "done" => (rc = "ok" <=> InGrammar \/ Tolerated)

(* What an accepted text means: the filter has the option and the VLAN     *)
(* that the text has, if any (0 for one that is not a number), and matches *)
(* one thing; *sa_mcast is set only for a single IPv4 address.             *)
MeansWhatItSays ==
  stage = "done" /\ rc = "ok" /\ About(text.type) # {} =>
    \E d \in Derivations({"vid=5", "vid=x"}, Lenient) :
      /\ Derives(d)
      /\ fs.loop <=> d[1] # << >>
      /\ fs.vlan = IF d[2] = << >> THEN NoVlan ELSE IF d[2] = <<"vid=5">> THEN 5 ELSE 0
      /\ fs.match # {}
      /\ mcast = IF d[3] = <<"host4">> THEN "host4" ELSE "unset"

(* The comment on consume_parameter: an argument that is invalid leaves    *)
(* NULL, on which every caller gives up.                                   *)
InvalidVlanRefused ==
  stage = "done" /\ About(text.type) # {} /\ "vid=x" \in ToSet(text.rest) => rc # "ok"
=============================================================================
