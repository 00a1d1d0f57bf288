------------------------------- MODULE DlList -------------------------------
(***************************************************************************)
(* The circular doubly linked lists of ci/tools/dllist.h and, with the     *)
(* same operations on offsets in place of pointers, onload/oo_p_dllist.h.  *)
(* A list is a link that is its own neighbour when the list is empty.  A   *)
(* link that was taken out keeps its old neighbours unless the call says   *)
(* otherwise.  One loop that may remove the current link runs among the    *)
(* other calls.                                                            *)
(***************************************************************************)
EXTENDS Integers, Sequences, SequencesExt

CONSTANTS Lists, Links, Null

Nodes == Lists \cup Links

VARIABLES m,             \* next and prev of every list and link
          content,       \* the links each list should hold
          self,          \* links in no list that are linked to themselves
          it             \* the loop: list, p_lnk, temp_next, links still to visit

vars == <<m, content, self, it>>

Members == UNION {ToSet(content[l]) : l \in Lists}
NoLoop == [list |-> Null, at |-> Null, tmp |-> Null, todo |-> << >>]

TypeOK ==
  /\ m \in [next : [Nodes -> Nodes], prev : [Nodes -> Nodes]]
  /\ content \in [Lists -> Seq(Links)] /\ self \subseteq Links \ Members
  /\ it.list \in Lists \cup {Null} /\ {it.at, it.tmp} \subseteq Nodes \cup {Null} /\ it.todo \in Seq(Links)

Init ==
  /\ m = [next |-> [x \in Nodes |-> x], prev |-> [x \in Nodes |-> x]]
  /\ content = [l \in Lists |-> << >>] /\ self = Links /\ it = NoLoop

-----------------------------------------------------------------------------
(* The operations on the memory, in the order of their assignments *)

SelfLinked(mem, x) == [mem EXCEPT !.next[x] = x, !.prev[x] = x]
After(mem, before, x) ==
  LET m1 == [mem EXCEPT !.next[x] = mem.next[before], !.prev[x] = before]
  IN  [m1 EXCEPT !.prev[m1.next[before]] = x, !.next[before] = x]
Before(mem, after, x) ==
  LET m1 == [mem EXCEPT !.next[x] = after, !.prev[x] = mem.prev[after]]
  IN  [m1 EXCEPT !.next[m1.prev[after]] = x, !.prev[after] = x]
Without(mem, x) ==
  LET m1 == [mem EXCEPT !.next[mem.prev[x]] = mem.next[x]]
  IN  [m1 EXCEPT !.prev[m1.next[x]] = m1.prev[x]]
Mut_Rehomed(mem, to, from) ==
  LET m1 == [mem EXCEPT !.next[to] = mem.next[from], !.prev[to] = mem.prev[from]]
      m2 == [m1 EXCEPT !.prev[m1.next[to]] = to, !.next[m1.prev[to]] = to]
  IN  SelfLinked(m2, from)
Rehomed(mem, to, from) ==
  IF mem.next[from] = from THEN SelfLinked(mem, to)
  ELSE LET m1 == [mem EXCEPT !.next[to] = mem.next[from], !.prev[to] = mem.prev[from]]
           m2 == [m1 EXCEPT !.prev[m1.next[to]] = to, !.next[m1.prev[to]] = to]
       IN  SelfLinked(m2, from)
Joined(mem, list, from) ==
  IF mem.next[from] = from THEN mem
  ELSE LET m1 == [mem EXCEPT !.next[mem.prev[list]] = mem.next[from]]
           m2 == [m1 EXCEPT !.prev[m1.next[from]] = m1.prev[list]]
           m3 == [m2 EXCEPT !.prev[list] = m2.prev[from]]
           m4 == [m3 EXCEPT !.next[m3.prev[from]] = list]
       IN  SelfLinked(m4, from)
Spliced(mem, list, into) ==       \* oo_p_dllink_splice, at the front
  IF mem.next[list] = list THEN mem
  ELSE LET first == mem.next[list]
           last == mem.prev[list]
           next == mem.next[into]
       IN  [mem EXCEPT !.prev[first] = into, !.next[into] = first,
                       !.next[last] = next, !.prev[next] = last]

-----------------------------------------------------------------------------
(* The calls.  While a loop runs over a list only the loop changes it.     *)
Busy(l) == it.list = l
Fresh(x) == x \in Links \ Members /\ x # it.at
ListOf(x) == CHOOSE l \in Lists : x \in ToSet(content[l])
Place(x) == CHOOSE i \in 1 .. Len(content[ListOf(x)]) : content[ListOf(x)][i] = x

Push(l, x) ==
  /\ ~Busy(l) /\ Fresh(x)
  /\ \/ m' = After(m, l, x) /\ content' = [content EXCEPT ![l] = <<x>> \o @]
     \/ m' = Before(m, l, x) /\ content' = [content EXCEPT ![l] = Append(@, x)]
  /\ self' = self \ {x} /\ UNCHANGED it

Insert(y, x) ==
  /\ y \in Members /\ ~Busy(ListOf(y)) /\ Fresh(x)
  /\ LET l == ListOf(y) IN
     \/ m' = After(m, y, x) /\ content' = [content EXCEPT ![l] = InsertAt(@, Place(y) + 1, x)]
     \/ m' = Before(m, y, x) /\ content' = [content EXCEPT ![l] = InsertAt(@, Place(y), x)]
  /\ self' = self \ {x} /\ UNCHANGED it

Taken(x) == [l \in Lists |-> SelectSeq(content[l], LAMBDA e : e # x)]

(* ci_dllist_remove, of a member or of a link that is linked to itself *)
RemoveLink(x) ==
  /\ x \in self \/ (x \in Members /\ ~Busy(ListOf(x)))
  /\ m' = Without(m, x) /\ content' = Taken(x)
  /\ UNCHANGED <<self, it>>
RemoveSafe(x) ==
  /\ x \in self \/ (x \in Members /\ ~Busy(ListOf(x)))
  /\ m' = SelfLinked(Without(m, x), x) /\ content' = Taken(x) /\ self' = self \cup {x}
  /\ UNCHANGED it

Pop(l) ==
  /\ ~Busy(l) /\ m.next[l] # l
  /\ \/ m' = Without(m, m.next[l]) /\ content' = [content EXCEPT ![l] = Tail(@)]
     \/ m' = Without(m, m.prev[l]) /\ content' = [content EXCEPT ![l] = Front(@)]
  /\ UNCHANGED <<self, it>>

(* The second list ends up empty; ci_dllist_rehome needs the first to be,  *)
(* and the caller of splice initialises the second.                        *)
Merge(to, from) ==
  /\ to # from /\ ~Busy(to) /\ ~Busy(from)
  /\ \/ content[to] = << >> /\ m' = Rehomed(m, to, from) /\ content' = [content EXCEPT ![to] = content[from], ![from] = << >>]
     \/ m' = Joined(m, to, from) /\ content' = [content EXCEPT ![to] = @ \o content[from], ![from] = << >>]
     \/ m' = SelfLinked(Spliced(m, from, to), from) /\ content' = [content EXCEPT ![to] = content[from] \o @, ![from] = << >>]
  /\ UNCHANGED <<self, it>>

(* CI_DLLIST_FOR_EACH4 and oo_p_dllink_for_each_safe *)
LoopStart(l) ==
  /\ it = NoLoop
  /\ it' = [list |-> l, at |-> m.next[l], tmp |-> m.next[m.next[l]], todo |-> content[l]]
  /\ UNCHANGED <<m, content, self>>
InLoop == it.list # Null /\ it.at # it.list

(* The body leaves the link alone or takes it out, to be used elsewhere. *)
Mut_LoopNext ==
  /\ InLoop
  /\ \E r \in BOOLEAN :
       /\ m' = IF r THEN SelfLinked(Without(m, it.at), it.at) ELSE m
       /\ content' = IF r THEN Taken(it.at) ELSE content
       /\ self' = IF r THEN self \cup {it.at} ELSE self
  /\ it' = [it EXCEPT !.at = m'.next[it.at], !.tmp = m'.next[it.tmp], !.todo = Tail(@)]
LoopNext ==
  /\ InLoop
  /\ \E r \in BOOLEAN :
       /\ m' = IF r THEN SelfLinked(Without(m, it.at), it.at) ELSE m
       /\ content' = IF r THEN Taken(it.at) ELSE content
       /\ self' = IF r THEN self \cup {it.at} ELSE self
  /\ it' = [it EXCEPT !.at = it.tmp, !.tmp = m'.next[it.tmp], !.todo = Tail(@)]
LoopEnd == it.list # Null /\ it.at = it.list /\ it' = NoLoop /\ UNCHANGED <<m, content, self>>

Next ==
  \/ \E l \in Lists : Pop(l) \/ LoopStart(l) \/ \E k \in Lists : Merge(l, k)
  \/ \E x \in Links : \/ \E l \in Lists : Push(l, x)
                      \/ \E y \in Links : Insert(y, x)
                      \/ RemoveLink(x) \/ RemoveSafe(x)
  \/ LoopNext \/ LoopEnd
Spec == Init /\ [][Next]_vars

-----------------------------------------------------------------------------
(* Both ways round, the links from a list pass through its content and     *)
(* return: no call leaves a neighbour that points to a link which is gone, *)
(* and removing a link that is linked to itself leaves the lists alone.    *)
(* It implies CI_DLLIST_LINK_ASSERT_VALID of every member.                 *)
LinkedBothWays ==
  /\ \A l \in Lists :
       LET ring == <<l>> \o content[l] \o <<l>> IN
       \A i \in 1 .. Len(ring) - 1 : m.next[ring[i]] = ring[i + 1] /\ m.prev[ring[i + 1]] = ring[i]
  /\ \A x \in self : m.next[x] = x /\ m.prev[x] = x

(* A loop that may remove the link it is at visits every link of the list  *)
(* once, in order, and then ends.                                          *)
LoopVisitsEach ==
  it.list # Null => it.at = (IF it.todo = << >> THEN it.list ELSE it.todo[1])
=============================================================================
