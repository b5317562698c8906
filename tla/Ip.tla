--------------------------------- MODULE Ip ---------------------------------
(***************************************************************************)
(* The enforcer for the kernel's own forwarding path (enforcer/ip.rs): the *)
(* nftables sets and maps that gate, count and mark a payer's packets, the *)
(* tc classes that shape them, and the refresh that moves a payer between  *)
(* counting by address and counting by link as the kernel's routes and     *)
(* neighbours change.                                                      *)
(*                                                                         *)
(* Every call comes from the node's loop, one at a time.  nft, tc and the  *)
(* kernel are external: adding a set member that is there is no error,     *)
(* adding a map key that holds another value is, and a delete goes by key. *)
(* Only payers with an IPv4 address; parsing the tables is left out, as a  *)
(* refresh chooses any tables.                                             *)
(***************************************************************************)
EXTENDS Integers, FiniteSets, SequencesExt

CONSTANTS Peers,
          Addrs,         \* IPv4 addresses
          Macs, NoMac,
          V6,            \* forwardable IPv6 addresses, in order: numbers
          MaxV6,         \* MAX_V6_PER_PEER
          Levels, Rates,
          DefaultClass,  \* the qdisc's default class: 9999
          FirstRefused,  \* class numbers tc does not read: from 10000, five digits of hexadecimal
          MaxClass,      \* the last class number handed out here
          Allowances,    \* bounds on what happens in a behaviour
          Tenants,       \* whether two payers may be at one address
          Clashes        \* whether an IPv6 address an idle payer keeps may be another's

Allowance ==
    [peers  : SUBSET Peers,                 \* who connects
     addrs  : SUBSET Addrs,                 \* from where
     v6     : SUBSET V6,                    \* IPv6 addresses in use
     broken : SUBSET {"gate", "gate6", "refresh"},  \* where a command may fail: gate's IPv4
                                            \* one, its IPv6 ones, a refresh's additions
     faults : Nat]                          \* commands that fail

ASSUME IpAssumption ==
    /\ Levels \subseteq {"none", "active", "free"} /\ Rates \subseteq Nat
    /\ V6 \subseteq Nat /\ MaxV6 \in Nat /\ MaxClass \in Nat
    /\ Allowances \subseteq Allowance

VARIABLES peers,     \* Ip.peers
          next,      \* next_classid
          elems,     \* elements of the table's sets and maps
          marks,     \* by address, the mark its last rule sets; rules stay
          filters,   \* marks that select a class
          classes,   \* the classes there are, with their rates
          counters,  \* the named counters: none, at zero or past it
          missed,    \* elements whose last command, a gate's, failed: read by no step
          spare      \* what of its Allowance is left to the behaviour

vars == <<peers, next, elems, marks, filters, classes, counters, missed, spare>>

NoLink == [mac |-> NoMac, v6 |-> {}, overflowed |-> FALSE]

Gone == [on |-> FALSE, addr |-> CHOOSE a \in Addrs : TRUE, class |-> 0, access |-> "none", rate |-> 0,
         carried |-> FALSE, up |-> FALSE, mac |-> NoMac, link |-> NoLink]

Live == {p \in Peers : peers[p].on}

-----------------------------------------------------------------------------
(* Elements *)

Member == <<"member", 0>>

Element(map, key, value) == [map |-> map, key |-> key, value |-> value]

Tx(p) == <<p, "tx">>

Rx(p) == <<p, "rx">>

\* Mutant: what comes from an upstream whose MAC is known is counted by its
\* address too.
CountedBothWays(p, e) ==
    IF ~e.up
    THEN {Element("down_tx", e.addr, Tx(p)), Element("down_rx", e.addr, Rx(p))}
    ELSE {Element("up_tx", e.addr, Tx(p)), Element("down_rx", e.addr, Rx(p))}
         \cup IF e.mac = NoMac THEN {} ELSE {Element("up_rx", e.mac, Rx(p))}

\* By address, or, for an upstream, by next hop and MAC, if it is known.
MapElements(p, e) ==
    IF ~e.up
    THEN {Element("down_tx", e.addr, Tx(p)), Element("down_rx", e.addr, Rx(p))}
    ELSE {Element("up_tx", e.addr, Tx(p)),
          IF e.mac = NoMac THEN Element("down_rx", e.addr, Rx(p)) ELSE Element("up_rx", e.mac, Rx(p))}

\* Mutant: an overflowed link's MAC stays in the allowed set.
OverflowOpen(p, link, carried, class) ==
    IF link = NoLink THEN {}
    ELSE {Element("known_mac", link.mac, Member), Element("down6_rx", link.mac, Rx(p))}
         \cup (IF carried THEN {Element("allowed_mac", link.mac, Member)} ELSE {})
         \cup UNION {{Element("known6", a, Member), Element("down6_tx", a, Tx(p)),
                      Element("mark6", a, <<"mark", class>>)}
                     \cup (IF carried THEN {Element("allowed6", a, Member)} ELSE {}) : a \in link.v6}

\* A customer's IPv6: known, allowed while it is carried and has not
\* overflowed, counted into its two counters, and marked for its class.
LinkElements(p, link, carried, class) ==
    LET open == carried /\ ~link.overflowed
        sets == {"known"} \cup IF open THEN {"allowed"} ELSE {}
    IN IF link = NoLink THEN {}
       ELSE {Element(s \o "_mac", link.mac, Member) : s \in sets}
            \cup {Element("down6_rx", link.mac, Rx(p))}
            \cup {Element(s \o "6", a, Member) : s \in sets, a \in link.v6}
            \cup {Element("down6_tx", a, Tx(p)) : a \in link.v6}
            \cup {Element("mark6", a, <<"mark", class>>) : a \in link.v6}

Elements(p, e) == MapElements(p, e) \cup LinkElements(p, e.link, e.carried, e.class)

-----------------------------------------------------------------------------
(* nft: the commands in `bad' fail. *)

Deleted(es, old, bad) == {e \in es : ~ \E g \in old \ bad : g.map = e.map /\ g.key = e.key}

Refused(es, new, bad) ==
    {e \in new : e \in bad \/ \E f \in es : f.map = e.map /\ f.key = e.key /\ f.value # e.value}

Inserted(es, new, bad) == es \cup (new \ Refused(es, new, bad))

\* apply_elements: removals first, then additions.
Applied(es, old, new, bad) == Inserted(Deleted(es, old \ new, bad), new \ old, bad)

\* What may fail during a call that touches `es'.
Failures(call, es) ==
    IF call \in spare.broken THEN {bad \in SUBSET es : Cardinality(bad) <= spare.faults} ELSE {{}}

\* A command for each of `es': those in `bad' fail.
Tried(es, bad) == (missed \ es) \cup bad

Failed(bad) == spare' = [spare EXCEPT !.faults = @ - Cardinality(bad)]

-----------------------------------------------------------------------------
(* What a refresh works out *)

Gate4(a) == {Element("known", a, Member), Element("allowed", a, Member)}

Lowest(S, n) == {a \in S : Cardinality({b \in S : b < a}) < n}

FirstThen(first, then) ==
    LET a == Lowest(first, MaxV6) IN a \cup Lowest(then \ a, MaxV6 - Cardinality(a))

\* A customer's MAC and IPv6 addresses: those the table shows, and those it
\* had that no other MAC has claimed.
CustomerLink(addr, up, n4, n6, previous) ==
    IF up THEN NoLink
    ELSE IF n4[addr] = NoMac THEN previous
    ELSE LET mac == n4[addr]
             kept == IF previous.mac = mac THEN {a \in previous.v6 : n6[a] \in {NoMac, mac}} ELSE {}
             seen == {a \in spare.v6 : n6[a] = mac}
             over == Cardinality(seen) > MaxV6
         IN [mac |-> mac, overflowed |-> over,
             v6 |-> IF over THEN FirstThen(kept, seen) ELSE FirstThen(seen, kept)]

\* classify: an upstream is a gateway of some route.
Planned(p, gateways, n4, n6) ==
    LET e == peers[p]
        up == e.addr \in gateways
    IN [e EXCEPT !.up = up, !.mac = IF up THEN n4[e.addr] ELSE NoMac,
                 !.link = CustomerLink(e.addr, up, n4, n6, e.link)]

\* What is removed, over all payers: nothing that some payer's new state holds.
PlanMoves(plan) ==
    LET claimed == UNION {Elements(p, plan[p]) : p \in Live}
    IN UNION {Elements(p, peers[p]) : p \in Live} \ claimed

\* One payer's additions; if one fails the payer's record stays as it was.
AddFor(state, p, plan, bad) ==
    LET fresh == Elements(p, plan[p]) \ Elements(p, peers[p])
    IN IF plan[p] = peers[p] THEN state
       ELSE [elems |-> Inserted(state.elems, fresh, bad),
             peers |-> IF Refused(state.elems, fresh, bad) = {} THEN [state.peers EXCEPT ![p] = plan[p]]
                       ELSE state.peers]

\* No MAC is at two addresses or at another payer's while an idle one keeps it;
\* nor, unless Clashes, has it claimed an IPv6 address that one keeps.
Apart(n4, n6) ==
    /\ \A a, b \in Addrs : (a # b /\ n4[a] = n4[b]) => n4[a] = NoMac
    /\ \A p \in Live : (n4[peers[p].addr] = NoMac /\ peers[p].link # NoLink) =>
          /\ \A a \in Addrs : n4[a] # peers[p].link.mac
          /\ Clashes \/ \A a \in peers[p].link.v6 : n6[a] \in {NoMac, peers[p].link.mac}

Refresh ==
    \E gateways \in SUBSET Addrs, n4 \in [Addrs -> Macs \cup {NoMac}], n6 \in [spare.v6 -> Macs \cup {NoMac}] :
      /\ Apart(n4, n6)
      /\ LET plan == [p \in Live |-> Planned(p, gateways, n4, n6)]
             fresh == UNION {Elements(p, plan[p]) \ Elements(p, peers[p]) : p \in Live}
         IN \E bad \in Failures("refresh", fresh), order \in SetToSeqs(Live) :
              LET start == [elems |-> Deleted(elems, PlanMoves(plan), {}), peers |-> peers]
                  end == FoldLeft(LAMBDA s, p : AddFor(s, p, plan, bad), start, order)
              IN /\ elems' = end.elems /\ peers' = end.peers
                 /\ missed' = missed \ (PlanMoves(plan) \cup fresh)
                 /\ Failed(bad)
      /\ UNCHANGED <<next, marks, filters, classes, counters>>

-----------------------------------------------------------------------------
(* The calls *)

\* tc refuses a number it does not read.
WithClass(cs, c, rate) ==
    IF c >= FirstRefused THEN cs
    ELSE [x \in DOMAIN cs \cup {c} |-> IF x = c THEN rate ELSE cs[x]]

\* Handed out once.
NextClass(n) == n + 1

\* Mutant: the rule there is for the address is kept.
OldMark(a, c) == IF marks[a] = 0 THEN c ELSE marks[a]

\* One more rule, after those there are: its mark is the one that stays.
NewMark(a, c) == c

Register(p, a) ==
    /\ p \in spare.peers \ Live /\ a \in spare.addrs /\ next <= MaxClass
    /\ Tenants \/ \A q \in Live : peers[q].addr # a
    /\ LET e == [Gone EXCEPT !.on = TRUE, !.addr = a, !.class = next]
       IN /\ peers' = [peers EXCEPT ![p] = e]
          /\ elems' = Inserted(elems, {Element("known", a, Member)} \cup MapElements(p, e), {})
    /\ next' = NextClass(next)
    /\ marks' = [marks EXCEPT ![a] = NewMark(a, next)]
    /\ filters' = IF next < FirstRefused THEN filters \cup {next} ELSE filters
    /\ classes' = WithClass(classes, next, 0)
    /\ counters' = [counters EXCEPT ![p] = IF @ = "none" THEN "zero" ELSE @]
    /\ UNCHANGED <<missed, spare>>

Carried(access, rate) == access = "free" \/ rate > 0

Follows(p, carried) == LinkElements(p, peers[p].link, carried, peers[p].class)

\* gate: the IPv4 element, and with it the IPv6 ones.  A failure of the first
\* is not recorded, so the next change tries again; one of the others is not
\* told from success.
Gate(p, access, rate) ==
    LET e == peers[p]
        carried == Carried(access, rate)
        v4 == {Element("allowed", e.addr, Member)}
        old == (IF carried THEN {} ELSE v4) \cup Follows(p, e.carried)
        new == (IF carried THEN v4 ELSE {}) \cup Follows(p, carried)
        six == ((old \ new) \cup (new \ old)) \ v4
        set(yes) == [peers EXCEPT ![p].access = access, ![p].rate = rate, ![p].carried = yes]
    IN \/ carried = e.carried /\ peers' = set(carried) /\ UNCHANGED <<elems, missed, spare>>
       \/ \E bad \in Failures("gate", v4) \ {{}} :
             carried # e.carried /\ peers' = set(e.carried) /\ Failed(bad) /\ UNCHANGED <<elems, missed>>
       \/ \E bad \in Failures("gate6", six) :
             /\ carried # e.carried
             /\ peers' = set(carried)
             /\ elems' = Applied(elems, old, new, bad)
             /\ missed' = Tried(six, bad)
             /\ Failed(bad)

SetAccess(p, l) ==
    /\ p \in Live
    /\ Gate(p, l, peers[p].rate)
    /\ UNCHANGED <<next, marks, filters, classes, counters>>

SetShapingRate(p, r) ==
    /\ p \in Live
    /\ Gate(p, peers[p].access, r)
    /\ classes' = WithClass(classes, peers[p].class, r)
    /\ UNCHANGED <<next, marks, filters, counters>>

RemovedWith(p) == Elements(p, peers[p]) \cup Gate4(peers[p].addr)

\* Out of the sets and maps, filters before class; the mark rule and the
\* counters stay.
RemovePeer(p) ==
    /\ p \in Live
    /\ elems' = Deleted(elems, RemovedWith(p), {})
    /\ filters' = filters \ {peers[p].class}
    /\ classes' = [c \in DOMAIN classes \ {peers[p].class} |-> classes[c]]
    /\ peers' = [peers EXCEPT ![p] = Gone]
    /\ missed' = missed \ RemovedWith(p)
    /\ UNCHANGED <<next, marks, counters, spare>>

-----------------------------------------------------------------------------
(* Packets, as the rules of the forward chain see them *)

Held(map, key) == \E e \in elems : e.map = map /\ e.key = key

Dropped(known, allowed, key) == Held(known, key) /\ ~Held(allowed, key)

Dropped4(a) == Dropped("known", "allowed", a)

DroppedOut6(mac) == Dropped("known_mac", "allowed_mac", mac)

DroppedIn6(a) == Dropped("known6", "allowed6", a)

\* How often a packet that matches these maps on these keys is counted, and
\* against whom.
Counted(lookups) == {e \in elems : <<e.map, e.key>> \in lookups}

\* The rate of the class a mark selects: that of the default class if there
\* is none.
ShapedTo(mark) ==
    LET c == IF mark \in filters /\ mark \in DOMAIN classes THEN mark ELSE DefaultClass
    IN IF c \in DOMAIN classes THEN <<classes[c]>> ELSE <<>>

\* A payer's traffic moves its counters.
Carry(p) ==
    /\ p \in Live /\ peers[p].carried /\ counters[p] = "zero"
    /\ counters' = [counters EXCEPT ![p] = "past"]
    /\ UNCHANGED <<peers, next, elems, marks, filters, classes, missed, spare>>

-----------------------------------------------------------------------------
\* A clean table and a root qdisc: install.
Init ==
    /\ peers = [p \in Peers |-> Gone] /\ next = 2
    /\ elems = {} /\ marks = [a \in Addrs |-> 0] /\ filters = {}
    /\ classes = [c \in {} |-> 0]
    /\ counters = [p \in Peers |-> "none"] /\ missed = {} /\ spare \in Allowances

Next ==
    \/ Refresh
    \/ \E p \in Peers : \/ \E a \in Addrs : Register(p, a)
                        \/ \E l \in Levels : SetAccess(p, l)
                        \/ \E r \in Rates : SetShapingRate(p, r)
                        \/ RemovePeer(p) \/ Carry(p)

Spec == Init /\ [][Next]_vars

-----------------------------------------------------------------------------
\* A key is in a set or map once, and classes are told apart.
TypeOK ==
    /\ \A e, f \in elems : (e.map = f.map /\ e.key = f.key) => e = f
    /\ \A p, q \in Live : p # q => peers[p].class # peers[q].class
    /\ \A p \in Live : Cardinality(peers[p].link.v6) <= MaxV6

\* A payer is forwarded for exactly when it is carried: its IPv4 both ways, and
\* its IPv6, out by its MAC and in by each address it is tied to, except that
\* all its IPv6 is dropped while it has too many addresses; and it is carried
\* as core decided, or, after the IPv4 command failed, as the record says.  An
\* IPv6 element is wrong only from a command that failed on it to the next one,
\* though its failure is recorded nowhere (gate, link_elements).
Gated ==
    \A p \in Live : LET e == peers[p]
                       shut == ~(e.carried /\ ~e.link.overflowed) IN
        /\ Dropped4(e.addr) = ~e.carried
        /\ "gate" \in spare.broken \/ e.carried = Carried(e.access, e.rate)
        /\ e.link # NoLink =>
             /\ \/ Element("allowed_mac", e.link.mac, Member) \in missed
                \/ DroppedOut6(e.link.mac) = shut
             /\ \A a \in e.link.v6 : \/ Element("allowed6", a, Member) \in missed
                                     \/ DroppedIn6(a) = shut

\* Every packet to or from a payer is counted against it once and against
\* nobody else, whichever way it is counted now: to a customer by address, to
\* an upstream by next hop, which for a packet addressed to it is its own
\* address (map_elements, refresh).
CountedOnce ==
    \A p \in Live : LET e == peers[p] IN
        /\ {x.value : x \in Counted({<<"down_tx", e.addr>>, <<"up_tx", e.addr>>})} = {Tx(p)}
        /\ Cardinality(Counted({<<"down_tx", e.addr>>, <<"up_tx", e.addr>>})) = 1
        /\ LET mac == IF e.up THEN e.mac ELSE e.link.mac
               in == Counted({<<"down_rx", e.addr>>, <<"up_rx", mac>>})
           IN Cardinality(in) = 1 /\ {x.value : x \in in} = {Rx(p)}
        /\ e.link # NoLink =>
             /\ {x.value : x \in Counted({<<"down6_rx", e.link.mac>>, <<"up_rx", e.link.mac>>})} = {Rx(p)}
             /\ \A a \in e.link.v6 : {x.value : x \in Counted({<<"down6_tx", a>>})} = {Tx(p)}

\* What is forwarded to a payer is shaped to its rate, over IPv4 and over every
\* IPv6 address it is tied to, whoever had the address before (register,
\* set_shaping_rate, remove).
Shaped ==
    \A p \in Live : LET e == peers[p] IN
        /\ ShapedTo(marks[e.addr]) = <<e.rate>>
        /\ \A a \in e.link.v6 : \A x \in Counted({<<"mark6", a>>}) : ShapedTo(x.value[2]) = <<e.rate>>

\* Nothing outlives a payer: what is in the sets and maps is there for one that
\* is registered, except what a failed command left (remove, plan_moves).
NothingLeft ==
    LET held == UNION {Elements(p, peers[p]) \cup {x \in Gate4(peers[p].addr) : x.map = "allowed" => peers[p].carried}
                         : p \in Live}
    IN (elems \ held) \cup (held \ elems) \subseteq missed
=============================================================================
