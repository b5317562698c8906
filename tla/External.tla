------------------------------ MODULE External ------------------------------
(***************************************************************************)
(* The node's side of an external enforcer (enforcer/external.rs): the     *)
(* payers it tracks, one connection at a time over a Unix socket, the full *)
(* state sent after every accepted hello, and the counts carried from one  *)
(* connection to the next.                                                 *)
(*                                                                         *)
(* The enforcer is external; it does what the enforcer protocol asks:      *)
(* starts closed, serves one connection, forgets everything when that      *)
(* connection goes, refuses a subject another payer holds, and reports     *)
(* running totals.  `out' is the outbox and the socket behind it: what is  *)
(* left in it when the node drops the connection may or may not still be   *)
(* read.                                                                   *)
(***************************************************************************)
EXTENDS Naturals, Sequences, FiniteSets, SequencesExt

CONSTANTS Payers,      \* public keys
          Addrs,       \* addresses control connections come from
          Vouched,     \* subjects a local trusted client may add
          Identity,    \* enforcer.identity: "pubkey" or "address"
          Rates,       \* rates core shapes a payer to; 0 is closed
          Unmetered,   \* u64::MAX, the rate of a payer core does not meter
          Null,        \* no value: the wire's null, or no hello yet
          MaxBindings, \* MAX_BINDINGS
          Outbox,      \* OUTBOX
          Hellos,      \* what an enforcer may say
          Allowances   \* bounds on what happens in a behaviour

Allowance ==
    [calls   : Nat,             \* calls of the node
     units   : Nat,             \* units carried
     faults  : Nat,             \* connections that break, enforcers that die
     returns : BOOLEAN,         \* payers are registered again, after removal or elsewhere
     vouched : SUBSET Vouched,  \* subjects delegated
     hellos  : SUBSET Hellos]   \* what the enforcers that are started say

ASSUME ExternalAssumption ==
    /\ IsFiniteSet(Payers \cup Addrs \cup Vouched)
    /\ Identity \in {"pubkey", "address"}
    /\ 0 \in Rates /\ Unmetered \in Rates
    /\ MaxBindings \in Nat \ {0} /\ Outbox \in Nat \ {0}
    /\ Hellos \subseteq [version : BOOLEAN, identity : BOOLEAN, unit : BOOLEAN, delegated : BOOLEAN]
    /\ Allowances \subseteq Allowance

VARIABLES node,     \* State: peers, link, hello, next_seq, and the link's queue
          sess,     \* where maintain is: "down", "hello", "live" or "stopped"
          started,  \* connect() has returned: the node runs
          inb,      \* from the enforcer, not yet read
          enf,      \* the enforcer
          carried,  \* units the enforcer carried for a payer since it was registered
          was,      \* who held each subject when the enforcer last forgot it
          gone,     \* payers removed since the node started
          spare     \* what of its Allowance is left to the behaviour

vars == <<node, sess, started, inb, enf, carried, was, gone, spare>>

Subjects == Payers \cup Addrs \cup Vouched

Peer == [seq : Nat, addr : Addrs, delegated : Seq(Vouched), rate : Rates,
         base : Nat, current : Nat, conflicted : BOOLEAN]

Tracked == DOMAIN node.peers

Total(e) == e.base + e.current

-----------------------------------------------------------------------------
(* State: everything below returns the state it leaves. *)

Direct(s, p) == IF Identity = "pubkey" THEN p ELSE s.peers[p].addr

\* A direct subject has the length the identity says: Direct makes it so.
Accepts(h, b) == b.delegated => h.delegated

Bound(x, d) == [subject |-> x, delegated |-> d]

\* A subject is sent with its flag, the direct one first; what the enforcer
\* would refuse is left out, and what is beyond MAX_BINDINGS.
Bindings(s, p) ==
    IF s.hello = Null \/ p \notin DOMAIN s.peers THEN {}
    ELSE LET given == s.peers[p].delegated
         IN {Bound(Direct(s, p), FALSE)}
            \cup {b \in {Bound(given[i], TRUE) : i \in 1 .. Len(given) \cap 1 .. MaxBindings - 1} :
                     Accepts(s.hello, b)}

\* Mutant: the count of the last connection is carried over and kept.
CarryTwice(s) ==
    IF s.link = 0 THEN s
    ELSE [s EXCEPT !.link = 0, !.peers = [p \in DOMAIN @ |-> [@[p] EXCEPT !.base = Total(s.peers[p])]]]

DropLink(s) ==
    IF s.link = 0 THEN s
    ELSE [s EXCEPT !.link = 0,
                   !.peers = [p \in DOMAIN @ |-> [@[p] EXCEPT !.base = Total(s.peers[p]), !.current = 0]]]

\* Mutant: a full queue drops the message and keeps the link.
SendLossy(s, m) ==
    IF s.link = 0 \/ Len(s.out) >= s.link THEN s ELSE [s EXCEPT !.out = Append(@, m)]

Send(s, m) ==
    IF s.link = 0 THEN s
    ELSE IF Len(s.out) < s.link THEN [s EXCEPT !.out = Append(@, m)]
    ELSE DropLink(s)

WireRate(r) == IF r = Unmetered THEN Null ELSE r

BindMsg(s, p) == [type |-> "bind", peer |-> p, bindings |-> Bindings(s, p)]

SetMsg(s, p) == [type |-> "set", peer |-> p, rate |-> WireRate(s.peers[p].rate)]

RemoveMsg(p) == [type |-> "remove", peer |-> p]

BindAndSet(s, p) == Send(Send(s, BindMsg(s, p)), SetMsg(s, p))

-----------------------------------------------------------------------------
(* The enforcer, as the protocol describes it. *)

Closed == [p \in Payers |-> [held |-> {}, rate |-> 0, count |-> 0, told |-> 0]]

Holds(p, x) == x \in enf.payers[p].held

\* What it forgets, it held: kept in `was' for the payers that are still there.
Forgets(n) ==
    was' = [x \in Subjects |->
              IF \E p \in DOMAIN n.peers : Holds(p, x)
              THEN CHOOSE p \in DOMAIN n.peers : Holds(p, x) ELSE was[x]]

Conflict(p) == [type |-> "conflict", peer |-> p]

Counters(p, n) == [type |-> "counters", peer |-> p, units |-> n]

\* One conflict for each subject another payer holds.
EnforcerBinds(m) ==
    LET asked   == {b.subject : b \in m.bindings}
        refused == {x \in asked : \E q \in Payers \ {m.peer} : Holds(q, x)}
    IN /\ enf' = [enf EXCEPT !.payers[m.peer].held = asked \ refused]
       /\ inb' = inb \o [i \in 1..Cardinality(refused) |-> Conflict(m.peer)]

EnforcerReads ==
    /\ enf.conn /\ node.out # <<>>
    /\ node' = [node EXCEPT !.out = Tail(@)]
    /\ LET m == Head(node.out)
       IN \/ m.type = "bind"   /\ EnforcerBinds(m)
          \/ m.type = "set"    /\ enf' = [enf EXCEPT !.payers[m.peer].rate = m.rate] /\ UNCHANGED inb
          \/ m.type = "remove" /\ enf' = [enf EXCEPT !.payers[m.peer] = Closed[m.peer]] /\ UNCHANGED inb
    /\ UNCHANGED <<sess, started, carried, was, gone, spare>>

Carries(p) ==
    /\ enf.conn /\ enf.payers[p].held # {} /\ enf.payers[p].rate # 0
    /\ spare.units > 0 /\ spare' = [spare EXCEPT !.units = @ - 1]
    /\ enf' = [enf EXCEPT !.payers[p].count = @ + 1]
    /\ carried' = [carried EXCEPT ![p] = @ + 1]
    /\ UNCHANGED <<node, sess, started, inb, was, gone>>

Reports(p) ==
    /\ enf.conn /\ enf.payers[p].count # enf.payers[p].told
    /\ enf' = [enf EXCEPT !.payers[p].told = enf.payers[p].count]
    /\ inb' = Append(inb, Counters(p, enf.payers[p].count))
    /\ UNCHANGED <<node, sess, started, carried, was, gone, spare>>

\* The node closed its end, and the enforcer sees it.
EnforcerNotices ==
    /\ enf.conn /\ sess \in {"down", "stopped"}
    /\ enf' = [enf EXCEPT !.conn = FALSE, !.payers = Closed]
    /\ Forgets(node)
    /\ UNCHANGED <<node, sess, started, inb, carried, gone, spare>>

Fault == spare.faults > 0 /\ spare' = [spare EXCEPT !.faults = @ - 1]

EnforcerDies ==
    /\ enf.up /\ Fault
    /\ enf' = [enf EXCEPT !.up = FALSE, !.conn = FALSE, !.payers = Closed]
    /\ Forgets(node)
    /\ UNCHANGED <<node, sess, started, inb, carried, gone>>

EnforcerStarts ==
    /\ ~enf.up
    /\ \E h \in spare.hellos : enf' = [enf EXCEPT !.up = TRUE, !.says = h]
    /\ UNCHANGED <<node, sess, started, inb, carried, was, gone, spare>>

-----------------------------------------------------------------------------
(* maintain and session: one connection after the other. *)

CheckHello(h) ==
    IF ~h.version THEN "version"
    ELSE IF ~h.identity THEN "identity"
    ELSE IF ~h.unit THEN "unit"
    ELSE "ok"

\* A second connection to the enforcer replaces one whose end it has not seen.
Connect ==
    /\ sess = "down" /\ enf.up
    /\ sess' = "hello"
    /\ enf' = [enf EXCEPT !.conn = TRUE, !.payers = Closed]
    /\ Forgets(node)
    /\ node' = [node EXCEPT !.out = <<>>]
    /\ inb' = <<>>
    /\ UNCHANGED <<started, carried, gone, spare>>

\* The payers of s in a row.
Rows(s) == {o \in [1 .. Cardinality(DOMAIN s.peers) -> DOMAIN s.peers] :
              \A p \in DOMAIN s.peers : \E i \in DOMAIN o : o[i] = p}

\* Mutant: payers are bound again in the reverse order.
NewestFirst(s) ==
    {o \in Rows(s) : \A i, j \in DOMAIN o : i < j => s.peers[o[i]].seq > s.peers[o[j]].seq}

\* Sorted by the order they came in: there is one such row.
OldestFirst(s) ==
    {o \in Rows(s) : \A i, j \in DOMAIN o : i < j => s.peers[o[i]].seq < s.peers[o[j]].seq}

\* The bind and the set of each payer.
Snapshot(s, order) ==
    [i \in 1 .. 2 * Cardinality(DOMAIN s.peers) |->
        IF i % 2 = 1 THEN BindMsg(s, order[(i + 1) \div 2]) ELSE SetMsg(s, order[i \div 2])]

\* A link whose queue has room for them all.
Linked(s) ==
    [s EXCEPT !.link = Outbox + 2 * Cardinality(DOMAIN s.peers),
              !.peers = [p \in DOMAIN @ |-> [@[p] EXCEPT !.conflicted = FALSE]]]

\* The link is installed and the full state queued under one lock.
Accepted(s, h, order) ==
    [Linked(s) EXCEPT !.hello = h, !.out = Snapshot([s EXCEPT !.hello = h], order)]

HelloArrives ==
    /\ sess = "hello" /\ enf.conn
    /\ LET verdict == CheckHello(enf.says)
       IN \/ /\ verdict = "ok"
             /\ \E order \in OldestFirst(node) : node' = Accepted(node, enf.says, order)
             /\ sess' = "live" /\ started' = TRUE
          \/ /\ verdict = "version"
             /\ sess' = "down" /\ UNCHANGED <<node, started>>
          \/ /\ verdict \in {"identity", "unit"}
             /\ sess' = IF started THEN "down" ELSE "stopped"
             /\ UNCHANGED <<node, started>>
    /\ UNCHANGED <<inb, enf, carried, was, gone, spare>>

\* The enforcer closes before hello, or says nothing for HELLO_TIMEOUT.
NoHelloCame ==
    /\ sess = "hello"
    /\ \/ ~enf.conn /\ UNCHANGED spare
       \/ enf.conn /\ Fault
    /\ sess' = "down"
    /\ UNCHANGED <<node, started, inb, enf, carried, was, gone>>

\* read_loop, one message.  A connection already dropped speaks for nobody.
Higher(e, units) == IF units > e.current THEN [e EXCEPT !.current = units] ELSE e

NodeReads ==
    /\ sess = "live" /\ node.link # 0 /\ inb # <<>>
    /\ inb' = Tail(inb)
    /\ LET m == Head(inb)
       IN \/ m.peer \notin Tracked /\ UNCHANGED node
          \/ /\ m.peer \in Tracked /\ m.type = "counters"
             /\ node' = [node EXCEPT !.peers[m.peer] = Higher(@, m.units)]
          \/ /\ m.peer \in Tracked /\ m.type = "conflict"
             /\ node' = [node EXCEPT !.peers[m.peer].conflicted = TRUE]
    /\ UNCHANGED <<sess, started, enf, carried, was, gone, spare>>

\* Mutant: only the enforcer's end of the stream ends the session.
SessionEndsDeaf ==
    /\ sess = "live" /\ ~enf.conn
    /\ node' = DropLink(node)
    /\ sess' = "down"
    /\ UNCHANGED <<started, inb, enf, carried, was, gone, spare>>

\* The select of session: the reader meets the end of the stream, the node has
\* dropped the link itself, or the writer times out or either end errs.
SessionEnds ==
    /\ sess = "live"
    /\ \/ (~enf.conn \/ node.link = 0) /\ UNCHANGED spare
       \/ enf.conn /\ node.link # 0 /\ Fault
    /\ node' = DropLink(node)
    /\ sess' = "down"
    /\ UNCHANGED <<started, inb, enf, carried, was, gone>>

-----------------------------------------------------------------------------
(* Calls of the node, each under the lock. *)

Call == started /\ sess # "stopped" /\ spare.calls > 0 /\ spare' = [spare EXCEPT !.calls = @ - 1]

Lets(p) == was' = [x \in Subjects |-> IF was[x] = p THEN Null ELSE was[x]]

NewPeer(s, a) == [seq |-> s.seq + 1, addr |-> a, delegated |-> <<>>, rate |-> 0,
                  base |-> 0, current |-> 0, conflicted |-> FALSE]

Register(p, a) ==
    /\ Call
    /\ p \in Tracked \cup gone => spare.returns
    /\ IF p \in Tracked
       THEN /\ node.peers[p].addr # a
            /\ node' = BindAndSet([node EXCEPT !.peers[p].addr = a, !.peers[p].conflicted = FALSE], p)
            /\ Lets(p)
            /\ UNCHANGED carried
       ELSE /\ node' = BindAndSet([node EXCEPT !.seq = @ + 1,
                                     !.peers = [q \in DOMAIN @ \cup {p} |->
                                                  IF q = p THEN NewPeer(node, a) ELSE @[q]]], p)
            /\ carried' = [carried EXCEPT ![p] = 0]
            /\ UNCHANGED was
    /\ UNCHANGED <<sess, started, inb, enf, gone>>

SetShapingRate(p, r) ==
    /\ Call
    /\ p \in Tracked /\ node.peers[p].rate # r
    /\ LET s == [node EXCEPT !.peers[p].rate = r] IN node' = Send(s, SetMsg(s, p))
    /\ UNCHANGED <<sess, started, inb, enf, carried, was, gone>>

RemovePayer(p) ==
    /\ Call
    /\ p \in Tracked
    /\ node' = Send([node EXCEPT !.peers = [q \in DOMAIN @ \ {p} |-> @[q]]], RemoveMsg(p))
    /\ Lets(p)
    /\ gone' = gone \cup {p}
    /\ UNCHANGED <<sess, started, inb, enf, carried>>

\* NoEnforcer cannot be returned once the node runs; the other refusals
\* change nothing, as does a subject the payer already has.
Delegate(p, x) ==
    /\ Call
    /\ x \in spare.vouched /\ node.hello.delegated
    /\ p \in Tracked
    /\ x \notin ToSet(node.peers[p].delegated)
    /\ Len(node.peers[p].delegated) + 1 < MaxBindings
    /\ LET s == [node EXCEPT !.peers[p].delegated = Append(@, x)] IN node' = Send(s, BindMsg(s, p))
    /\ UNCHANGED <<sess, started, inb, enf, carried, was, gone>>

Selling(p) == node.link # 0 /\ (p \in Tracked => ~node.peers[p].conflicted)

-----------------------------------------------------------------------------
Init ==
    /\ spare \in Allowances
    /\ node = [peers |-> <<>>, link |-> 0, hello |-> Null, seq |-> 0, out |-> <<>>]
    /\ sess = "down" /\ started = FALSE
    /\ inb = <<>>
    /\ \E h \in spare.hellos : enf = [up |-> TRUE, conn |-> FALSE, says |-> h, payers |-> Closed]
    /\ carried = [p \in Payers |-> 0]
    /\ was = [x \in Subjects |-> Null]
    /\ gone = {}

Next ==
    \/ Connect \/ HelloArrives \/ NoHelloCame \/ NodeReads \/ SessionEnds
    \/ EnforcerReads \/ EnforcerNotices \/ EnforcerDies \/ EnforcerStarts
    \/ \E p \in Payers : Carries(p) \/ Reports(p) \/ RemovePayer(p)
    \/ \E p \in Payers, a \in Addrs : Register(p, a)
    \/ \E p \in Payers, r \in Rates : SetShapingRate(p, r)
    \/ \E p \in Payers, x \in Vouched : Delegate(p, x)

\* maintain tries again after RECONNECT for as long as the node runs, the
\* reader, the writer and the end of the stream are polled by one select, and
\* an enforcer that keeps to the protocol reads what it is sent and sees an
\* end.  Nothing makes an enforcer start, or carry anything.
Fairness == WF_vars(Connect) /\ WF_vars(HelloArrives) /\ WF_vars(NoHelloCame) /\ WF_vars(NodeReads)
            /\ WF_vars(SessionEnds) /\ WF_vars(EnforcerReads)

Spec == Init /\ [][Next]_vars /\ Fairness

-----------------------------------------------------------------------------
TypeOK ==
    /\ \A p \in Tracked : node.peers[p] \in Peer
    /\ Tracked \subseteq Payers
    /\ node.link \in 0..(Outbox + 2 * Cardinality(Payers))
    /\ Len(node.out) <= Outbox + 2 * Cardinality(Payers)
    /\ node.hello \in Hellos \cup {Null}
    /\ sess \in {"down", "hello", "live", "stopped"}
    /\ node.link # 0 => sess = "live" /\ started

\* Once the enforcer has read everything sent to it and the node everything
\* the enforcer said, the two agree on each payer the node sells to: the
\* subjects it is bound to, its rate, and that nobody else is bound at all.
\* State changes while connections come and go, a snapshot is sent in between,
\* and a full outbox loses messages (session, send, drop_link).
InSync ==
    (node.link # 0 /\ enf.conn /\ node.out = <<>> /\ inb = <<>>) =>
        /\ \A p \in Tracked : Selling(p) =>
               /\ enf.payers[p].held = {b.subject : b \in Bindings(node, p)}
               /\ enf.payers[p].rate = WireRate(node.peers[p].rate)
        /\ \A p \in Payers \ Tracked : enf.payers[p].held = {} /\ enf.payers[p].rate = 0

\* A payer is charged for no unit that was not carried for it since it was
\* registered: counts are cumulative on a connection, repeated, carried over
\* to the next connection's base, and reported late (read_loop, drop_link).
ChargedOnce == \A p \in Tracked : Total(node.peers[p]) <= carried[p]

\* Nothing the enforcer's own hello refuses is ever on its way to it, which
\* would be a protocol error that closes the connection, at every reconnect
\* again.  A payer's delegated subjects outlive the enforcer that took them.
OnlyAcceptable ==
    (sess = "live" /\ enf.conn) =>
        \A i \in 1..Len(node.out) : node.out[i].type = "bind" =>
            \A b \in node.out[i].bindings : Accepts(enf.says, b)

\* Of two payers that claim one subject, the one that held it on the last
\* connection holds it on the next: the node binds them again in an order that
\* has the same one refused (session: "so the payer that held a subject first
\* is bound first again, and the same one is refused").
SameHolderOf(set) ==
    \A p, q \in Tracked, x \in set :
        (was[x] = p /\ q # p /\ x \in {b.subject : b \in Bindings(node, p)}) => ~Holds(q, x)

SameHolder == SameHolderOf(Addrs)
=============================================================================
