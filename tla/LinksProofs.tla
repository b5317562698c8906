------------------------------ MODULE LinksProofs ------------------------------
(***************************************************************************)
(* What is proved of a node's connections (MCLinks): the external enforcer *)
(* has what the node has once everything is read, and charges each unit    *)
(* once (External); a FIPS daemon does what core decided, and a session is *)
(* charged for no more than it carried (Fips); what one version of the     *)
(* protocol writes another reads, or refuses (Codec).                      *)
(***************************************************************************)
EXTENDS MCLinks, FiniteSetTheorems, SequenceTheorems, TLAPS

-----------------------------------------------------------------------------
(* An enforcer: the types. *)

BindMsgs == [type : {"bind"}, peer : Payers,
             bindings : SUBSET [subject : Subjects, delegated : BOOLEAN]]
SetMsgs == [type : {"set"}, peer : Payers, rate : Rates \cup {Null}]
RemoveMsgs == [type : {"remove"}, peer : Payers]

ToEnforcer == BindMsgs \cup SetMsgs \cup RemoveMsgs

ToNode ==
    [type : {"counters"}, peer : Payers, units : Nat] \cup [type : {"conflict"}, peer : Payers]

\* As much as a queue may hold.
Most == Outbox + 2 * Cardinality(Payers)

\* The node's state: a record, the payers it has in it among Payers.
NodeOK(s) ==
    /\ s = [peers |-> s.peers, link |-> s.link, hello |-> s.hello, seq |-> s.seq, out |-> s.out]
    /\ DOMAIN s.peers \subseteq Payers /\ s.peers \in [DOMAIN s.peers -> Peer]
    /\ s.link \in 0 .. Most /\ s.hello \in Hellos \cup {Null} /\ s.seq \in Nat
    /\ s.out \in Seq(ToEnforcer) /\ Len(s.out) <= Most

Subscriber == [held : SUBSET Subjects, rate : Rates \cup {Null}, count : Nat, told : Nat]

EnforcerState == [up : BOOLEAN, conn : BOOLEAN, says : Hellos, payers : [Payers -> Subscriber]]

Types ==
    /\ NodeOK(node)
    /\ sess \in {"down", "hello", "live", "stopped"} /\ started \in BOOLEAN
    /\ inb \in Seq(ToNode) /\ enf \in EnforcerState
    /\ carried \in [Payers -> Nat] /\ gone \in SUBSET Payers /\ spare \in Allowance

-----------------------------------------------------------------------------
(* What is on its way to the enforcer. *)

Matches(m, p, types) == m.peer = p /\ m.type \in types

NoneOf(out, p, types) == \A k \in 1 .. Len(out) : ~Matches(out[k], p, types)

\* The last message of these types for p is m.
EndsIn(out, p, types, m) ==
    \E k \in 1 .. Len(out) :
       /\ out[k] = m /\ Matches(m, p, types)
       /\ \A j \in k + 1 .. Len(out) : ~Matches(out[j], p, types)

\* The payer will have been told m, or was told and `now' holds.
Told(out, p, types, m, now) == EndsIn(out, p, types, m) \/ (NoneOf(out, p, types) /\ now)

Held(s, p) == {b.subject : b \in Bindings(s, p)}

\* A conflict of p's is on its way to the node.
Refused(in, p) == \E k \in 1 .. Len(in) : in[k] = Conflict(p)

\* Whether the enforcer comes to hold for p, whose state with it is e, what the
\* node has, s, when all is read, in is on its way back.
BoundTo(s, e, in, p) ==
    Told(s.out, p, {"bind", "remove"}, BindMsg(s, p),
         e.held = Held(s, p) \/ s.peers[p].conflicted \/ Refused(in, p))

SetTo(s, e, p) ==
    Told(s.out, p, {"set", "remove"}, SetMsg(s, p), e.rate = WireRate(s.peers[p].rate))

Removed(s, e, p) ==
    Told(s.out, p, {"bind", "set", "remove"}, RemoveMsg(p), e.held = {} /\ e.rate = 0)

Agreed(s, e, in, p) ==
    IF p \in DOMAIN s.peers THEN BoundTo(s, e, in, p) /\ SetTo(s, e, p) ELSE Removed(s, e, p)

AllAgreed == node.link # 0 /\ enf.conn => \A p \in Payers : Agreed(node, enf.payers[p], inb, p)

-----------------------------------------------------------------------------
(* The connection. *)

Acceptable(h, m) == m.type = "bind" => \A b \in m.bindings : Accepts(h, b)

OutAcceptable(s) == \A k \in 1 .. Len(s.out) : Acceptable(s.hello, s.out[k])

Connected ==
    /\ node.link # 0 => sess = "live" /\ started
    /\ sess = "hello" => node.out = <<>> /\ inb = <<>> /\ enf.payers = Closed
    /\ enf.conn => enf.up
    /\ sess = "live" /\ enf.conn => node.hello = enf.says
    /\ sess = "live" => OutAcceptable(node)
    /\ started => node.hello \in Hellos

-----------------------------------------------------------------------------
(* What is charged. *)

\* What it says it carried for p.
Says(in, p, n) == \E k \in 1 .. Len(in) : in[k] = Counters(p, n)

\* A payer that was never registered.
New(p) == p \notin Tracked \cup gone

NoBind(out, p) == \A k \in 1 .. Len(out) : ~(out[k].type = "bind" /\ out[k].peer = p)

\* What s has counted for p, and will have when all is read, is at most c.
Fair(s, p, c, e, in) ==
    /\ Total(s.peers[p]) <= c
    /\ s.link = 0 => s.peers[p].current = 0
    /\ s.link # 0 => s.peers[p].base + e.count <= c
    /\ s.link # 0 => \A n \in Nat : Says(in, p, n) => s.peers[p].base + n <= c

\* Nothing was carried for p.
Idle(p) ==
    /\ enf.payers[p].count = 0 /\ enf.payers[p].told = 0
    /\ \A n \in Nat : Says(inb, p, n) => n = 0

Charged(p) ==
    /\ p \in Tracked => Fair(node, p, carried[p], enf.payers[p], inb)
    /\ New(p) \/ spare.returns => Idle(p)
    /\ New(p) => enf.payers[p].held = {} /\ NoBind(node.out, p)

AllCharged ==
    /\ \A p \in Payers : Charged(p)
    /\ spare.returns => spare.units = 0

ExternalInv == Types /\ Connected /\ AllAgreed

-----------------------------------------------------------------------------
(* Queues. *)

(* What a message put in at the end does to what is on its way. *)
LEMMA Appended ==
    ASSUME NEW S, NEW out \in Seq(S), NEW m \in S, NEW p, NEW types
    PROVE  /\ Matches(m, p, types) => EndsIn(Append(out, m), p, types, m)
           /\ ~Matches(m, p, types) /\ NoneOf(out, p, types) => NoneOf(Append(out, m), p, types)
           /\ \A x : ~Matches(m, p, types) /\ EndsIn(out, p, types, x)
                       => EndsIn(Append(out, m), p, types, x)
<1> DEFINE r == Append(out, m)
<1>1. /\ Len(r) = Len(out) + 1 /\ Len(out) \in Nat /\ r[Len(out) + 1] = m
      /\ \A k \in 1 .. Len(out) : r[k] = out[k]
  OBVIOUS
<1> HIDE DEF r
<1>2. Matches(m, p, types) => EndsIn(r, p, types, m)
  BY <1>1 DEF EndsIn
<1>3. ~Matches(m, p, types) /\ NoneOf(out, p, types) => NoneOf(r, p, types)
  BY <1>1 DEF NoneOf
<1>4. ASSUME NEW x, ~Matches(m, p, types), EndsIn(out, p, types, x)
      PROVE  EndsIn(r, p, types, x)
  <2>1. PICK k \in 1 .. Len(out) :
           /\ out[k] = x /\ Matches(x, p, types)
           /\ \A j \in k + 1 .. Len(out) : ~Matches(out[j], p, types)
    BY <1>4 DEF EndsIn
  <2>2. k \in 1 .. Len(r) /\ r[k] = x
    BY <1>1, <2>1
  <2>3. \A j \in k + 1 .. Len(r) : ~Matches(r[j], p, types)
    BY <1>1, <1>4, <2>1
  <2> QED BY <2>1, <2>2, <2>3 DEF EndsIn
<1> QED BY <1>2, <1>3, <1>4 DEF r

(* What reading the first message does to what is on its way. *)
LEMMA ReadOff ==
    ASSUME NEW S, NEW out \in Seq(S), out # <<>>, NEW p, NEW types
    PROVE  /\ NoneOf(out, p, types) => NoneOf(Tail(out), p, types) /\ ~Matches(Head(out), p, types)
           /\ \A x : EndsIn(out, p, types, x)
                       => \/ EndsIn(Tail(out), p, types, x)
                          \/ NoneOf(Tail(out), p, types) /\ Head(out) = x /\ Matches(x, p, types)
<1> DEFINE r == Tail(out)
<1>1. /\ Len(out) \in Nat \ {0} /\ Len(r) = Len(out) - 1 /\ Head(out) = out[1]
      /\ \A k \in 1 .. Len(r) : r[k] = out[k + 1]
  OBVIOUS
<1> HIDE DEF r
<1>2. NoneOf(out, p, types) => NoneOf(r, p, types) /\ ~Matches(Head(out), p, types)
  BY <1>1 DEF NoneOf
<1>3. ASSUME NEW x, EndsIn(out, p, types, x)
      PROVE  \/ EndsIn(r, p, types, x)
             \/ NoneOf(r, p, types) /\ Head(out) = x /\ Matches(x, p, types)
  <2>1. PICK k \in 1 .. Len(out) :
           /\ out[k] = x /\ Matches(x, p, types)
           /\ \A j \in k + 1 .. Len(out) : ~Matches(out[j], p, types)
    BY <1>3 DEF EndsIn
  <2>2. CASE k = 1
    BY <1>1, <2>1, <2>2 DEF NoneOf
  <2>3. CASE k # 1
    <3>1. k - 1 \in 1 .. Len(r) /\ r[k - 1] = x
      BY <1>1, <2>1, <2>3
    <3>2. \A j \in (k - 1) + 1 .. Len(r) : ~Matches(r[j], p, types)
      BY <1>1, <2>1, <2>3
    <3> QED BY <2>1, <3>1, <3>2 DEF EndsIn
  <2> QED BY <2>2, <2>3
<1> QED BY <1>2, <1>3 DEF r

-----------------------------------------------------------------------------
(* The node's state. *)

(* A queue may hold a number of messages. *)
LEMMA MostType ==
    /\ Most \in Nat /\ Outbox \in Nat \ {0} /\ Cardinality(Payers) \in Nat
    /\ IsFiniteSet(Payers) /\ IsFiniteSet(Subjects)
<1>1. IsFiniteSet(Payers) /\ IsFiniteSet(Subjects)
  BY ExternalAssumption, FS_Subset DEF Subjects
<1> QED BY <1>1, ExternalAssumption, FS_CardinalityType DEF Most

(* A payer's count with what was counted on the link added. *)
LEMMA BaseType ==
    ASSUME NEW e \in Peer, NEW f, f = [e EXCEPT !.base = Total(e), !.current = 0]
    PROVE  f \in Peer /\ Total(f) = Total(e) /\ f.current = 0
<1>1. /\ f.seq = e.seq /\ f.addr = e.addr /\ f.delegated = e.delegated /\ f.rate = e.rate
      /\ f.base = Total(e) /\ f.current = 0 /\ f.conflicted = e.conflicted
  BY DEF Peer
<1>2. Total(e) \in Nat
  BY DEF Peer, Total
<1>3. f \in Peer
  BY <1>2 DEF Peer
<1>4. Total(f) = f.base + f.current
  BY DEF Total
<1> QED BY <1>1, <1>2, <1>3, <1>4

(* The link dropped: what was counted on it is in the base. *)
LEMMA DropLinkType ==
    ASSUME NEW s, NodeOK(s), NEW r, r = DropLink(s)
    PROVE  /\ NodeOK(r) /\ r.link = 0 /\ r.out = s.out /\ r.hello = s.hello
           /\ DOMAIN r.peers = DOMAIN s.peers
           /\ \A p \in DOMAIN s.peers :
                 /\ Total(r.peers[p]) = Total(s.peers[p])
                 /\ s.link # 0 => r.peers[p].current = 0
                 /\ s.link = 0 => r = s
<1>1. CASE s.link = 0
  BY <1>1 DEF DropLink
<1>2. CASE s.link # 0
  <2> DEFINE f(p) == [s.peers[p] EXCEPT !.base = Total(s.peers[p]), !.current = 0]
  <2>1. \A p \in DOMAIN s.peers :
           f(p) \in Peer /\ Total(f(p)) = Total(s.peers[p]) /\ f(p).current = 0
    BY BaseType DEF NodeOK
  <2>2. r = [s EXCEPT !.link = 0, !.peers = [p \in DOMAIN s.peers |-> f(p)]]
    BY <1>2 DEF DropLink
  <2> HIDE DEF f
  <2>3. /\ r.link = 0 /\ r.out = s.out /\ r.hello = s.hello /\ r.seq = s.seq
        /\ r.peers = [p \in DOMAIN s.peers |-> f(p)]
        /\ r = [peers |-> r.peers, link |-> r.link, hello |-> r.hello, seq |-> r.seq, out |-> r.out]
    BY <2>2 DEF NodeOK
  <2>4. NodeOK(r)
    BY <2>1, <2>3, MostType DEF NodeOK
  <2> QED BY <1>2, <2>1, <2>3, <2>4
<1> QED BY <1>1, <1>2

\* The message is queued, or nothing is, as there is no link or no longer one.
Sends(s, r, m) ==
    \/ /\ s.link # 0 /\ r.link = s.link /\ r.out = Append(s.out, m)
       /\ r.peers = s.peers /\ r.hello = s.hello
    \/ r = DropLink(s)

(* Send queues a message or drops the link. *)
LEMMA SendType ==
    ASSUME NEW s, NodeOK(s), NEW m \in ToEnforcer, NEW r, r = Send(s, m)
    PROVE  NodeOK(r) /\ Sends(s, r, m)
<1>1. CASE s.link = 0 \/ ~(Len(s.out) < s.link)
  <2>1. r = DropLink(s)
    BY <1>1 DEF Send, DropLink
  <2> QED BY <2>1, DropLinkType DEF Sends
<1>2. CASE s.link # 0 /\ Len(s.out) < s.link
  <2>1. r = [s EXCEPT !.out = Append(s.out, m)]
    BY <1>2 DEF Send
  <2>2. /\ r.link = s.link /\ r.out = Append(s.out, m) /\ r.peers = s.peers
        /\ r.hello = s.hello /\ r.seq = s.seq
        /\ r = [peers |-> r.peers, link |-> r.link, hello |-> r.hello, seq |-> r.seq, out |-> r.out]
    BY <2>1 DEF NodeOK
  <2>3. Append(s.out, m) \in Seq(ToEnforcer) /\ Len(Append(s.out, m)) = Len(s.out) + 1
    BY DEF NodeOK
  <2>4. Len(Append(s.out, m)) <= Most
    BY <1>2, <2>3, MostType DEF NodeOK
  <2> QED BY <1>2, <2>2, <2>3, <2>4 DEF NodeOK, Sends
<1> QED BY <1>1, <1>2

(* A payer's subjects, each one that the enforcer takes. *)
LEMMA BindingsType ==
    ASSUME NEW s, NodeOK(s), NEW p \in DOMAIN s.peers
    PROVE  /\ Bindings(s, p) \in SUBSET [subject : Subjects, delegated : BOOLEAN]
           /\ \A b \in Bindings(s, p) : Accepts(s.hello, b)
<1>1. CASE s.hello = Null
  BY <1>1 DEF Bindings
<1>2. CASE s.hello # Null
  <2> DEFINE given == s.peers[p].delegated
             first == Bound(Direct(s, p), FALSE)
             rest  == {b \in {Bound(given[i], TRUE) : i \in 1 .. Len(given) \cap 1 .. MaxBindings - 1} :
                         Accepts(s.hello, b)}
  <2>1. s.peers[p] \in Peer /\ p \in Payers
    BY DEF NodeOK
  <2>2. given \in Seq(Vouched) /\ s.peers[p].addr \in Addrs
    BY <2>1 DEF Peer
  <2>3. first \in [subject : Subjects, delegated : BOOLEAN] /\ Accepts(s.hello, first)
    BY <2>1, <2>2 DEF Bound, Direct, Subjects, Accepts
  <2>4. rest \subseteq [subject : Subjects, delegated : BOOLEAN]
    <3> SUFFICES ASSUME NEW i \in 1 .. Len(given)
                 PROVE  Bound(given[i], TRUE) \in [subject : Subjects, delegated : BOOLEAN]
      OBVIOUS
    <3>1. given[i] \in Vouched
      BY <2>2
    <3> QED BY <3>1 DEF Bound, Subjects
  <2>5. \A b \in rest : Accepts(s.hello, b)
    OBVIOUS
  <2>6. Bindings(s, p) = {first} \cup rest
    BY <1>2 DEF Bindings
  <2> HIDE DEF first, rest
  <2> QED BY <2>3, <2>4, <2>5, <2>6
<1> QED BY <1>1, <1>2

(* What the node says of a payer it has. *)
LEMMA MessagesType ==
    ASSUME NEW s, NodeOK(s), NEW p \in DOMAIN s.peers
    PROVE  /\ BindMsg(s, p) \in ToEnforcer /\ BindMsg(s, p).type = "bind" /\ BindMsg(s, p).peer = p
           /\ Acceptable(s.hello, BindMsg(s, p))
           /\ SetMsg(s, p) \in ToEnforcer /\ SetMsg(s, p).type = "set" /\ SetMsg(s, p).peer = p
<1>1. p \in Payers /\ s.peers[p] \in Peer
  BY DEF NodeOK
<1>2. s.peers[p].rate \in Rates
  BY <1>1 DEF Peer
<1>3. BindMsg(s, p) \in BindMsgs
  BY <1>1, BindingsType DEF BindMsg, BindMsgs
<1>4. SetMsg(s, p) \in SetMsgs
  BY <1>1, <1>2 DEF SetMsg, SetMsgs, WireRate
<1> QED BY <1>1, <1>3, <1>4, BindingsType DEF BindMsg, SetMsg, ToEnforcer, Acceptable

(* A payer's messages depend on what the node has of it and on the hello. *)
LEMMA SameMessages ==
    ASSUME NEW s, NEW r, NEW p, r.hello = s.hello, p \in DOMAIN s.peers <=> p \in DOMAIN r.peers,
           /\ r.peers[p].addr = s.peers[p].addr /\ r.peers[p].delegated = s.peers[p].delegated
    PROVE  /\ Bindings(r, p) = Bindings(s, p) /\ Held(r, p) = Held(s, p)
           /\ BindMsg(r, p) = BindMsg(s, p)
<1>1. Direct(r, p) = Direct(s, p)
  BY DEF Direct
<1>2. Bindings(r, p) = Bindings(s, p)
  BY <1>1 DEF Bindings
<1> QED BY <1>2 DEF Held, BindMsg

(* What is agreed on of a payer stays so while nothing of it changes. *)
LEMMA AgreedSame ==
    ASSUME NEW s, NEW r, NEW e, NEW in, NEW p, Agreed(s, e, in, p),
           r.out = s.out, r.hello = s.hello, p \in DOMAIN s.peers <=> p \in DOMAIN r.peers,
           p \in DOMAIN s.peers => r.peers[p] = s.peers[p]
    PROVE  Agreed(r, e, in, p)
<1>1. CASE p \notin DOMAIN s.peers
  BY <1>1 DEF Agreed, Removed
<1>2. CASE p \in DOMAIN s.peers
  <2>1. BindMsg(r, p) = BindMsg(s, p) /\ Held(r, p) = Held(s, p) /\ SetMsg(r, p) = SetMsg(s, p)
    BY <1>2, SameMessages DEF SetMsg
  <2> QED BY <1>2, <2>1 DEF Agreed, BoundTo, SetTo
<1> QED BY <1>1, <1>2

(* A message to one payer changes nothing for another. *)
LEMMA AgreedOthers ==
    ASSUME NEW s, NodeOK(s), NEW r, NEW m \in ToEnforcer, Sends(s, r, m), r.link # 0,
           NEW e, NEW in, NEW p, m.peer # p, Agreed(s, e, in, p)
    PROVE  Agreed(r, e, in, p)
<1>1. /\ r.out = Append(s.out, m) /\ r.peers = s.peers /\ r.hello = s.hello
      /\ s.out \in Seq(ToEnforcer)
  BY DropLinkType DEF Sends, NodeOK
<1>2. \A types : ~Matches(m, p, types)
  BY DEF Matches
<1>3. CASE p \notin DOMAIN s.peers
  BY <1>1, <1>2, <1>3, Appended DEF Agreed, Removed, Told
<1>4. CASE p \in DOMAIN s.peers
  <2>1. BindMsg(r, p) = BindMsg(s, p) /\ Held(r, p) = Held(s, p) /\ SetMsg(r, p) = SetMsg(s, p)
    BY <1>1, SameMessages DEF SetMsg
  <2>2. BoundTo(r, e, in, p)
    BY <1>1, <1>2, <1>4, <2>1, Appended DEF Agreed, BoundTo, Told
  <2>3. SetTo(r, e, p)
    BY <1>1, <1>2, <1>4, <2>1, Appended DEF Agreed, SetTo, Told
  <2> QED BY <1>1, <1>4, <2>2, <2>3 DEF Agreed
<1> QED BY <1>3, <1>4

(* After a payer is bound, the bind is the last said of its subjects. *)
LEMMA BindSent ==
    ASSUME NEW s, NodeOK(s), NEW p \in DOMAIN s.peers, NEW r, r = Send(s, BindMsg(s, p)), r.link # 0,
           NEW e, NEW in
    PROVE  BoundTo(r, e, in, p) /\ (SetTo(s, e, p) => SetTo(r, e, p))
<1> DEFINE m == BindMsg(s, p)
<1>1. m \in ToEnforcer /\ m.type = "bind" /\ m.peer = p
  BY MessagesType
<1>2. Sends(s, r, m)
  BY <1>1, SendType
<1> HIDE DEF m
<1>3. r.out = Append(s.out, m) /\ r.peers = s.peers /\ r.hello = s.hello /\ s.out \in Seq(ToEnforcer)
  BY <1>2, DropLinkType DEF Sends, NodeOK
<1>4. BindMsg(r, p) = m /\ SetMsg(r, p) = SetMsg(s, p)
  BY <1>3, SameMessages DEF SetMsg, m
<1>5. Matches(m, p, {"bind", "remove"}) /\ ~Matches(m, p, {"set", "remove"})
  BY <1>1 DEF Matches
<1>6. BoundTo(r, e, in, p)
  BY <1>1, <1>3, <1>4, <1>5, Appended DEF BoundTo, Told
<1>7. SetTo(s, e, p) => SetTo(r, e, p)
  BY <1>1, <1>3, <1>4, <1>5, Appended DEF SetTo, Told
<1> QED BY <1>6, <1>7

(* After a payer's rate is set, the set is the last said of its rate. *)
LEMMA SetSent ==
    ASSUME NEW s, NodeOK(s), NEW p \in DOMAIN s.peers, NEW r, r = Send(s, SetMsg(s, p)), r.link # 0,
           NEW e, NEW in
    PROVE  SetTo(r, e, p) /\ (BoundTo(s, e, in, p) => BoundTo(r, e, in, p))
<1> DEFINE m == SetMsg(s, p)
<1>1. m \in ToEnforcer /\ m.type = "set" /\ m.peer = p
  BY MessagesType
<1>2. Sends(s, r, m)
  BY <1>1, SendType
<1> HIDE DEF m
<1>3. r.out = Append(s.out, m) /\ r.peers = s.peers /\ r.hello = s.hello /\ s.out \in Seq(ToEnforcer)
  BY <1>2, DropLinkType DEF Sends, NodeOK
<1>4. BindMsg(r, p) = BindMsg(s, p) /\ Held(r, p) = Held(s, p) /\ SetMsg(r, p) = m
  BY <1>3, SameMessages DEF SetMsg, m
<1>5. Matches(m, p, {"set", "remove"}) /\ ~Matches(m, p, {"bind", "remove"})
  BY <1>1 DEF Matches
<1>6. SetTo(r, e, p)
  BY <1>1, <1>3, <1>4, <1>5, Appended DEF SetTo, Told
<1>7. BoundTo(s, e, in, p) => BoundTo(r, e, in, p)
  BY <1>1, <1>3, <1>4, <1>5, Appended DEF BoundTo, Told
<1> QED BY <1>6, <1>7

(* After a payer is removed, that is the last said of it. *)
LEMMA RemoveSent ==
    ASSUME NEW s, NodeOK(s), NEW p \in Payers, p \notin DOMAIN s.peers,
           NEW r, r = Send(s, RemoveMsg(p)), r.link # 0, NEW e, NEW in
    PROVE  Agreed(r, e, in, p)
<1> DEFINE m == RemoveMsg(p)
<1>1. m \in ToEnforcer /\ m.type = "remove" /\ m.peer = p
  BY DEF RemoveMsg, ToEnforcer, RemoveMsgs
<1>2. Sends(s, r, m)
  BY <1>1, SendType
<1>3. r.out = Append(s.out, m) /\ r.peers = s.peers /\ s.out \in Seq(ToEnforcer)
  BY <1>2, DropLinkType DEF Sends, NodeOK
<1>4. Matches(m, p, {"bind", "set", "remove"})
  BY <1>1 DEF Matches
<1> HIDE DEF m
<1>5. EndsIn(r.out, p, {"bind", "set", "remove"}, m)
  BY <1>1, <1>3, <1>4, Appended
<1> QED BY <1>3, <1>5 DEF Agreed, Removed, Told, m

(* A call leaves what the enforcer accepts on its way, and a link only if one was there. *)
LEMMA SentAcceptable ==
    ASSUME NEW s, NodeOK(s), NEW m \in ToEnforcer, Acceptable(s.hello, m), NEW r, r = Send(s, m)
    PROVE  /\ NodeOK(r) /\ Sends(s, r, m) /\ r.hello = s.hello /\ DOMAIN r.peers = DOMAIN s.peers
           /\ r.link # 0 => s.link # 0 /\ r.peers = s.peers
           /\ OutAcceptable(s) => OutAcceptable(r)
<1>1. NodeOK(r) /\ Sends(s, r, m)
  BY SendType
<1>2. r.out = s.out \/ r.out = Append(s.out, m)
  BY <1>1, DropLinkType DEF Sends
<1>3. r.hello = s.hello /\ DOMAIN r.peers = DOMAIN s.peers
  BY <1>1, DropLinkType DEF Sends
<1>4. r.link # 0 => s.link # 0 /\ r.peers = s.peers
  BY <1>1, DropLinkType DEF Sends
<1>5. s.out \in Seq(ToEnforcer)
  BY DEF NodeOK
<1>6. OutAcceptable(s) => OutAcceptable(r)
  BY <1>2, <1>3, <1>5 DEF OutAcceptable
<1> QED BY <1>1, <1>3, <1>4, <1>6

-----------------------------------------------------------------------------
(* The calls of the node. *)

\* What s has counted is at most what was carried, and no other payer is bound by it.
Heeds(s, p) ==
    /\ \A q \in DOMAIN s.peers : Fair(s, q, carried'[q], enf.payers[q], inb)
    /\ \A q \in Payers \ {p} : NoBind(node.out, q) => NoBind(s.out, q)

\* What the node has after a part of a call about p: nothing changed for others.
Follows(s, p) ==
    /\ NodeOK(s) /\ s.hello = node.hello
    /\ s.link # 0 => node.link # 0
    /\ node.link = 0 => s.out = node.out
    /\ OutAcceptable(node) => OutAcceptable(s)
    /\ s.link # 0 /\ enf.conn => \A q \in Payers \ {p} : Agreed(s, enf.payers[q], inb, q)
    /\ AllCharged => Heeds(s, p)

(* Counts stay as they are while the node's do. *)
LEMMA FairSame ==
    ASSUME NEW s, NEW r, NEW p, NEW c, NEW e, NEW in, Fair(s, p, c, e, in), r.link = s.link,
           r.peers[p].base = s.peers[p].base /\ r.peers[p].current = s.peers[p].current
    PROVE  Fair(r, p, c, e, in)
BY DEF Fair, Total

(* Counts are carried over as the link is dropped. *)
LEMMA FairSent ==
    ASSUME NEW s, NodeOK(s), NEW p \in DOMAIN s.peers, NEW c, NEW e, NEW in, Fair(s, p, c, e, in),
           NEW r, NEW m, Sends(s, r, m)
    PROVE  Fair(r, p, c, e, in)
<1>1. CASE r = DropLink(s)
  BY <1>1, DropLinkType DEF Fair
<1>2. CASE r # DropLink(s)
  BY <1>2, FairSame DEF Sends
<1> QED BY <1>1, <1>2

(* What the node has of p may change before it says so. *)
LEMMA Changed ==
    ASSUME ExternalInv, NEW p \in Payers, NEW s, NodeOK(s),
           s.out = node.out, s.hello = node.hello, s.link = node.link,
           \A q \in Payers \ {p} : q \in Tracked <=> q \in DOMAIN s.peers,
           \A q \in Tracked \ {p} : s.peers[q] = node.peers[q],
           AllCharged => \A q \in DOMAIN s.peers : Fair(s, q, carried'[q], enf.payers[q], inb)
    PROVE  Follows(s, p)
<1>1. OutAcceptable(node) => OutAcceptable(s)
  BY DEF OutAcceptable
<1>2. ASSUME s.link # 0, enf.conn, NEW q \in Payers \ {p}
      PROVE  Agreed(s, enf.payers[q], inb, q)
  <2>1. Agreed(node, enf.payers[q], inb, q)
    BY <1>2 DEF ExternalInv, AllAgreed
  <2> QED BY <2>1, AgreedSame DEF Tracked
<1> QED BY <1>1, <1>2 DEF Follows, Heeds

(* Saying it to the enforcer changes nothing for the others. *)
LEMMA SentFollows ==
    ASSUME NEW p \in Payers, NEW s, Follows(s, p), NEW m \in ToEnforcer,
           Acceptable(s.hello, m), m.peer = p, NEW r, r = Send(s, m)
    PROVE  /\ Follows(r, p) /\ DOMAIN r.peers = DOMAIN s.peers
           /\ r.link # 0 => s.link # 0 /\ r.peers = s.peers
<1>1. /\ NodeOK(s) /\ NodeOK(r) /\ Sends(s, r, m) /\ r.hello = s.hello
      /\ DOMAIN r.peers = DOMAIN s.peers
      /\ r.link # 0 => s.link # 0 /\ r.peers = s.peers
      /\ OutAcceptable(s) => OutAcceptable(r)
  BY SentAcceptable DEF Follows
<1>2. node.link = 0 => r.out = node.out
  BY <1>1, DropLinkType DEF Sends, Follows
<1>3. ASSUME r.link # 0, enf.conn, NEW q \in Payers \ {p}
      PROVE  Agreed(r, enf.payers[q], inb, q)
  <2>1. Agreed(s, enf.payers[q], inb, q)
    BY <1>1, <1>3 DEF Follows
  <2> QED BY <1>1, <1>3, <2>1, AgreedOthers
<1>4. s.hello = node.hello /\ (s.link # 0 => node.link # 0) /\ (OutAcceptable(node) => OutAcceptable(s))
  BY DEF Follows
<1>5. ASSUME AllCharged
      PROVE  Heeds(r, p)
  <2>1. Heeds(s, p) /\ s.out \in Seq(ToEnforcer)
    BY <1>1, <1>5 DEF Follows, NodeOK
  <2>2. \A q \in DOMAIN r.peers : Fair(r, q, carried'[q], enf.payers[q], inb)
    BY <1>1, <2>1, FairSent DEF Heeds
  <2>3. r.out = s.out \/ r.out = Append(s.out, m)
    BY <1>1, DropLinkType DEF Sends
  <2>4. ASSUME NEW q \in Payers \ {p}, NoBind(s.out, q)
        PROVE  NoBind(r.out, q)
    <3>1. m.peer # q
      OBVIOUS
    <3>2. CASE r.out = Append(s.out, m)
      <4>1. Len(r.out) = Len(s.out) + 1 /\ r.out[Len(r.out)] = m /\ Len(s.out) \in Nat
        BY <2>1, <3>2
      <4>2. \A k \in 1 .. Len(s.out) : r.out[k] = s.out[k]
        BY <2>1, <3>2
      <4>3. ASSUME NEW k \in 1 .. Len(r.out)
            PROVE  ~(r.out[k].type = "bind" /\ r.out[k].peer = q)
        <5>1. CASE k = Len(r.out)
          BY <3>1, <4>1, <5>1
        <5>2. CASE k # Len(r.out)
          <6>1. k \in 1 .. Len(s.out)
            BY <4>1, <5>2
          <6> QED BY <2>4, <4>2, <6>1, Zenon DEF NoBind
        <5> QED BY <5>1, <5>2
      <4> QED BY <4>3 DEF NoBind
    <3> QED BY <2>3, <2>4, <3>2
  <2> QED BY <2>1, <2>2, <2>4 DEF Heeds
<1> QED BY <1>1, <1>2, <1>3, <1>4, <1>5 DEF Follows

(* A call or a fault uses up some of what a behaviour is allowed. *)
LEMMA SpareType ==
    ASSUME spare \in Allowance, Call \/ Fault
    PROVE  spare' \in Allowance /\ spare'.returns = spare.returns /\ spare'.units = spare.units
BY DEF Call, Fault, Allowance

(* A call that leaves the payer agreed on leaves everything in order. *)
LEMMA CallDone ==
    ASSUME ExternalInv, Call, UNCHANGED <<sess, started, inb, enf>>,
           NEW p \in Payers, NEW s, s = node', Follows(s, p),
           s.link # 0 /\ enf.conn => Agreed(s, enf.payers[p], inb, p),
           carried' \in [Payers -> Nat], gone' \in SUBSET Payers,
           Tracked \cup gone \cup {p} \subseteq DOMAIN s.peers \cup gone'
    PROVE  ExternalInv' /\ (AllCharged => AllCharged')
<1>1. Types'
  BY SpareType DEF ExternalInv, Types, Follows
<1>2. Connected'
  <2>1. s.link # 0 => sess = "live" /\ started
    BY DEF Follows, ExternalInv, Connected
  <2>2. sess = "hello" => s.out = <<>> /\ inb = <<>> /\ enf.payers = Closed
    BY DEF Follows, ExternalInv, Connected
  <2>3. sess = "live" => OutAcceptable(s)
    BY DEF Follows, ExternalInv, Connected
  <2>4. s.hello = node.hello
    BY DEF Follows
  <2> QED BY <2>1, <2>2, <2>3, <2>4 DEF ExternalInv, Connected, OutAcceptable, Acceptable, Closed, Accepts
<1>3. AllAgreed'
  <2>1. s.link # 0 /\ enf.conn => \A q \in Payers : Agreed(s, enf.payers[q], inb, q)
    BY DEF Follows
  <2>2. (\A q \in Payers : Agreed(s, enf.payers[q], inb, q))
          = (\A q \in Payers : Agreed(node, enf.payers[q], inb, q))'
    OBVIOUS
  <2> QED BY <2>1, <2>2 DEF AllAgreed
<1>4. ASSUME AllCharged
      PROVE  AllCharged'
  <2>1. /\ \A q \in DOMAIN s.peers : Fair(s, q, carried'[q], enf.payers[q], inb)
        /\ \A q \in Payers \ {p} : NoBind(node.out, q) => NoBind(s.out, q)
    BY <1>4 DEF Follows, Heeds
  <2>2. spare'.returns = spare.returns /\ spare'.units = spare.units
    BY SpareType DEF ExternalInv, Types
  <2>3. \A q \in Payers : New(q)' => New(q) /\ q # p
    BY DEF New, Tracked
  <2>4. \A q \in Payers : Idle(q) => Idle(q)'
    BY DEF Idle
  <2>5. ASSUME NEW q \in Payers
        PROVE  Charged(q)'
    <3>1. Charged(q)
      BY <1>4 DEF AllCharged
    <3>2. q \in Tracked' => Fair(s, q, carried'[q], enf.payers[q], inb)
      BY <2>1 DEF Tracked
    <3>3. Fair(s, q, carried'[q], enf.payers[q], inb) => Fair(node, q, carried[q], enf.payers[q], inb)'
      OBVIOUS
    <3>4. New(q)' \/ spare'.returns => Idle(q)'
      BY <2>2, <2>3, <2>4, <3>1 DEF Charged
    <3>5. New(q)' => enf'.payers[q].held = {} /\ NoBind(node.out, q)'
      <4> SUFFICES ASSUME New(q)'
                   PROVE  enf'.payers[q].held = {} /\ NoBind(s.out, q)
        OBVIOUS
      <4> QED BY <2>1, <2>3, <3>1 DEF Charged
    <3> QED BY <3>2, <3>3, <3>4, <3>5 DEF Charged
  <2> QED BY <1>4, <2>2, <2>5 DEF AllCharged
<1> QED BY <1>1, <1>2, <1>3, <1>4 DEF ExternalInv

\* One payer's entry replaced.
Edit(p, e) == [node EXCEPT !.peers[p] = e]

(* One payer's entry edited. *)
LEMMA Edited ==
    ASSUME NodeOK(node), NEW p \in Tracked, NEW e \in Peer, NEW s, s = Edit(p, e)
    PROVE  /\ NodeOK(s) /\ s.out = node.out /\ s.hello = node.hello /\ s.link = node.link
           /\ s.seq = node.seq /\ DOMAIN s.peers = Tracked /\ s.peers[p] = e
           /\ \A q \in Tracked \ {p} : s.peers[q] = node.peers[q]
<1>1. /\ s.out = node.out /\ s.hello = node.hello /\ s.link = node.link /\ s.seq = node.seq
      /\ s.peers = [node.peers EXCEPT ![p] = e]
      /\ s = [peers |-> s.peers, link |-> s.link, hello |-> s.hello, seq |-> s.seq, out |-> s.out]
  BY DEF NodeOK, Edit
<1>2. /\ DOMAIN s.peers = Tracked /\ s.peers[p] = e
      /\ \A q \in Tracked \ {p} : s.peers[q] = node.peers[q]
      /\ s.peers \in [DOMAIN s.peers -> Peer]
  BY <1>1 DEF NodeOK, Tracked
<1>3. NodeOK(s)
  BY <1>1, <1>2 DEF NodeOK, Tracked
<1> QED BY <1>1, <1>2, <1>3

(* An edit that leaves the counts leaves them as they were. *)
LEMMA EditedFair ==
    ASSUME NodeOK(node), AllCharged, UNCHANGED carried, NEW p \in Tracked, NEW e, NEW s, s.link = node.link,
           DOMAIN s.peers = Tracked, s.peers[p] = e, \A q \in Tracked \ {p} : s.peers[q] = node.peers[q],
           e.base = node.peers[p].base, e.current = node.peers[p].current
    PROVE  \A q \in DOMAIN s.peers : Fair(s, q, carried'[q], enf.payers[q], inb)
<1> SUFFICES ASSUME NEW q \in Tracked
             PROVE  Fair(s, q, carried'[q], enf.payers[q], inb)
  OBVIOUS
<1>1. Fair(node, q, carried[q], enf.payers[q], inb)
  BY DEF AllCharged, Charged, NodeOK, Tracked
<1>2. s.peers[q].base = node.peers[q].base /\ s.peers[q].current = node.peers[q].current
  OBVIOUS
<1> QED BY <1>1, <1>2, FairSame

(* set_shaping_rate: the payer's rate and the message that sets it. *)
LEMMA SetShapingRateKeeps ==
    ASSUME ExternalInv, NEW p \in Payers, NEW r \in Rates, SetShapingRate(p, r)
    PROVE  ExternalInv' /\ (AllCharged => AllCharged')
<1> DEFINE e == [node.peers[p] EXCEPT !.rate = r]
           s == [node EXCEPT !.peers[p].rate = r]
<1>1. p \in Tracked /\ Call /\ node' = Send(s, SetMsg(s, p)) /\ UNCHANGED <<sess, started, inb, enf, carried, gone>>
  BY DEF SetShapingRate
<1>2. NodeOK(node) /\ carried \in [Payers -> Nat] /\ gone \in SUBSET Payers
  BY DEF ExternalInv, Types
<1>3. /\ e \in Peer /\ e.addr = node.peers[p].addr /\ e.delegated = node.peers[p].delegated /\ e.conflicted = node.peers[p].conflicted
      /\ e.base = node.peers[p].base /\ e.current = node.peers[p].current
  BY <1>1, <1>2 DEF NodeOK, Peer, Tracked
<1>4. s = Edit(p, e)
  BY DEF Edit
<1> HIDE DEF e, s
<1>5. /\ NodeOK(s) /\ s.out = node.out /\ s.hello = node.hello /\ s.link = node.link
      /\ DOMAIN s.peers = Tracked /\ s.peers[p] = e
      /\ \A q \in Tracked \ {p} : s.peers[q] = node.peers[q]
  BY <1>1, <1>2, <1>3, <1>4, Edited
<1>6. Follows(s, p)
  <2>1. AllCharged => \A q \in DOMAIN s.peers : Fair(s, q, carried'[q], enf.payers[q], inb)
    BY <1>1, <1>2, <1>3, <1>5, EditedFair
  <2> QED BY <1>5, <2>1, Changed
<1>7. SetMsg(s, p) \in ToEnforcer /\ SetMsg(s, p).type = "set" /\ SetMsg(s, p).peer = p
  BY <1>1, <1>5, MessagesType
<1>8. PICK z : z = node'
  OBVIOUS
<1>9. Follows(z, p)
  BY <1>1, <1>6, <1>7, <1>8, SentFollows DEF Acceptable
<1>10. ASSUME z.link # 0, enf.conn
       PROVE  Agreed(z, enf.payers[p], inb, p)
  <2>1. s.link # 0 /\ DOMAIN z.peers = DOMAIN s.peers /\ z.peers = s.peers
    BY <1>1, <1>6, <1>7, <1>8, <1>10, SentFollows DEF Acceptable
  <2>2. Agreed(node, enf.payers[p], inb, p)
    BY <1>5, <1>10, <2>1 DEF ExternalInv, AllAgreed
  <2>3. BoundTo(node, enf.payers[p], inb, p)
    BY <1>1, <2>2 DEF Agreed, Tracked
  <2>4. BindMsg(s, p) = BindMsg(node, p) /\ Held(s, p) = Held(node, p)
    BY <1>1, <1>3, <1>5, SameMessages DEF Tracked
  <2>5. BoundTo(s, enf.payers[p], inb, p)
    BY <1>3, <1>5, <2>3, <2>4 DEF BoundTo
  <2>6. SetTo(z, enf.payers[p], p) /\ BoundTo(z, enf.payers[p], inb, p)
    BY <1>1, <1>5, <1>8, <1>10, <2>5, SetSent
  <2> QED BY <1>1, <1>5, <2>1, <2>6 DEF Agreed
<1>11. Tracked \cup gone \cup {p} \subseteq DOMAIN z.peers \cup gone'
  BY <1>1, <1>5, <1>6, <1>7, <1>8, SentFollows DEF Acceptable
<1> QED BY <1>1, <1>2, <1>8, <1>9, <1>10, <1>11, CallDone

(* delegate: one more subject, and the message that binds them all. *)
LEMMA DelegateKeeps ==
    ASSUME ExternalInv, NEW p \in Payers, NEW x \in Vouched, Delegate(p, x)
    PROVE  ExternalInv' /\ (AllCharged => AllCharged')
<1> DEFINE e == [node.peers[p] EXCEPT !.delegated = Append(@, x)]
           s == [node EXCEPT !.peers[p].delegated = Append(@, x)]
<1>1. p \in Tracked /\ Call /\ node' = Send(s, BindMsg(s, p)) /\ UNCHANGED <<sess, started, inb, enf, carried, gone>>
  BY DEF Delegate
<1>2. NodeOK(node) /\ carried \in [Payers -> Nat] /\ gone \in SUBSET Payers
  BY DEF ExternalInv, Types
<1>3. /\ e \in Peer /\ e.rate = node.peers[p].rate
      /\ e.base = node.peers[p].base /\ e.current = node.peers[p].current
  <2> DEFINE old == node.peers[p]
             given == Append(old.delegated, x)
  <2>1. old \in Peer /\ given \in Seq(Vouched) /\ e = [old EXCEPT !.delegated = given]
    BY <1>1, <1>2 DEF NodeOK, Peer, Tracked
  <2> HIDE DEF old, given, e
  <2>2. e \in Peer /\ e.rate = old.rate /\ e.base = old.base /\ e.current = old.current
    BY <2>1 DEF Peer
  <2> QED BY <2>2 DEF old
<1>4. s = Edit(p, e)
  BY DEF Edit
<1> HIDE DEF e, s
<1>5. /\ NodeOK(s) /\ s.out = node.out /\ s.hello = node.hello /\ s.link = node.link
      /\ DOMAIN s.peers = Tracked /\ s.peers[p] = e
      /\ \A q \in Tracked \ {p} : s.peers[q] = node.peers[q]
  BY <1>1, <1>2, <1>3, <1>4, Edited
<1>6. Follows(s, p)
  <2>1. AllCharged => \A q \in DOMAIN s.peers : Fair(s, q, carried'[q], enf.payers[q], inb)
    BY <1>1, <1>2, <1>3, <1>5, EditedFair
  <2> QED BY <1>5, <2>1, Changed
<1>7. BindMsg(s, p) \in ToEnforcer /\ BindMsg(s, p).peer = p /\ Acceptable(s.hello, BindMsg(s, p))
  BY <1>1, <1>5, MessagesType
<1>8. PICK z : z = node'
  OBVIOUS
<1>9. Follows(z, p)
  BY <1>1, <1>6, <1>7, <1>8, SentFollows
<1>10. ASSUME z.link # 0, enf.conn
       PROVE  Agreed(z, enf.payers[p], inb, p)
  <2>1. s.link # 0 /\ DOMAIN z.peers = DOMAIN s.peers /\ z.peers = s.peers
    BY <1>1, <1>6, <1>7, <1>8, <1>10, SentFollows
  <2>2. Agreed(node, enf.payers[p], inb, p)
    BY <1>5, <1>10, <2>1 DEF ExternalInv, AllAgreed
  <2>3. SetTo(node, enf.payers[p], p)
    BY <1>1, <2>2 DEF Agreed, Tracked
  <2>4. SetTo(s, enf.payers[p], p)
    BY <1>3, <1>5, <2>3 DEF SetTo, SetMsg
  <2>5. SetTo(z, enf.payers[p], p) /\ BoundTo(z, enf.payers[p], inb, p)
    BY <1>1, <1>5, <1>8, <1>10, <2>4, BindSent
  <2> QED BY <1>1, <1>5, <2>1, <2>5 DEF Agreed
<1>11. Tracked \cup gone \cup {p} \subseteq DOMAIN z.peers \cup gone'
  BY <1>1, <1>5, <1>6, <1>7, <1>8, SentFollows
<1> QED BY <1>1, <1>2, <1>8, <1>9, <1>10, <1>11, CallDone

\* Other payers.
With(f, k) == [node EXCEPT !.seq = k, !.peers = f]

(* The payers replaced by others, of those the node may have. *)
LEMMA Replaced ==
    ASSUME NodeOK(node), NEW f, DOMAIN f \subseteq Payers, f \in [DOMAIN f -> Peer], NEW k \in Nat,
           NEW s, s = With(f, k)
    PROVE  /\ NodeOK(s) /\ s.peers = f
           /\ s.out = node.out /\ s.hello = node.hello /\ s.link = node.link
<1>1. /\ s.out = node.out /\ s.hello = node.hello /\ s.link = node.link /\ s.seq = k /\ s.peers = f
      /\ s = [peers |-> s.peers, link |-> s.link, hello |-> s.hello, seq |-> s.seq, out |-> s.out]
  BY DEF NodeOK, With
<1>2. NodeOK(s)
  BY <1>1 DEF NodeOK
<1> QED BY <1>1, <1>2

(* remove_payer: the payer, and the message that says so. *)
LEMMA RemovePayerKeeps ==
    ASSUME ExternalInv, NEW p \in Payers, RemovePayer(p)
    PROVE  ExternalInv' /\ (AllCharged => AllCharged')
<1> DEFINE f == [q \in Tracked \ {p} |-> node.peers[q]]
           s == [node EXCEPT !.peers = f]
<1>1. /\ p \in Tracked /\ Call /\ node' = Send(s, RemoveMsg(p))
      /\ UNCHANGED <<sess, started, inb, enf, carried>> /\ gone' = gone \cup {p}
  BY DEF RemovePayer, Tracked
<1>2. NodeOK(node) /\ carried \in [Payers -> Nat] /\ gone \in SUBSET Payers
  BY DEF ExternalInv, Types
<1>3. DOMAIN f = Tracked \ {p} /\ DOMAIN f \subseteq Payers /\ f \in [DOMAIN f -> Peer]
  BY <1>2 DEF NodeOK, Tracked
<1>4. \A q \in Tracked \ {p} : f[q] = node.peers[q]
  OBVIOUS
<1> HIDE DEF f
<1>5. s = With(f, node.seq) /\ node.seq \in Nat
  BY <1>2 DEF NodeOK, With
<1> HIDE DEF s
<1>6. /\ NodeOK(s) /\ s.peers = f
       /\ s.out = node.out /\ s.hello = node.hello /\ s.link = node.link
  BY <1>2, <1>3, <1>5, Replaced
<1>7. Follows(s, p)
  <2>1. ASSUME AllCharged, NEW q \in DOMAIN s.peers
        PROVE  Fair(s, q, carried'[q], enf.payers[q], inb)
    <3>1. Fair(node, q, carried[q], enf.payers[q], inb) /\ s.peers[q] = node.peers[q]
      BY <1>3, <1>4, <1>6, <2>1 DEF AllCharged, Charged
    <3> QED BY <1>1, <1>6, <3>1, FairSame
  <2> QED BY <1>3, <1>4, <1>6, <2>1, Changed
<1>8. RemoveMsg(p) \in ToEnforcer /\ RemoveMsg(p).peer = p /\ Acceptable(s.hello, RemoveMsg(p))
  BY DEF RemoveMsg, ToEnforcer, RemoveMsgs, Acceptable
<1>9. PICK z : z = node'
  OBVIOUS
<1>10. Follows(z, p)
  BY <1>1, <1>7, <1>8, <1>9, SentFollows
<1>11. ASSUME z.link # 0, enf.conn
       PROVE  Agreed(z, enf.payers[p], inb, p)
  BY <1>1, <1>3, <1>6, <1>9, <1>11, RemoveSent
<1>12. carried' \in [Payers -> Nat] /\ gone' \in SUBSET Payers
  BY <1>1, <1>2
<1>13. Tracked \cup gone \cup {p} \subseteq DOMAIN z.peers \cup gone'
  BY <1>1, <1>3, <1>6, <1>7, <1>8, <1>9, SentFollows
<1> QED BY <1>1, <1>9, <1>10, <1>11, <1>12, <1>13, CallDone

(* bind_and_set: both messages, of a payer registered or moved. *)
LEMMA BoundAndSet ==
    ASSUME ExternalInv, NEW p \in Payers, NEW s, Follows(s, p), p \in DOMAIN s.peers,
           NEW z, z = BindAndSet(s, p)
    PROVE  /\ Follows(z, p) /\ DOMAIN z.peers = DOMAIN s.peers
           /\ z.link # 0 => Agreed(z, enf.payers[p], inb, p)
<1> DEFINE r == Send(s, BindMsg(s, p))
<1>1. NodeOK(s)
  BY DEF Follows
<1>2. BindMsg(s, p) \in ToEnforcer /\ BindMsg(s, p).peer = p /\ Acceptable(s.hello, BindMsg(s, p))
  BY <1>1, MessagesType
<1>3. Follows(r, p) /\ DOMAIN r.peers = DOMAIN s.peers
  BY <1>2, SentFollows
<1>4. NodeOK(r) /\ p \in DOMAIN r.peers
  BY <1>3 DEF Follows
<1>5. r.link # 0 => BoundTo(r, enf.payers[p], inb, p)
  BY <1>1, BindSent
<1> HIDE DEF r
<1>6. /\ SetMsg(r, p) \in ToEnforcer /\ SetMsg(r, p).type = "set" /\ SetMsg(r, p).peer = p
  BY <1>4, MessagesType
<1>7. Acceptable(r.hello, SetMsg(r, p))
  BY <1>6 DEF Acceptable
<1>8. z = Send(r, SetMsg(s, p))
  BY DEF BindAndSet, r
<1>9. CASE r.link = 0
  <2>1. z = r
    BY <1>8, <1>9 DEF Send
  <2> QED BY <1>3, <1>9, <2>1
<1>10. CASE r.link # 0
  <2>1. r.peers = s.peers
    BY <1>2, <1>10, SentFollows DEF r
  <2>2. z = Send(r, SetMsg(r, p))
    BY <1>8, <2>1 DEF SetMsg
  <2>3. Follows(z, p) /\ DOMAIN z.peers = DOMAIN r.peers
    BY <1>3, <1>6, <1>7, <2>2, SentFollows
  <2>4. ASSUME z.link # 0
        PROVE  Agreed(z, enf.payers[p], inb, p)
    <3>1. SetTo(z, enf.payers[p], p) /\ BoundTo(z, enf.payers[p], inb, p)
      BY <1>4, <1>5, <1>10, <2>2, <2>4, SetSent
    <3> QED BY <1>4, <2>3, <3>1 DEF Agreed
  <2> QED BY <1>3, <2>3, <2>4
<1> QED BY <1>9, <1>10

(* register_payer: a payer that is new, or that comes from elsewhere. *)
LEMMA RegisterKeeps ==
    ASSUME ExternalInv, NEW p \in Payers, NEW a \in Addrs, Register(p, a)
    PROVE  ExternalInv' /\ (AllCharged => AllCharged')
<1>1. Call /\ UNCHANGED <<sess, started, inb, enf, gone>>
  BY DEF Register
<1>2. /\ NodeOK(node) /\ carried \in [Payers -> Nat] /\ gone \in SUBSET Payers
  BY DEF ExternalInv, Types
<1>3. PICK z : z = node'
  OBVIOUS
<1>4. CASE p \in Tracked
  <2> DEFINE e == [node.peers[p] EXCEPT !.addr = a, !.conflicted = FALSE]
             s == [node EXCEPT !.peers[p].addr = a, !.peers[p].conflicted = FALSE]
  <2>1. z = BindAndSet(s, p) /\ UNCHANGED carried
    BY <1>3, <1>4 DEF Register
  <2>2. e \in Peer /\ e.base = node.peers[p].base /\ e.current = node.peers[p].current
    BY <1>2, <1>4 DEF NodeOK, Peer, Tracked
  <2>3. s = Edit(p, e)
    BY <1>2, <1>4 DEF Edit, NodeOK, Tracked
  <2> HIDE DEF e, s
  <2>4. /\ NodeOK(s) /\ s.out = node.out /\ s.hello = node.hello /\ s.link = node.link
        /\ DOMAIN s.peers = Tracked /\ s.peers[p] = e
        /\ \A q \in Tracked \ {p} : s.peers[q] = node.peers[q]
    BY <1>2, <1>4, <2>2, <2>3, Edited
  <2>5. Follows(s, p)
    <3>1. AllCharged => \A q \in DOMAIN s.peers : Fair(s, q, carried'[q], enf.payers[q], inb)
      BY <1>2, <1>4, <2>1, <2>2, <2>4, EditedFair
    <3> QED BY <2>4, <3>1, Changed
  <2>6. Follows(z, p) /\ DOMAIN z.peers = DOMAIN s.peers /\ (z.link # 0 => Agreed(z, enf.payers[p], inb, p))
    BY <1>4, <2>1, <2>4, <2>5, BoundAndSet
  <2>7. Tracked \cup gone \cup {p} \subseteq DOMAIN z.peers \cup gone'
    BY <1>1, <1>4, <2>4, <2>6
  <2> QED BY <1>1, <1>2, <1>3, <2>1, <2>6, <2>7, CallDone
<1>5. CASE p \notin Tracked
  <2> DEFINE f == [q \in Tracked \cup {p} |-> IF q = p THEN NewPeer(node, a) ELSE node.peers[q]]
             s == [node EXCEPT !.seq = @ + 1, !.peers = f]
  <2>1. z = BindAndSet(s, p) /\ carried' = [carried EXCEPT ![p] = 0]
    BY <1>3, <1>5 DEF Register, Tracked
  <2>2. NewPeer(node, a) \in Peer
    BY <1>2, ExternalAssumption DEF NodeOK, Peer, NewPeer
  <2>3. /\ DOMAIN f = Tracked \cup {p} /\ f \in [DOMAIN f -> Peer]
        /\ f[p] = NewPeer(node, a)
        /\ \A q \in Tracked \ {p} : f[q] = node.peers[q]
    BY <1>2, <2>2 DEF NodeOK, Tracked
  <2>4. DOMAIN f \subseteq Payers /\ node.seq + 1 \in Nat
    BY <1>2 DEF NodeOK, Tracked
  <2> HIDE DEF f
  <2>5. /\ NodeOK(s) /\ s.peers = f
        /\ s.out = node.out /\ s.hello = node.hello /\ s.link = node.link
    <3>1. s = With(f, node.seq + 1)
      BY DEF With
    <3> QED BY <1>2, <2>3, <2>4, <3>1, Replaced
  <2> HIDE DEF s
  <2>6. Follows(s, p)
    <3>1. ASSUME AllCharged, NEW q \in DOMAIN s.peers
          PROVE  Fair(s, q, carried'[q], enf.payers[q], inb)
      <4>1. CASE q = p
        <5>1. New(p) \/ spare.returns
          BY <1>5 DEF Register, New
        <5>2. Idle(p)
          BY <3>1, <5>1 DEF AllCharged, Charged
        <5>3. s.peers[p].base = 0 /\ s.peers[p].current = 0 /\ carried'[p] = 0
          BY <1>2, <2>1, <2>3, <2>5 DEF NewPeer
        <5> QED BY <4>1, <5>2, <5>3 DEF Fair, Idle, Total
      <4>2. CASE q # p
        <5>1. Fair(node, q, carried[q], enf.payers[q], inb)
          BY <1>2, <2>3, <2>5, <3>1, <4>2 DEF AllCharged, Charged, NodeOK, Tracked
        <5>2. s.peers[q] = node.peers[q] /\ carried'[q] = carried[q]
          BY <1>2, <2>1, <2>3, <2>5, <3>1, <4>2 DEF NodeOK, Tracked
        <5> QED BY <2>5, <5>1, <5>2, FairSame
      <4> QED BY <4>1, <4>2
    <3> QED BY <1>5, <2>3, <2>5, <3>1, Changed
  <2>7. Follows(z, p) /\ DOMAIN z.peers = DOMAIN s.peers /\ (z.link # 0 => Agreed(z, enf.payers[p], inb, p))
    BY <2>1, <2>3, <2>5, <2>6, BoundAndSet
  <2>8. carried' \in [Payers -> Nat]
    BY <1>2, <2>1
  <2>9. Tracked \cup gone \cup {p} \subseteq DOMAIN z.peers \cup gone'
    BY <1>1, <2>3, <2>5, <2>7
  <2> QED BY <1>1, <1>2, <1>3, <2>7, <2>8, <2>9, CallDone
<1> QED BY <1>4, <1>5

-----------------------------------------------------------------------------
(* Reading. *)

(* What was to be told of a payer is still to be told, or holds. *)
LEMMA ToldRead ==
    ASSUME NEW S, NEW out \in Seq(S), out # <<>>, NEW p, NEW types, NEW x, NEW now, NEW then,
           Told(out, p, types, x, now),
           ~Matches(Head(out), p, types) /\ now => then,
           Head(out) = x /\ Matches(x, p, types) => then
    PROVE  Told(Tail(out), p, types, x, then)
BY ReadOff DEF Told

\* What reading m does to e, which is what the enforcer has of p, in what it says.
Does(m, p, e, f, in) ==
    /\ m.peer # p => f.held = e.held /\ f.rate = e.rate
    /\ m.peer = p /\ m.type = "bind" =>
         f.rate = e.rate /\ (f.held = {b.subject : b \in m.bindings} \/ Refused(in, p))
    /\ m.peer = p /\ m.type = "set" => f.held = e.held /\ f.rate = m.rate
    /\ m.peer = p /\ m.type = "remove" => f.held = {} /\ f.rate = 0

(* What is agreed on of a payer stays so as the enforcer reads what it was sent. *)
LEMMA AgreedRead ==
    ASSUME NEW s, NodeOK(s), s.out # <<>>, NEW r, r.out = Tail(s.out), r.hello = s.hello, r.peers = s.peers,
           NEW e, NEW f, NEW in, NEW now, NEW p, Agreed(s, e, in, p),
           Refused(in, p) => Refused(now, p), Does(Head(s.out), p, e, f, now)
    PROVE  Agreed(r, f, now, p)
<1> DEFINE m == Head(s.out)
<1>1. s.out \in Seq(ToEnforcer) /\ m \in ToEnforcer
  BY DEF NodeOK
<1>2. m.type \in {"bind", "set", "remove"}
  BY <1>1 DEF ToEnforcer, BindMsgs, SetMsgs, RemoveMsgs
<1> HIDE DEF m
<1>3. CASE p \in DOMAIN s.peers
  <2>1. BindMsg(r, p) = BindMsg(s, p) /\ Held(r, p) = Held(s, p) /\ SetMsg(r, p) = SetMsg(s, p)
    BY <1>3, SameMessages DEF SetMsg
  <2>2. BoundTo(r, f, now, p)
    <3> DEFINE x == BindMsg(s, p)
               types == {"bind", "remove"}
               was1 == e.held = Held(s, p) \/ s.peers[p].conflicted \/ Refused(in, p)
               is == f.held = Held(s, p) \/ s.peers[p].conflicted \/ Refused(now, p)
    <3>1. Told(s.out, p, types, x, was1)
      BY <1>3 DEF Agreed, BoundTo
    <3>2. x.type = "bind" /\ {b.subject : b \in x.bindings} = Held(s, p)
      BY DEF BindMsg, Held
    <3>3. ~Matches(m, p, types) /\ was1 => is
      BY <1>2 DEF Matches, Does, m
    <3>4. m = x /\ Matches(x, p, types) => is
      BY <3>2 DEF Matches, Does, m
    <3> HIDE DEF x, was1, is, types
    <3>5. Told(r.out, p, types, x, is)
      BY <1>1, <3>1, <3>3, <3>4, ToldRead DEF m
    <3> QED BY <2>1, <3>5 DEF BoundTo, x, is, types
  <2>3. SetTo(r, f, p)
    <3> DEFINE x == SetMsg(s, p)
               types == {"set", "remove"}
               was1 == e.rate = WireRate(s.peers[p].rate)
               is == f.rate = WireRate(s.peers[p].rate)
    <3>1. Told(s.out, p, types, x, was1)
      BY <1>3 DEF Agreed, SetTo
    <3>2. x.type = "set" /\ x.rate = WireRate(s.peers[p].rate)
      BY DEF SetMsg
    <3>3. ~Matches(m, p, types) /\ was1 => is
      BY <1>2 DEF Matches, Does, m
    <3>4. m = x /\ Matches(x, p, types) => is
      BY <3>2 DEF Matches, Does, m
    <3> HIDE DEF x, was1, is, types
    <3>5. Told(r.out, p, types, x, is)
      BY <1>1, <3>1, <3>3, <3>4, ToldRead DEF m
    <3> QED BY <2>1, <3>5 DEF SetTo, x, is, types
  <2> QED BY <1>3, <2>2, <2>3 DEF Agreed
<1>4. CASE p \notin DOMAIN s.peers
  <2> DEFINE x == RemoveMsg(p)
             types == {"bind", "set", "remove"}
             was1 == e.held = {} /\ e.rate = 0
             is == f.held = {} /\ f.rate = 0
  <2>1. Told(s.out, p, types, x, was1)
    BY <1>4 DEF Agreed, Removed
  <2>2. x.type = "remove"
    BY DEF RemoveMsg
  <2>3. ~Matches(m, p, types) /\ was1 => is
    BY <1>2 DEF Matches, Does, m
  <2>4. m = x /\ Matches(x, p, types) => is
    BY <2>2 DEF Matches, Does, m
  <2> HIDE DEF x, was1, is, types
  <2>5. Told(r.out, p, types, x, is)
    BY <1>1, <2>1, <2>3, <2>4, ToldRead DEF m
  <2> QED BY <1>4, <2>5 DEF Agreed, Removed, x, is, types
<1> QED BY <1>3, <1>4

\* What the enforcer has of one payer replaced.
EditOf(p, f) == [enf EXCEPT !.payers[p] = f]

(* What the enforcer has of one payer edited. *)
LEMMA SubscriberEdited ==
    ASSUME enf \in EnforcerState, NEW p \in Payers, NEW f \in Subscriber, NEW g, g = EditOf(p, f)
    PROVE  /\ g \in EnforcerState /\ g.conn = enf.conn /\ g.up = enf.up /\ g.says = enf.says
           /\ g.payers[p] = f /\ \A q \in Payers \ {p} : g.payers[q] = enf.payers[q]
<1>1. /\ g.conn = enf.conn /\ g.up = enf.up /\ g.says = enf.says
      /\ g.payers = [enf.payers EXCEPT ![p] = f]
      /\ g = [up |-> g.up, conn |-> g.conn, says |-> g.says, payers |-> g.payers]
  BY DEF EditOf, EnforcerState
<1>2. /\ g.payers \in [Payers -> Subscriber] /\ g.payers[p] = f
      /\ \A q \in Payers \ {p} : g.payers[q] = enf.payers[q]
  BY <1>1 DEF EnforcerState
<1>3. g.conn \in BOOLEAN /\ g.up \in BOOLEAN /\ g.says \in Hellos
  BY <1>1 DEF EnforcerState
<1>4. g \in EnforcerState
  BY <1>1, <1>2, <1>3 DEF EnforcerState
<1> QED BY <1>1, <1>2, <1>4

(* A bind: the enforcer holds what it was asked to, or says that it does not. *)
LEMMA EnforcerBindsDoes ==
    ASSUME Types, NEW m \in BindMsgs, EnforcerBinds(m), NEW p \in Payers
    PROVE  /\ Does(m, p, enf.payers[p], enf'.payers[p], inb')
           /\ Refused(inb, p) => Refused(inb', p)
           /\ enf' \in EnforcerState /\ inb' \in Seq(ToNode)
           /\ enf'.conn = enf.conn /\ enf'.up = enf.up /\ enf'.says = enf.says
           /\ enf'.payers[p].count = enf.payers[p].count
           /\ enf'.payers[p].told = enf.payers[p].told
           /\ \A n : Says(inb', p, n) => Says(inb, p, n)
<1> DEFINE asked   == {b.subject : b \in m.bindings}
           refused == {x \in asked : \E q \in Payers \ {m.peer} : Holds(q, x)}
           n == Cardinality(refused)
           more == [i \in 1 .. n |-> Conflict(m.peer)]
<1>1. m.peer \in Payers /\ m.type = "bind" /\ m.bindings \in SUBSET [subject : Subjects, delegated : BOOLEAN]
  BY DEF BindMsgs
<1>2. asked \subseteq Subjects
  BY <1>1
<1>3. IsFiniteSet(refused) /\ refused \subseteq Subjects
  BY <1>2, MostType, FS_Subset
<1>4. n \in Nat /\ (n = 0 <=> refused = {})
  BY <1>3, FS_CardinalityType, FS_EmptySet
<1>5. enf' = [enf EXCEPT !.payers[m.peer].held = asked \ refused] /\ inb' = inb \o more
  BY DEF EnforcerBinds
<1>6. inb \in Seq(ToNode) /\ enf \in EnforcerState
  BY DEF Types
<1> HIDE DEF asked, refused, n
<1>7. more \in Seq(ToNode) /\ Len(more) = n /\ \A i \in 1 .. n : more[i] = Conflict(m.peer)
  BY <1>1, <1>4 DEF ToNode, Conflict
<1> HIDE DEF more
<1>8. /\ inb' \in Seq(ToNode) /\ Len(inb') = Len(inb) + n /\ Len(inb) \in Nat
      /\ \A i \in 1 .. Len(inb) : inb'[i] = inb[i]
      /\ \A i \in 1 .. n : inb'[Len(inb) + i] = Conflict(m.peer)
      /\ \A i \in 1 .. Len(inb') : i \in 1 .. Len(inb) \/ i - Len(inb) \in 1 .. n
  BY <1>4, <1>5, <1>6, <1>7
<1>9. /\ enf' \in EnforcerState /\ enf'.conn = enf.conn /\ enf'.up = enf.up /\ enf'.says = enf.says
      /\ enf'.payers[m.peer] = [enf.payers[m.peer] EXCEPT !.held = asked \ refused]
      /\ \A q \in Payers \ {m.peer} : enf'.payers[q] = enf.payers[q]
  <2> DEFINE f == [enf.payers[m.peer] EXCEPT !.held = asked \ refused]
  <2>1. f \in Subscriber
    <3>1. enf.payers[m.peer] \in Subscriber
      BY <1>1, <1>6 DEF EnforcerState
    <3>2. asked \ refused \in SUBSET Subjects
      BY <1>2
    <3> QED BY ONLY <3>1, <3>2 DEF Subscriber
  <2>2. enf' = EditOf(m.peer, f)
    BY <1>5 DEF EditOf
  <2> HIDE DEF f
  <2>3. /\ enf' \in EnforcerState /\ enf'.conn = enf.conn /\ enf'.up = enf.up /\ enf'.says = enf.says
        /\ enf'.payers[m.peer] = f
        /\ \A q \in Payers \ {m.peer} : enf'.payers[q] = enf.payers[q]
    BY <1>1, <1>6, <2>1, <2>2, SubscriberEdited
  <2> QED BY <2>3 DEF f
<1>10. /\ enf'.payers[p].count = enf.payers[p].count /\ enf'.payers[p].told = enf.payers[p].told
       /\ enf'.payers[p].rate = enf.payers[p].rate
       /\ p # m.peer => enf'.payers[p].held = enf.payers[p].held
       /\ p = m.peer => enf'.payers[p].held = asked \ refused
  <2>1. enf.payers[m.peer] \in Subscriber
    BY <1>1, <1>6 DEF EnforcerState
  <2> QED BY <1>9, <2>1 DEF Subscriber
<1>11. Refused(inb, p) => Refused(inb', p)
  <2>1. \A k \in 1 .. Len(inb) : k \in 1 .. Len(inb')
    BY <1>4, <1>8
  <2> QED BY <1>8, <2>1 DEF Refused
<1>12. p = m.peer => enf'.payers[p].held = asked \/ Refused(inb', p)
  <2>1. CASE refused = {}
    BY <1>10, <2>1
  <2>2. CASE refused # {}
    <3>1. 1 \in 1 .. n /\ Len(inb) + 1 \in 1 .. Len(inb')
      BY <1>4, <1>8, <2>2
    <3> QED BY <1>8, <3>1 DEF Refused
  <2> QED BY <2>1, <2>2
<1>13. Does(m, p, enf.payers[p], enf'.payers[p], inb')
  BY <1>1, <1>10, <1>12 DEF Does, asked
<1>14. ASSUME NEW k, Says(inb', p, k)
       PROVE  Says(inb, p, k)
  <2>1. PICK i \in 1 .. Len(inb') : inb'[i] = Counters(p, k)
    BY <1>14 DEF Says
  <2>2. CASE i \in 1 .. Len(inb)
    BY <1>8, <2>1, <2>2 DEF Says
  <2>3. CASE i - Len(inb) \in 1 .. n
    <3>1. inb'[i] = Conflict(m.peer)
      BY <1>8, <2>3
    <3>2. Conflict(m.peer).type = "conflict" /\ Counters(p, k).type = "counters"
      BY DEF Conflict, Counters
    <3> QED BY <2>1, <3>1, <3>2
  <2> QED BY <1>8, <2>2, <2>3
<1> QED BY <1>8, <1>9, <1>10, <1>11, <1>13, <1>14

(* An enforcer that has forgotten everything. *)
LEMMA ClosedType ==
    /\ Closed \in [Payers -> Subscriber]
    /\ \A p \in Payers : Closed[p].held = {} /\ Closed[p].rate = 0 /\ Closed[p].count = 0 /\ Closed[p].told = 0
BY ExternalAssumption DEF Closed, Subscriber

(* One message read by the enforcer: what it does to a payer. *)
LEMMA EnforcerReadsDoes ==
    ASSUME Types, EnforcerReads, NEW p \in Payers
    PROVE  /\ node.out # <<>> /\ enf.conn
           /\ NodeOK(node') /\ node'.out = Tail(node.out) /\ node'.hello = node.hello
           /\ node'.peers = node.peers /\ node'.link = node.link
           /\ Does(Head(node.out), p, enf.payers[p], enf'.payers[p], inb')
           /\ Refused(inb, p) => Refused(inb', p)
           /\ enf' \in EnforcerState /\ inb' \in Seq(ToNode)
           /\ enf'.conn = enf.conn /\ enf'.up = enf.up /\ enf'.says = enf.says
           /\ \/ /\ enf'.payers[p].count = enf.payers[p].count
                 /\ enf'.payers[p].told = enf.payers[p].told
              \/ /\ enf'.payers[p].count = 0
                 /\ enf'.payers[p].told = 0
           /\ \A n : Says(inb', p, n) => Says(inb, p, n)
<1> DEFINE m == Head(node.out)
<1>1. NodeOK(node) /\ node.out # <<>> /\ enf.conn /\ node' = [node EXCEPT !.out = Tail(@)]
  BY DEF Types, EnforcerReads
<1>2. /\ node'.out = Tail(node.out) /\ node'.hello = node.hello /\ node'.seq = node.seq
      /\ node'.peers = node.peers /\ node'.link = node.link
      /\ node' = [peers |-> node'.peers, link |-> node'.link, hello |-> node'.hello,
                  seq |-> node'.seq, out |-> node'.out]
  BY <1>1 DEF NodeOK
<1>3. m \in ToEnforcer /\ Tail(node.out) \in Seq(ToEnforcer) /\ Len(Tail(node.out)) = Len(node.out) - 1
      /\ Len(node.out) \in Nat
  BY <1>1 DEF NodeOK
<1>4. Len(Tail(node.out)) <= Most
  BY <1>1, <1>3, MostType DEF NodeOK
<1>5. NodeOK(node')
  BY <1>1, <1>2, <1>3, <1>4 DEF NodeOK
<1>6. \/ m.type = "bind" /\ EnforcerBinds(m)
      \/ m.type = "set" /\ enf' = [enf EXCEPT !.payers[m.peer].rate = m.rate] /\ UNCHANGED inb
      \/ m.type = "remove" /\ enf' = [enf EXCEPT !.payers[m.peer] = Closed[m.peer]] /\ UNCHANGED inb
  BY DEF EnforcerReads
<1>7. enf \in EnforcerState /\ inb \in Seq(ToNode) /\ enf.payers[p] \in Subscriber /\ m.peer \in Payers
  BY <1>3 DEF Types, EnforcerState, ToEnforcer, BindMsgs, SetMsgs, RemoveMsgs
<1> HIDE DEF m
<1>8. CASE m.type = "bind" /\ EnforcerBinds(m)
  <2>1. m \in BindMsgs
    BY <1>3, <1>8 DEF ToEnforcer, SetMsgs, RemoveMsgs
  <2> QED BY <1>1, <1>2, <1>5, <1>8, <2>1, EnforcerBindsDoes DEF m
<1>9. CASE m.type = "set" /\ enf' = [enf EXCEPT !.payers[m.peer].rate = m.rate] /\ UNCHANGED inb
  <2> DEFINE f == [enf.payers[m.peer] EXCEPT !.rate = m.rate]
  <2>1. m.rate \in Rates \cup {Null}
    BY <1>3, <1>9 DEF ToEnforcer, BindMsgs, SetMsgs, RemoveMsgs
  <2>2. /\ f \in Subscriber /\ f.rate = m.rate /\ f.held = enf.payers[m.peer].held
        /\ f.count = enf.payers[m.peer].count /\ f.told = enf.payers[m.peer].told
    BY <1>7, <2>1 DEF EnforcerState, Subscriber
  <2>3. enf' = EditOf(m.peer, f)
    BY <1>9 DEF EditOf
  <2> HIDE DEF f
  <2>4. /\ enf' \in EnforcerState /\ enf'.conn = enf.conn /\ enf'.up = enf.up /\ enf'.says = enf.says
        /\ enf'.payers[m.peer] = f /\ \A q \in Payers \ {m.peer} : enf'.payers[q] = enf.payers[q]
    BY <1>7, <2>2, <2>3, SubscriberEdited
  <2>5. Does(m, p, enf.payers[p], enf'.payers[p], inb')
    BY <1>9, <2>2, <2>4 DEF Does
  <2> QED BY <1>1, <1>2, <1>5, <1>7, <1>9, <2>2, <2>4, <2>5 DEF m
<1>10. CASE m.type = "remove" /\ enf' = [enf EXCEPT !.payers[m.peer] = Closed[m.peer]] /\ UNCHANGED inb
  <2> DEFINE f == Closed[m.peer]
  <2>1. f \in Subscriber /\ f.held = {} /\ f.rate = 0 /\ f.count = 0 /\ f.told = 0
    BY <1>7, ClosedType
  <2>2. enf' = EditOf(m.peer, f)
    BY <1>10 DEF EditOf
  <2> HIDE DEF f
  <2>3. /\ enf' \in EnforcerState /\ enf'.conn = enf.conn /\ enf'.up = enf.up /\ enf'.says = enf.says
        /\ enf'.payers[m.peer] = f /\ \A q \in Payers \ {m.peer} : enf'.payers[q] = enf.payers[q]
    BY <1>7, <2>1, <2>2, SubscriberEdited
  <2>4. Does(m, p, enf.payers[p], enf'.payers[p], inb')
    BY <1>10, <2>1, <2>3 DEF Does
  <2> QED BY <1>1, <1>2, <1>5, <1>7, <1>10, <2>1, <2>3, <2>4 DEF m
<1> QED BY <1>6, <1>8, <1>9, <1>10

(* The enforcer reads one message. *)
LEMMA EnforcerReadsKeeps ==
    ASSUME ExternalInv, EnforcerReads
    PROVE  ExternalInv' /\ (AllCharged => AllCharged')
<1>1. Types /\ UNCHANGED <<sess, started, carried, was, gone, spare>>
  BY DEF ExternalInv, EnforcerReads
<1>2. PICK z : z = node'
  OBVIOUS
<1>3. \A p \in Payers :
         /\ node.out # <<>> /\ enf.conn
         /\ NodeOK(z) /\ z.out = Tail(node.out) /\ z.hello = node.hello
         /\ z.peers = node.peers /\ z.link = node.link
         /\ Does(Head(node.out), p, enf.payers[p], enf'.payers[p], inb')
         /\ Refused(inb, p) => Refused(inb', p)
         /\ enf' \in EnforcerState /\ inb' \in Seq(ToNode)
         /\ enf'.conn = enf.conn /\ enf'.up = enf.up /\ enf'.says = enf.says
         /\ \/ enf'.payers[p].count = enf.payers[p].count /\ enf'.payers[p].told = enf.payers[p].told
            \/ enf'.payers[p].count = 0 /\ enf'.payers[p].told = 0
         /\ \A n : Says(inb', p, n) => Says(inb, p, n)
  BY <1>1, <1>2, EnforcerReadsDoes
<1>4. NodeOK(node) /\ enf.conn /\ node.out # <<>>
  BY <1>1 DEF Types, EnforcerReads
<1>5. PICK p \in Payers : TRUE
  <2>1. Head(node.out) \in ToEnforcer
    BY <1>4 DEF NodeOK
  <2> QED BY <2>1 DEF ToEnforcer, BindMsgs, SetMsgs, RemoveMsgs
<1>6. Types'
  BY <1>1, <1>2, <1>3, <1>5 DEF Types
<1>7. Connected'
  <2>1. sess # "hello"
    BY <1>4 DEF ExternalInv, Connected
  <2>2. OutAcceptable(node) => OutAcceptable(z)
    <3>1. \A k \in 1 .. Len(Tail(node.out)) : k + 1 \in 1 .. Len(node.out) /\ Tail(node.out)[k] = node.out[k + 1]
      BY <1>4 DEF NodeOK
    <3>2. z.out = Tail(node.out) /\ z.hello = node.hello
      BY <1>3, <1>5
    <3> QED BY <3>1, <3>2 DEF OutAcceptable
  <2>3. sess = "live" => OutAcceptable(z)
    BY <2>2 DEF ExternalInv, Connected
  <2>4. OutAcceptable(z) => OutAcceptable(node)'
    BY <1>2 DEF OutAcceptable, Acceptable, Accepts
  <2>5. z.link = node.link /\ z.hello = node.hello /\ enf'.conn = enf.conn /\ enf'.up = enf.up /\ enf'.says = enf.says
    BY <1>3, <1>5
  <2> QED BY <1>1, <1>2, <2>1, <2>3, <2>4, <2>5 DEF ExternalInv, Connected
<1>8. AllAgreed'
  <2> SUFFICES ASSUME z.link # 0, NEW q \in Payers
               PROVE  Agreed(z, enf'.payers[q], inb', q)
    BY <1>2 DEF AllAgreed
  <2>1. Agreed(node, enf.payers[q], inb, q)
    BY <1>3, <1>4, <1>5 DEF ExternalInv, AllAgreed
  <2>2. /\ z.out = Tail(node.out) /\ z.hello = node.hello /\ z.peers = node.peers
        /\ Does(Head(node.out), q, enf.payers[q], enf'.payers[q], inb')
        /\ Refused(inb, q) => Refused(inb', q)
    BY <1>3
  <2> QED BY ONLY <1>4, <2>1, <2>2, AgreedRead
<1>9. ASSUME AllCharged
      PROVE  AllCharged'
  <2>1. z.link = node.link /\ z.peers = node.peers /\ z.out = Tail(node.out)
    BY <1>3, <1>5
  <2>2. Tracked' = Tracked /\ \A q : New(q)' <=> New(q)
    BY <1>1, <1>2, <2>1 DEF Tracked, New
  <2>3. ASSUME NEW q \in Payers
        PROVE  Charged(q)'
    <3>1. /\ Charged(q) /\ carried[q] \in Nat /\ enf.payers[q] \in Subscriber
          /\ q \in Tracked => node.peers[q] \in Peer
      BY <1>1, <1>9 DEF AllCharged, Types, EnforcerState, NodeOK, Tracked
    <3>2. /\ \/ enf'.payers[q].count = enf.payers[q].count /\ enf'.payers[q].told = enf.payers[q].told
             \/ enf'.payers[q].count = 0 /\ enf'.payers[q].told = 0
          /\ \A n : Says(inb', q, n) => Says(inb, q, n)
          /\ Does(Head(node.out), q, enf.payers[q], enf'.payers[q], inb')
      BY <1>3
    <3>3. q \in Tracked => Fair(z, q, carried[q], enf'.payers[q], inb')
      <4> SUFFICES ASSUME q \in Tracked
                   PROVE  Fair(z, q, carried[q], enf'.payers[q], inb')
        OBVIOUS
      <4>1. Fair(node, q, carried[q], enf.payers[q], inb)
        BY <3>1 DEF Charged
      <4>2. node.link # 0 => node.peers[q].base + enf'.payers[q].count <= carried[q]
        <5>1. node.peers[q].base \in Nat /\ node.peers[q].current \in Nat /\ enf.payers[q].count \in Nat
          BY <3>1 DEF Peer, Subscriber
        <5>2. node.peers[q].base <= carried[q]
          BY <3>1, <4>1, <5>1 DEF Fair, Total
        <5> QED BY <3>2, <4>1, <5>1, <5>2 DEF Fair
      <4> QED BY <2>1, <3>2, <4>1, <4>2 DEF Fair, Total
    <3>4. Idle(q) => Idle(q)'
      BY <3>2 DEF Idle
    <3>5. New(q) => enf'.payers[q].held = {} /\ NoBind(z.out, q)
      <4> SUFFICES ASSUME New(q)
                   PROVE  enf'.payers[q].held = {} /\ NoBind(z.out, q)
        OBVIOUS
      <4>1. enf.payers[q].held = {} /\ NoBind(node.out, q)
        BY <3>1 DEF Charged
      <4>2. /\ 1 \in 1 .. Len(node.out) /\ Head(node.out) = node.out[1]
            /\ \A k \in 1 .. Len(Tail(node.out)) : k + 1 \in 1 .. Len(node.out) /\ Tail(node.out)[k] = node.out[k + 1]
        BY <1>4 DEF NodeOK
      <4>3. ~(Head(node.out).type = "bind" /\ Head(node.out).peer = q)
        BY <4>1, <4>2 DEF NoBind
      <4>4. Head(node.out).type \in {"bind", "set", "remove"}
        <5>1. Head(node.out) \in ToEnforcer
          BY <1>4 DEF NodeOK
        <5> QED BY <5>1 DEF ToEnforcer, BindMsgs, SetMsgs, RemoveMsgs
      <4> QED BY <2>1, <3>2, <4>1, <4>2, <4>3, <4>4 DEF Does, NoBind
    <3> QED BY <1>1, <1>2, <2>2, <3>1, <3>3, <3>4, <3>5 DEF Charged
  <2> QED BY <1>1, <1>9, <2>3 DEF AllCharged
<1> QED BY <1>6, <1>7, <1>8, <1>9 DEF ExternalInv

(* What is agreed on stays so while the enforcer has the same of the payer. *)
LEMMA AgreedGrows ==
    ASSUME NEW s, NEW e, NEW f, NEW in, NEW now, NEW p, Agreed(s, e, in, p),
           f.held = e.held, f.rate = e.rate, Refused(in, p) => Refused(now, p)
    PROVE  Agreed(s, f, now, p)
BY DEF Agreed, BoundTo, SetTo, Removed, Told

(* What is agreed on stays so as the node reads a message, a conflict or counts. *)
LEMMA AgreedHeard ==
    ASSUME NEW s, NEW r, NEW e, NEW in \in Seq(ToNode), in # <<>>, NEW p, Agreed(s, e, in, p),
           r.out = s.out, r.hello = s.hello, DOMAIN r.peers = DOMAIN s.peers,
           p \in DOMAIN s.peers =>
             /\ r.peers[p].addr = s.peers[p].addr /\ r.peers[p].delegated = s.peers[p].delegated
             /\ r.peers[p].rate = s.peers[p].rate
             /\ s.peers[p].conflicted => r.peers[p].conflicted
             /\ Head(in) = Conflict(p) => r.peers[p].conflicted
    PROVE  Agreed(r, e, Tail(in), p)
<1>1. CASE p \notin DOMAIN s.peers
  BY <1>1 DEF Agreed, Removed
<1>2. CASE p \in DOMAIN s.peers
  <2>1. BindMsg(r, p) = BindMsg(s, p) /\ Held(r, p) = Held(s, p) /\ SetMsg(r, p) = SetMsg(s, p)
    BY <1>2, SameMessages DEF SetMsg
  <2>2. Refused(in, p) => Refused(Tail(in), p) \/ Head(in) = Conflict(p)
    <3>1. ASSUME NEW k \in 1 .. Len(in)
          PROVE  \/ k = 1 /\ Head(in) = in[k]
                 \/ k - 1 \in 1 .. Len(Tail(in)) /\ Tail(in)[k - 1] = in[k]
      OBVIOUS
    <3> QED BY <3>1 DEF Refused
  <2>3. BoundTo(r, e, Tail(in), p)
    BY <1>2, <2>1, <2>2 DEF Agreed, BoundTo, Told
  <2>4. SetTo(r, e, p)
    BY <1>2, <2>1 DEF Agreed, SetTo
  <2> QED BY <1>2, <2>3, <2>4 DEF Agreed
<1> QED BY <1>1, <1>2

\* From a subscriber e with c carried for it to f with d, the enforcer counts no
\* more than it carried, and says on its way to the node no more than it counts.
CountsOn(p, c, d, e, f, in, now) ==
    /\ c \in Nat /\ d \in Nat /\ c <= d
    /\ e.count \in Nat /\ f.count \in Nat /\ f.count <= e.count + (d - c)
    /\ \A n \in Nat : Says(now, p, n) => Says(in, p, n) \/ n <= f.count

(* Counts stay covered while the enforcer says no more than it carried. *)
LEMMA FairMore ==
    ASSUME NEW s, NEW p, s.peers[p] \in Peer, NEW c, NEW d, NEW e, NEW f, NEW in, NEW now,
           CountsOn(p, c, d, e, f, in, now), Fair(s, p, c, e, in)
    PROVE  Fair(s, p, d, f, now)
<1> USE DEF CountsOn
<1>0. s.peers[p] \in Peer
  OBVIOUS
<1>1. s.peers[p].base \in Nat /\ s.peers[p].current \in Nat /\ Total(s.peers[p]) \in Nat
  BY ONLY <1>0 DEF Peer, Total
<1>2. Total(s.peers[p]) <= d /\ (s.link = 0 => s.peers[p].current = 0)
  BY <1>1 DEF Fair
<1>3. s.link # 0 => s.peers[p].base + f.count <= d
  BY <1>1 DEF Fair
<1>4. ASSUME s.link # 0, NEW n \in Nat, Says(now, p, n)
      PROVE  s.peers[p].base + n <= d
  BY <1>1, <1>3, <1>4 DEF Fair
<1> QED BY <1>2, <1>3, <1>4 DEF Fair

(* The node reads one message. *)
LEMMA NodeReadsKeeps ==
    ASSUME ExternalInv, NodeReads
    PROVE  ExternalInv' /\ (AllCharged => AllCharged')
<1> DEFINE m == Head(inb)
<1>1. /\ sess = "live" /\ node.link # 0 /\ inb # <<>> /\ inb' = Tail(inb)
      /\ UNCHANGED <<sess, started, enf, carried, was, gone, spare>>
  BY DEF NodeReads
<1>2. NodeOK(node) /\ inb \in Seq(ToNode)
  BY DEF ExternalInv, Types
<1>3. m \in ToNode /\ Tail(inb) \in Seq(ToNode)
  BY <1>1, <1>2
<1>4. PICK z : z = node'
  OBVIOUS
<1>5. /\ NodeOK(z) /\ z.out = node.out /\ z.hello = node.hello /\ z.link = node.link
      /\ DOMAIN z.peers = Tracked
      /\ \A p \in Tracked :
           /\ z.peers[p].addr = node.peers[p].addr /\ z.peers[p].delegated = node.peers[p].delegated
           /\ z.peers[p].rate = node.peers[p].rate /\ z.peers[p].base = node.peers[p].base
           /\ \/ z.peers[p].current = node.peers[p].current
              \/ m = Counters(p, z.peers[p].current) /\ z.peers[p].current \in Nat
           /\ node.peers[p].conflicted => z.peers[p].conflicted
           /\ m = Conflict(p) => z.peers[p].conflicted
  <2>1. CASE m.peer \notin Tracked /\ UNCHANGED node
    BY <1>2, <1>4, <2>1 DEF Conflict, Tracked
  <2>2. CASE m.peer \in Tracked /\ m.type = "counters" /\ node' = [node EXCEPT !.peers[m.peer] = Higher(@, m.units)]
    <3> DEFINE old == node.peers[m.peer]
               e == Higher(old, m.units)
    <3>1. old \in Peer /\ m.units \in Nat
      BY <1>2, <1>3, <2>2 DEF NodeOK, Tracked, ToNode
    <3>2. z = Edit(m.peer, e)
      BY <1>4, <2>2 DEF Edit
    <3> HIDE DEF old, m
    <3>3. /\ e \in Peer /\ e.addr = old.addr /\ e.delegated = old.delegated
          /\ e.rate = old.rate /\ e.conflicted = old.conflicted /\ e.base = old.base
          /\ e.current = old.current \/ e.current = m.units
      BY <3>1 DEF Higher, Peer
    <3> HIDE DEF e
    <3>4. /\ NodeOK(z) /\ z.out = node.out /\ z.hello = node.hello /\ z.link = node.link
          /\ DOMAIN z.peers = Tracked /\ z.peers[m.peer] = e
          /\ \A q \in Tracked \ {m.peer} : z.peers[q] = node.peers[q]
      BY <1>2, <2>2, <3>2, <3>3, Edited
    <3>5. \A p : m # Conflict(p)
      BY <2>2 DEF Conflict
    <3>6. m = Counters(m.peer, m.units)
      BY <1>3, <2>2 DEF ToNode, Counters
    <3> QED BY <2>2, <3>1, <3>3, <3>4, <3>5, <3>6 DEF old
  <2>3. CASE m.peer \in Tracked /\ m.type = "conflict" /\ node' = [node EXCEPT !.peers[m.peer].conflicted = TRUE]
    <3> DEFINE old == node.peers[m.peer]
               e == [old EXCEPT !.conflicted = TRUE]
    <3>1. old \in Peer
      BY <1>2, <1>3, <2>3 DEF NodeOK, Tracked
    <3>2. z = Edit(m.peer, e)
      BY <1>4, <2>3 DEF Edit
    <3> HIDE DEF old, m
    <3>3. /\ e \in Peer /\ e.addr = old.addr /\ e.delegated = old.delegated
          /\ e.rate = old.rate /\ e.conflicted /\ e.base = old.base /\ e.current = old.current
      BY <3>1 DEF Peer
    <3> HIDE DEF e
    <3>4. /\ NodeOK(z) /\ z.out = node.out /\ z.hello = node.hello /\ z.link = node.link
          /\ DOMAIN z.peers = Tracked /\ z.peers[m.peer] = e
          /\ \A q \in Tracked \ {m.peer} : z.peers[q] = node.peers[q]
      BY <1>2, <2>3, <3>2, <3>3, Edited
    <3>5. \A p : m = Conflict(p) => p = m.peer
      BY DEF Conflict
    <3> QED BY <2>3, <3>3, <3>4, <3>5 DEF old
  <2> QED BY <2>1, <2>2, <2>3 DEF NodeReads
<1>6. Types'
  BY <1>1, <1>3, <1>4, <1>5 DEF ExternalInv, Types
<1>7. Connected'
  <2>1. OutAcceptable(z)
    BY <1>1, <1>5 DEF ExternalInv, Connected, OutAcceptable
  <2>2. OutAcceptable(z) => OutAcceptable(node)'
    BY <1>4 DEF OutAcceptable, Acceptable, Accepts
  <2> QED BY <1>1, <1>4, <1>5, <2>1, <2>2 DEF ExternalInv, Connected
<1>8. AllAgreed'
  <2> SUFFICES ASSUME enf.conn, NEW q \in Payers
               PROVE  Agreed(z, enf.payers[q], Tail(inb), q)
    BY <1>1, <1>4 DEF AllAgreed
  <2>1. Agreed(node, enf.payers[q], inb, q)
    BY <1>1 DEF ExternalInv, AllAgreed
  <2> QED BY ONLY <1>1, <1>2, <1>5, <2>1, AgreedHeard DEF Tracked
<1>9. ASSUME AllCharged
      PROVE  AllCharged'
  <2>1. \A q \in Payers, n \in Nat : Says(Tail(inb), q, n) => Says(inb, q, n)
    <3>1. \A k \in 1 .. Len(Tail(inb)) : k + 1 \in 1 .. Len(inb) /\ Tail(inb)[k] = inb[k + 1]
      BY <1>1, <1>2
    <3> QED BY <3>1 DEF Says
  <2>2. Tracked' = Tracked /\ \A q : New(q)' <=> New(q)
    BY <1>1, <1>4, <1>5 DEF Tracked, New
  <2>3. ASSUME NEW q \in Payers
        PROVE  Charged(q)'
    <3>1. /\ Charged(q) /\ carried[q] \in Nat
          /\ q \in Tracked => node.peers[q] \in Peer /\ z.peers[q] \in Peer
      BY <1>2, <1>5, <1>9 DEF AllCharged, ExternalInv, Types, NodeOK, Tracked
    <3>2. ASSUME q \in Tracked
          PROVE  Fair(z, q, carried[q], enf.payers[q], Tail(inb))
      <4>1. Fair(node, q, carried[q], enf.payers[q], inb)
        BY <3>1, <3>2 DEF Charged
      <4>2. z.peers[q].base = node.peers[q].base /\ z.link = node.link /\ node.link # 0
        BY <1>1, <1>5, <3>2
      <4>3. Total(z.peers[q]) <= carried[q]
        <5>1. CASE z.peers[q].current = node.peers[q].current
          BY <4>1, <4>2, <5>1 DEF Fair, Total
        <5>2. CASE m = Counters(q, z.peers[q].current) /\ z.peers[q].current \in Nat
          <6>1. Says(inb, q, z.peers[q].current)
            <7>1. 1 \in 1 .. Len(inb) /\ inb[1] = m
              BY <1>1, <1>2
            <7> QED BY <5>2, <7>1 DEF Says
          <6> QED BY <4>1, <4>2, <5>2, <6>1 DEF Fair, Total
        <5> QED BY <1>5, <3>2, <5>1, <5>2
      <4> QED BY <2>1, <4>1, <4>2, <4>3 DEF Fair
    <3>3. Idle(q) => Idle(q)'
      BY <1>1, <2>1 DEF Idle
    <3>4. New(q) => enf.payers[q].held = {} /\ NoBind(z.out, q)
      BY <1>5, <3>1 DEF Charged
    <3> QED BY <1>1, <1>4, <2>2, <3>1, <3>2, <3>3, <3>4 DEF Charged
  <2> QED BY <1>1, <1>9, <2>3 DEF AllCharged
<1> QED BY <1>6, <1>7, <1>8, <1>9 DEF ExternalInv

-----------------------------------------------------------------------------
(* The connection comes and goes. *)

(* The session ends: the link is dropped. *)
LEMMA SessionEndsKeeps ==
    ASSUME ExternalInv, SessionEnds
    PROVE  ExternalInv' /\ (AllCharged => AllCharged')
<1>1. /\ node' = DropLink(node) /\ sess' = "down" /\ UNCHANGED <<started, inb, enf, carried, was, gone>>
      /\ UNCHANGED spare \/ Fault
  BY DEF SessionEnds
<1>2. PICK z : z = node'
  OBVIOUS
<1>3. NodeOK(z) /\ z.link = 0 /\ z.hello = node.hello
  BY <1>1, <1>2, DropLinkType DEF ExternalInv, Types
<1>4. spare' \in Allowance
  BY <1>1, SpareType DEF ExternalInv, Types
<1>5. Types'
  BY <1>1, <1>2, <1>3, <1>4 DEF ExternalInv, Types
<1>6. Connected'
  BY <1>1, <1>2, <1>3 DEF ExternalInv, Connected
<1>7. AllAgreed'
  BY <1>2, <1>3 DEF AllAgreed
<1>8. ASSUME AllCharged
      PROVE  AllCharged'
  <2>1. /\ DOMAIN z.peers = Tracked /\ z.out = node.out /\ Tracked' = Tracked
        /\ \A q : New(q)' <=> New(q)
    BY <1>1, <1>2, DropLinkType DEF ExternalInv, Types, Tracked, New
  <2>2. spare'.returns = spare.returns /\ spare'.units = spare.units
    BY <1>1, SpareType DEF ExternalInv, Types
  <2>3. ASSUME NEW q \in Payers
        PROVE  Charged(q)'
    <3>1. Charged(q)
      BY <1>8 DEF AllCharged
    <3>2. ASSUME q \in Tracked
          PROVE  Fair(z, q, carried[q], enf.payers[q], inb)
      <4>1. Fair(node, q, carried[q], enf.payers[q], inb) /\ NodeOK(node) /\ q \in DOMAIN node.peers
        BY <3>1, <3>2 DEF Charged, ExternalInv, Types, Tracked
      <4>2. Sends(node, z, RemoveMsg(q))
        BY <1>1, <1>2 DEF Sends
      <4> QED BY <4>1, <4>2, FairSent
    <3>3. Idle(q) => Idle(q)'
      BY <1>1 DEF Idle
    <3>4. New(q) => enf.payers[q].held = {} /\ NoBind(z.out, q)
      BY <2>1, <3>1 DEF Charged
    <3> QED BY <1>1, <1>2, <2>1, <2>2, <3>1, <3>2, <3>3, <3>4 DEF Charged
  <2> QED BY <1>8, <2>2, <2>3 DEF AllCharged
<1> QED BY <1>5, <1>6, <1>7, <1>8 DEF ExternalInv

(* No hello came: there was no link. *)
LEMMA NoHelloCameKeeps ==
    ASSUME ExternalInv, NoHelloCame
    PROVE  ExternalInv' /\ (AllCharged => AllCharged')
<1>1. /\ sess = "hello" /\ sess' = "down" /\ UNCHANGED <<node, started, inb, enf, carried, was, gone>>
      /\ UNCHANGED spare \/ Fault
  BY DEF NoHelloCame
<1>2. spare' \in Allowance
  BY <1>1, SpareType DEF ExternalInv, Types
<1>3. node.link = 0
  BY <1>1 DEF ExternalInv, Connected
<1>4. Types'
  BY <1>1, <1>2 DEF ExternalInv, Types
<1>5. Connected'
  BY <1>1, <1>3 DEF ExternalInv, Connected
<1>6. AllAgreed'
  BY <1>1, <1>3 DEF AllAgreed
<1>7. ASSUME AllCharged
      PROVE  AllCharged'
  <2>1. spare'.returns = spare.returns /\ spare'.units = spare.units
    BY <1>1, SpareType DEF ExternalInv, Types
  <2>2. \A q : Tracked' = Tracked /\ (New(q)' <=> New(q)) /\ (Idle(q) => Idle(q)')
    BY <1>1 DEF Tracked, New, Idle
  <2>3. \A q \in Payers : Charged(q)'
    BY <1>1, <1>7, <2>1, <2>2 DEF AllCharged, Charged
  <2> QED BY <1>7, <2>1, <2>3 DEF AllCharged
<1> QED BY <1>4, <1>5, <1>6, <1>7 DEF ExternalInv

(* A connection: nothing is on its way and the enforcer has forgotten everything. *)
LEMMA ConnectKeeps ==
    ASSUME ExternalInv, Connect
    PROVE  ExternalInv' /\ (AllCharged => AllCharged')
<1>1. /\ sess = "down" /\ enf.up /\ sess' = "hello" /\ inb' = <<>>
      /\ enf' = [enf EXCEPT !.conn = TRUE, !.payers = Closed] /\ node' = [node EXCEPT !.out = <<>>]
      /\ UNCHANGED <<started, carried, gone, spare>>
  BY DEF Connect
<1>2. NodeOK(node) /\ node.link = 0 /\ enf \in EnforcerState
  BY <1>1 DEF ExternalInv, Types, Connected
<1>3. PICK z : z = node'
  OBVIOUS
<1>4. PICK f : f = enf'
  OBVIOUS
<1>5. /\ z.out = <<>> /\ z.hello = node.hello /\ z.link = 0 /\ z.seq = node.seq /\ z.peers = node.peers
      /\ z = [peers |-> z.peers, link |-> z.link, hello |-> z.hello, seq |-> z.seq, out |-> z.out]
  BY <1>1, <1>2, <1>3 DEF NodeOK
<1>6. NodeOK(z)
  BY <1>2, <1>5, MostType DEF NodeOK
<1>7. f \in EnforcerState /\ f.conn /\ f.up /\ f.payers = Closed
  BY <1>1, <1>2, <1>4, ClosedType DEF EnforcerState
<1>8. Types'
  BY <1>1, <1>3, <1>4, <1>6, <1>7 DEF ExternalInv, Types
<1>9. Closed' = Closed
  BY DEF Closed
<1>10. Connected'
  BY <1>1, <1>3, <1>4, <1>5, <1>7, <1>9 DEF ExternalInv, Connected
<1>11. AllAgreed'
  BY <1>3, <1>5 DEF AllAgreed
<1>12. ASSUME AllCharged
       PROVE  AllCharged'
  <2>1. Tracked' = Tracked /\ \A q : New(q)' <=> New(q)
    BY <1>1, <1>3, <1>5 DEF Tracked, New
  <2>2. ASSUME NEW q \in Payers
        PROVE  Charged(q)'
    <3>1. Charged(q)
      BY <1>12 DEF AllCharged
    <3>2. q \in Tracked => Fair(z, q, carried[q], f.payers[q], <<>>)
      BY <1>2, <1>5, <3>1 DEF Charged, Fair
    <3>3. Idle(q)'
      BY <1>1, <1>4, <1>7, ClosedType DEF Idle, Says
    <3>4. f.payers[q].held = {} /\ NoBind(z.out, q)
      BY <1>5, <1>7, ClosedType DEF NoBind
    <3> QED BY <1>1, <1>3, <1>4, <2>1, <3>2, <3>3, <3>4 DEF Charged
  <2> QED BY <1>1, <1>12, <2>2 DEF AllCharged
<1> QED BY <1>8, <1>10, <1>11, <1>12 DEF ExternalInv

(* An enforcer that sees the end of its connection, dies or starts. *)
LEMMA EnforcerTurnsKeeps ==
    ASSUME ExternalInv, EnforcerNotices \/ EnforcerDies \/ EnforcerStarts
    PROVE  ExternalInv' /\ (AllCharged => AllCharged')
<1>1. /\ UNCHANGED <<node, sess, started, inb, carried, gone>>
      /\ UNCHANGED spare \/ Fault
  BY DEF EnforcerNotices, EnforcerDies, EnforcerStarts
<1>2. enf \in EnforcerState /\ spare \in Allowance
  BY DEF ExternalInv, Types
<1>3. spare' \in Allowance
  BY <1>1, <1>2, SpareType
<1>4. PICK f : f = enf'
  OBVIOUS
<1>5. /\ f \in EnforcerState /\ ~f.conn
      /\ f.payers = Closed \/ f.payers = enf.payers
  <2>1. CASE EnforcerNotices
    BY <1>2, <1>4, <2>1, ClosedType DEF EnforcerNotices, EnforcerState
  <2>2. CASE EnforcerDies
    BY <1>2, <1>4, <2>2, ClosedType DEF EnforcerDies, EnforcerState
  <2>3. CASE EnforcerStarts
    <3>1. PICK h \in spare.hellos : f = [enf EXCEPT !.up = TRUE, !.says = h]
      BY <1>4, <2>3 DEF EnforcerStarts
    <3>2. h \in Hellos /\ ~enf.up
      BY <1>2, <2>3 DEF Allowance, EnforcerStarts
    <3>3. ~enf.conn
      BY <3>2 DEF ExternalInv, Connected
    <3> QED BY <1>2, <3>1, <3>2, <3>3 DEF EnforcerState
  <2> QED BY <2>1, <2>2, <2>3
<1>6. Types'
  BY <1>1, <1>3, <1>4, <1>5 DEF ExternalInv, Types
<1>7. Closed' = Closed
  BY DEF Closed
<1>8. Connected'
  BY <1>1, <1>4, <1>5, <1>7 DEF ExternalInv, Connected
<1>9. AllAgreed'
  BY <1>4, <1>5 DEF AllAgreed
<1>10. ASSUME AllCharged
       PROVE  AllCharged'
  <2>1. spare'.returns = spare.returns /\ spare'.units = spare.units
    BY <1>1, <1>2, SpareType
  <2>2. Tracked' = Tracked /\ \A q : New(q)' <=> New(q)
    BY <1>1 DEF Tracked, New
  <2>3. ASSUME NEW q \in Payers
        PROVE  Charged(q)'
    <3>1. /\ Charged(q) /\ carried[q] \in Nat /\ enf.payers[q].count \in Nat
          /\ q \in Tracked => node.peers[q] \in Peer
      BY <1>2, <1>10 DEF AllCharged, ExternalInv, Types, NodeOK, Tracked, EnforcerState, Subscriber
    <3>2. f.payers[q] = Closed[q] \/ f.payers[q] = enf.payers[q]
      BY <1>5
    <3>3. f.payers[q].count \in Nat /\ f.payers[q].count <= enf.payers[q].count + (carried[q] - carried[q])
      BY <3>1, <3>2, ClosedType
    <3>4. q \in Tracked => Fair(node, q, carried[q], f.payers[q], inb)
      <4>1. CountsOn(q, carried[q], carried[q], enf.payers[q], f.payers[q], inb, inb)
        BY <3>1, <3>3 DEF CountsOn
      <4>2. ASSUME q \in Tracked PROVE node.peers[q] \in Peer /\ Fair(node, q, carried[q], enf.payers[q], inb)
        BY <3>1, <4>2, Zenon DEF Charged
      <4> QED BY ONLY <4>1, <4>2, FairMore, Zenon
    <3>5. Idle(q) => Idle(q)'
      BY <1>1, <1>4, <3>2, ClosedType DEF Idle
    <3>6. New(q) => f.payers[q].held = {} /\ NoBind(node.out, q)
      BY <3>1, <3>2, ClosedType DEF Charged
    <3> QED BY <1>1, <1>4, <2>1, <2>2, <3>1, <3>4, <3>5, <3>6 DEF Charged
  <2> QED BY <1>10, <2>1, <2>3 DEF AllCharged
<1> QED BY <1>6, <1>8, <1>9, <1>10 DEF ExternalInv

(* A unit carried uses up one that a behaviour is allowed. *)
LEMMA UnitsType ==
    ASSUME NEW a \in Allowance, a.units > 0, NEW b, b = [a EXCEPT !.units = @ - 1]
    PROVE  b \in Allowance /\ b.returns = a.returns
<1>1. /\ b.calls = a.calls /\ b.units = a.units - 1 /\ b.faults = a.faults /\ b.returns = a.returns
      /\ b.vouched = a.vouched /\ b.hellos = a.hellos /\ a.units - 1 \in Nat
      /\ b = [calls |-> b.calls, units |-> b.units, faults |-> b.faults, returns |-> b.returns,
              vouched |-> b.vouched, hellos |-> b.hellos]
  BY DEF Allowance
<1> QED BY <1>1 DEF Allowance

(* The enforcer carries a unit for a payer, or says how many it has carried. *)
LEMMA CarriesOrReportsKeeps ==
    ASSUME ExternalInv, NEW p \in Payers, Carries(p) \/ Reports(p)
    PROVE  ExternalInv' /\ (AllCharged => AllCharged')
<1>1. UNCHANGED <<node, sess, started, gone>> /\ enf.conn
  BY DEF Carries, Reports
<1>2. enf \in EnforcerState /\ spare \in Allowance /\ inb \in Seq(ToNode) /\ carried \in [Payers -> Nat]
  BY DEF ExternalInv, Types
<1> DEFINE old == enf.payers[p]
<1>3. old \in Subscriber
  BY <1>2 DEF EnforcerState
<1>4. /\ spare' \in Allowance /\ inb' \in Seq(ToNode) /\ carried' \in [Payers -> Nat]
      /\ \A q \in Payers : Refused(inb, q) => Refused(inb', q)
  <2>1. CASE Carries(p)
    <3>1. spare.units > 0 /\ spare' = [spare EXCEPT !.units = @ - 1]
      BY <2>1 DEF Carries
    <3>2. spare' \in Allowance
      BY <1>2, <3>1, UnitsType
    <3>3. inb' = inb /\ carried' \in [Payers -> Nat]
      BY <1>2, <2>1 DEF Carries
    <3> QED BY <1>2, <3>2, <3>3
  <2>2. CASE Reports(p)
    <3>1. Counters(p, enf.payers[p].count) \in ToNode
      BY <1>3 DEF Counters, ToNode, Subscriber
    <3> DEFINE c == Counters(p, enf.payers[p].count)
    <3>2. inb' = Append(inb, c)
      BY <2>2 DEF Reports
    <3> HIDE DEF c
    <3>3. inb' \in Seq(ToNode) /\ \A k \in 1 .. Len(inb) : k \in 1 .. Len(inb') /\ inb'[k] = inb[k]
      BY <1>2, <3>1, <3>2 DEF c
    <3>4. UNCHANGED <<spare, carried>>
      BY <2>2 DEF Reports
    <3> QED BY <1>2, <3>3, <3>4 DEF Refused
  <2> QED BY <2>1, <2>2
<1>5. PICK f \in Subscriber : enf' = EditOf(p, f) /\ f.held = old.held /\ f.rate = old.rate
  <2>1. CASE Carries(p)
    <3> DEFINE e == [old EXCEPT !.count = @ + 1]
    <3>1. e \in Subscriber /\ e.held = old.held /\ e.rate = old.rate
      BY <1>3 DEF Subscriber
    <3>2. enf' = EditOf(p, e)
      BY <2>1 DEF Carries, EditOf
    <3> QED BY <3>1, <3>2
  <2>2. CASE Reports(p)
    <3> DEFINE e == [old EXCEPT !.told = old.count]
    <3>1. e \in Subscriber /\ e.held = old.held /\ e.rate = old.rate
      BY <1>3 DEF Subscriber
    <3>2. enf' = EditOf(p, e)
      BY <2>2 DEF Reports, EditOf
    <3> QED BY <3>1, <3>2
  <2> QED BY <2>1, <2>2
<1>6. /\ enf' \in EnforcerState /\ enf'.conn = enf.conn /\ enf'.up = enf.up /\ enf'.says = enf.says
      /\ enf'.payers[p] = f /\ \A q \in Payers \ {p} : enf'.payers[q] = enf.payers[q]
  BY <1>2, <1>5, SubscriberEdited
<1>7. Types'
  BY <1>1, <1>4, <1>6 DEF ExternalInv, Types
<1>8. Connected'
  <2>1. old.held # {} \/ old.count # old.told
    BY DEF Carries, Reports
  <2>2. sess # "hello"
    BY <2>1, ClosedType DEF ExternalInv, Connected
  <2>3. sess = "live" => OutAcceptable(node)'
    BY <1>1 DEF ExternalInv, Connected, OutAcceptable, Acceptable, Accepts
  <2> QED BY <1>1, <1>6, <2>2, <2>3 DEF ExternalInv, Connected
<1>9. AllAgreed'
  <2> SUFFICES ASSUME node.link # 0, NEW q \in Payers
               PROVE  Agreed(node, enf'.payers[q], inb', q)
    BY <1>1 DEF AllAgreed
  <2>1. Agreed(node, enf.payers[q], inb, q)
    BY <1>1 DEF ExternalInv, AllAgreed
  <2>2. enf'.payers[q].held = enf.payers[q].held /\ enf'.payers[q].rate = enf.payers[q].rate
    BY <1>5, <1>6
  <2>3. Refused(inb, q) => Refused(inb', q)
    BY <1>4
  <2> QED BY ONLY <2>1, <2>2, <2>3, AgreedGrows
<1>10. ASSUME AllCharged
       PROVE  AllCharged'
  <2>1. Tracked' = Tracked /\ \A q : New(q)' <=> New(q)
    BY <1>1 DEF Tracked, New
  <2>2. ASSUME NEW q \in Payers
        PROVE  /\ Charged(q) /\ carried[q] \in Nat /\ enf.payers[q] \in Subscriber /\ enf'.payers[q] \in Subscriber
               /\ q \in Tracked => node.peers[q] \in Peer
    BY <1>2, <1>6, <1>10 DEF AllCharged, ExternalInv, Types, NodeOK, Tracked, EnforcerState
  <2>3. CASE Carries(p)
    <3>1. /\ UNCHANGED inb /\ spare.units > 0 /\ spare'.returns = spare.returns
          /\ old.held # {} /\ carried' = [carried EXCEPT ![p] = @ + 1]
      BY <1>2, <2>3, UnitsType DEF Carries
    <3>2. ~spare.returns /\ ~New(p)
      BY <1>10, <2>2, <3>1, ExternalAssumption DEF AllCharged, Charged
    <3>3. enf'.payers[p].count = old.count + 1
      BY <1>3, <1>6, <2>3 DEF Carries, EnforcerState, Subscriber, Types, ExternalInv
    <3>4. ASSUME NEW q \in Payers
          PROVE  Charged(q)'
      <4>1. carried'[q] \in Nat /\ carried[q] <= carried'[q]
        BY <1>2, <3>1
      <4>2. enf'.payers[q].count <= enf.payers[q].count + (carried'[q] - carried[q])
        <5>1. enf.payers[q].count \in Nat
          BY <2>2 DEF Subscriber
        <5>2. CASE q = p
          <6>1. carried'[q] = carried[q] + 1 /\ enf'.payers[q].count = enf.payers[q].count + 1
            BY <1>2, <3>1, <3>3, <5>2
          <6> QED BY ONLY <2>2, <5>1, <6>1
        <5>3. CASE q # p
          <6>1. carried'[q] = carried[q] /\ enf'.payers[q] = enf.payers[q]
            BY <1>2, <1>6, <3>1, <5>3
          <6> QED BY ONLY <2>2, <5>1, <6>1
        <5> QED BY <5>2, <5>3
      <4>3. enf.payers[q].count \in Nat /\ enf'.payers[q].count \in Nat
        BY <2>2 DEF Subscriber
      <4>4. ASSUME q \in Tracked
            PROVE  Fair(node, q, carried'[q], enf'.payers[q], inb')
        <5>1. node.peers[q] \in Peer /\ Fair(node, q, carried[q], enf.payers[q], inb)
          BY <2>2, <4>4, Zenon DEF Charged
        <5>2. carried[q] \in Nat
          BY <2>2
        <5>3. \A n \in Nat : Says(inb', q, n) => Says(inb, q, n) \/ n <= enf'.payers[q].count
          BY <3>1, Zenon
        <5>4. CountsOn(q, carried[q], carried'[q], enf.payers[q], enf'.payers[q], inb, inb')
          BY ONLY <4>1, <4>2, <4>3, <5>2, <5>3 DEF CountsOn
        <5> QED BY ONLY <5>1, <5>4, FairMore, ZenonT(40)
      <4>5. New(q) => Idle(q)'
        BY <1>6, <2>2, <3>1, <3>2 DEF Charged, Idle
      <4>6. New(q) => enf'.payers[q].held = {} /\ NoBind(node.out, q)
        BY <1>6, <2>2, <3>2 DEF Charged
      <4> QED BY <1>1, <2>1, <3>1, <3>2, <4>4, <4>5, <4>6 DEF Charged
    <3> QED BY <3>1, <3>2, <3>4 DEF AllCharged
  <2>4. CASE Reports(p)
    <3> DEFINE c == Counters(p, old.count)
    <3>1. UNCHANGED <<carried, spare>> /\ old.count # old.told /\ inb' = Append(inb, c)
      BY <2>4 DEF Reports
    <3>2. ~New(p) /\ ~spare.returns
      BY <2>2, <3>1 DEF Charged, Idle
    <3>3. c \in ToNode
      BY <1>3 DEF Counters, ToNode, Subscriber
    <3> HIDE DEF c
    <3>4. \A q \in Payers, n \in Nat : Says(inb', q, n) => Says(inb, q, n) \/ c = Counters(q, n)
      <4>1. \A k \in 1 .. Len(inb') : inb'[k] = c \/ (k \in 1 .. Len(inb) /\ inb'[k] = inb[k])
        BY <1>2, <3>1, <3>3
      <4> QED BY <4>1 DEF Says
    <3>5. \A q, n : c = Counters(q, n) => q = p /\ n = old.count
      BY DEF c, Counters
    <3>6. enf'.payers[p].count = old.count
      BY <1>3, <1>6, <2>4 DEF Reports, EnforcerState, Subscriber, Types, ExternalInv
    <3>7. ASSUME NEW q \in Payers
          PROVE  Charged(q)'
      <4>1. /\ enf.payers[q].count \in Nat /\ enf'.payers[q].count = enf.payers[q].count
            /\ enf'.payers[q].count <= enf.payers[q].count + (carried[q] - carried[q])
        BY <1>6, <2>2, <3>6 DEF Subscriber
      <4>2. \A n \in Nat : Says(inb', q, n) => Says(inb, q, n) \/ n <= enf'.payers[q].count
        BY <1>3, <3>4, <3>5, <3>6 DEF Subscriber
      <4>3. ASSUME q \in Tracked
            PROVE  Fair(node, q, carried[q], enf'.payers[q], inb')
        <5>1. node.peers[q] \in Peer /\ Fair(node, q, carried[q], enf.payers[q], inb)
          BY <2>2, <4>3, Zenon DEF Charged
        <5>2. carried[q] \in Nat /\ carried[q] <= carried[q] /\ enf'.payers[q].count \in Nat
          BY <2>2, <4>1
        <5>3. CountsOn(q, carried[q], carried[q], enf.payers[q], enf'.payers[q], inb, inb')
          BY ONLY <4>1, <4>2, <5>2 DEF CountsOn
        <5> QED BY ONLY <5>1, <5>3, FairMore, Zenon
      <4>4. New(q) => Idle(q)'
        BY <1>6, <2>2, <3>2, <3>4, <3>5 DEF Charged, Idle
      <4>5. New(q) => enf'.payers[q].held = {} /\ NoBind(node.out, q)
        BY <1>6, <2>2, <3>2 DEF Charged
      <4> QED BY <1>1, <2>1, <3>1, <3>2, <4>3, <4>4, <4>5 DEF Charged
    <3> QED BY <1>10, <3>1, <3>7 DEF AllCharged
  <2> QED BY <2>3, <2>4
<1> QED BY <1>7, <1>8, <1>9, <1>10 DEF ExternalInv

-----------------------------------------------------------------------------
(* The full state, sent after the hello. *)

(* Two messages for each payer. *)
LEMMA Halves ==
    ASSUME NEW n \in Nat
    PROVE  /\ \A k \in 1 .. 2 * n :
                 /\ k % 2 = 1 => (k + 1) \div 2 \in 1 .. n /\ k = 2 * ((k + 1) \div 2) - 1
                 /\ k % 2 # 1 => k \div 2 \in 1 .. n /\ k = 2 * (k \div 2)
           /\ \A i \in 1 .. n :
                 /\ 2 * i - 1 \in 1 .. 2 * n /\ (2 * i - 1) % 2 = 1 /\ ((2 * i - 1) + 1) \div 2 = i
                 /\ 2 * i \in 1 .. 2 * n /\ (2 * i) % 2 # 1 /\ (2 * i) \div 2 = i
<1>1. ASSUME NEW k \in 1 .. 2 * n
      PROVE  /\ k % 2 = 1 => (k + 1) \div 2 \in 1 .. n /\ k = 2 * ((k + 1) \div 2) - 1
             /\ k % 2 # 1 => k \div 2 \in 1 .. n /\ k = 2 * (k \div 2)
  OBVIOUS
<1>2. ASSUME NEW i \in 1 .. n
      PROVE  /\ 2 * i - 1 \in 1 .. 2 * n /\ (2 * i - 1) % 2 = 1 /\ ((2 * i - 1) + 1) \div 2 = i
             /\ 2 * i \in 1 .. 2 * n /\ (2 * i) % 2 # 1 /\ (2 * i) \div 2 = i
  OBVIOUS
<1> QED BY <1>1, <1>2

(* The snapshot: each payer's bind and its set, once, and nothing else. *)
LEMMA SnapshotTells ==
    ASSUME NEW s, NodeOK(s), NEW order \in OldestFirst(s), NEW out, out = Snapshot(s, order)
    PROVE  /\ out \in Seq(ToEnforcer) /\ Len(out) = 2 * Cardinality(DOMAIN s.peers)
           /\ Cardinality(DOMAIN s.peers) <= Cardinality(Payers) /\ Cardinality(DOMAIN s.peers) \in Nat
           /\ \A k \in 1 .. Len(out) : Acceptable(s.hello, out[k]) /\ out[k].peer \in DOMAIN s.peers
           /\ \A p \in DOMAIN s.peers :
                 /\ EndsIn(out, p, {"bind", "remove"}, BindMsg(s, p))
                 /\ EndsIn(out, p, {"set", "remove"}, SetMsg(s, p))
<1> DEFINE n == Cardinality(DOMAIN s.peers)
<1>1. DOMAIN s.peers \subseteq Payers /\ IsFiniteSet(DOMAIN s.peers) /\ n \in Nat /\ n <= Cardinality(Payers)
  BY MostType, FS_Subset, FS_CardinalityType DEF NodeOK
<1>2. /\ order \in [1 .. n -> DOMAIN s.peers]
      /\ \A p \in DOMAIN s.peers : \E i \in 1 .. n : order[i] = p
      /\ \A i, j \in 1 .. n : i < j => s.peers[order[i]].seq < s.peers[order[j]].seq
  BY DEF OldestFirst, Rows
<1>3. \A p \in DOMAIN s.peers : s.peers[p].seq \in Nat
  BY DEF NodeOK, Peer
<1>4. \A i, j \in 1 .. n : order[i] = order[j] => i = j
  BY <1>2, <1>3
<1> HIDE DEF n
<1>5. out = [k \in 1 .. 2 * n |->
               IF k % 2 = 1 THEN BindMsg(s, order[(k + 1) \div 2]) ELSE SetMsg(s, order[k \div 2])]
  BY DEF Snapshot, n
<1>6. \A p \in DOMAIN s.peers :
         /\ BindMsg(s, p) \in ToEnforcer /\ BindMsg(s, p).type = "bind" /\ BindMsg(s, p).peer = p
         /\ Acceptable(s.hello, BindMsg(s, p))
         /\ SetMsg(s, p) \in ToEnforcer /\ SetMsg(s, p).type = "set" /\ SetMsg(s, p).peer = p
  BY MessagesType
<1>7. ASSUME NEW k \in 1 .. 2 * n
      PROVE  /\ k % 2 = 1 => /\ (k + 1) \div 2 \in 1 .. n /\ k = 2 * ((k + 1) \div 2) - 1
                             /\ out[k] = BindMsg(s, order[(k + 1) \div 2])
             /\ k % 2 # 1 => /\ k \div 2 \in 1 .. n /\ k = 2 * (k \div 2)
                             /\ out[k] = SetMsg(s, order[k \div 2])
  BY <1>1, <1>5, Halves
<1>8. \A k \in 1 .. 2 * n :
         \/ \E i \in 1 .. n : k = 2 * i - 1 /\ out[k] = BindMsg(s, order[i])
         \/ \E i \in 1 .. n : k = 2 * i /\ out[k] = SetMsg(s, order[i])
  BY <1>7
<1>9. \A i \in 1 .. n :
         /\ 2 * i - 1 \in 1 .. 2 * n /\ out[2 * i - 1] = BindMsg(s, order[i])
         /\ 2 * i \in 1 .. 2 * n /\ out[2 * i] = SetMsg(s, order[i])
  <2> SUFFICES ASSUME NEW i \in 1 .. n
               PROVE  /\ 2 * i - 1 \in 1 .. 2 * n /\ out[2 * i - 1] = BindMsg(s, order[i])
                      /\ 2 * i \in 1 .. 2 * n /\ out[2 * i] = SetMsg(s, order[i])
    OBVIOUS
  <2>1. /\ 2 * i - 1 \in 1 .. 2 * n /\ (2 * i - 1) % 2 = 1 /\ ((2 * i - 1) + 1) \div 2 = i
        /\ 2 * i \in 1 .. 2 * n /\ (2 * i) % 2 # 1 /\ (2 * i) \div 2 = i
    BY <1>1, Halves
  <2> QED BY <1>7, <2>1
<1>10. \A i \in 1 .. n : order[i] \in DOMAIN s.peers
  BY <1>2
<1>11. \A k \in 1 .. 2 * n : out[k] \in ToEnforcer /\ Acceptable(s.hello, out[k]) /\ out[k].peer \in DOMAIN s.peers
  BY <1>6, <1>8, <1>10 DEF Acceptable
<1>12. out \in Seq(ToEnforcer) /\ Len(out) = 2 * n
  <2> DEFINE m == 2 * n
  <2>1. m \in Nat
    BY <1>1
  <2> HIDE DEF m
  <2>2. out = [k \in 1 .. m |-> out[k]] /\ \A k \in 1 .. m : out[k] \in ToEnforcer
    BY <1>5, <1>11 DEF m
  <2>3. out \in Seq(ToEnforcer) /\ Len(out) = m
    BY <2>1, <2>2
  <2> QED BY <2>3 DEF m
<1>13. ASSUME NEW p \in DOMAIN s.peers
       PROVE  /\ EndsIn(out, p, {"bind", "remove"}, BindMsg(s, p))
              /\ EndsIn(out, p, {"set", "remove"}, SetMsg(s, p))
  <2>1. PICK i \in 1 .. n : order[i] = p
    BY <1>2
  <2>2. \A k \in 1 .. 2 * n : Matches(out[k], p, {"bind", "remove"}) => k = 2 * i - 1
    BY <1>4, <1>6, <1>8, <1>10, <2>1 DEF Matches
  <2>3. \A k \in 1 .. 2 * n : Matches(out[k], p, {"set", "remove"}) => k = 2 * i
    BY <1>4, <1>6, <1>8, <1>10, <2>1 DEF Matches
  <2>4. EndsIn(out, p, {"bind", "remove"}, BindMsg(s, p))
    <3>1. 2 * i - 1 \in 1 .. 2 * n /\ out[2 * i - 1] = BindMsg(s, p)
      BY <1>9, <2>1
    <3>2. Matches(BindMsg(s, p), p, {"bind", "remove"})
      BY <1>6 DEF Matches
    <3>3. \A j \in (2 * i - 1) + 1 .. 2 * n : j \in 1 .. 2 * n /\ j # 2 * i - 1
      BY <1>1
    <3> QED BY <1>12, <2>2, <3>1, <3>2, <3>3 DEF EndsIn
  <2>5. EndsIn(out, p, {"set", "remove"}, SetMsg(s, p))
    <3>1. 2 * i \in 1 .. 2 * n /\ out[2 * i] = SetMsg(s, p)
      BY <1>9, <2>1
    <3>2. Matches(SetMsg(s, p), p, {"set", "remove"})
      BY <1>6 DEF Matches
    <3>3. \A j \in (2 * i) + 1 .. 2 * n : j \in 1 .. 2 * n /\ j # 2 * i
      BY <1>1
    <3> QED BY <1>12, <2>3, <3>1, <3>2, <3>3 DEF EndsIn
  <2> QED BY <2>4, <2>5
<1> QED BY <1>1, <1>11, <1>12, <1>13 DEF n

(* The link, with room for the snapshot. *)
LEMMA LinkedType ==
    ASSUME NEW s, NodeOK(s), NEW z, z = Linked(s)
    PROVE  /\ DOMAIN z.peers = DOMAIN s.peers /\ z.peers \in [DOMAIN z.peers -> Peer]
           /\ z.link = Outbox + 2 * Cardinality(DOMAIN s.peers)
           /\ z.seq = s.seq /\ z.hello = s.hello /\ z.out = s.out
           /\ z = [peers |-> z.peers, link |-> z.link, hello |-> z.hello, seq |-> z.seq, out |-> z.out]
           /\ \A p \in DOMAIN s.peers :
                /\ z.peers[p].addr = s.peers[p].addr /\ z.peers[p].delegated = s.peers[p].delegated
                /\ z.peers[p].rate = s.peers[p].rate /\ z.peers[p].base = s.peers[p].base
                /\ z.peers[p].current = s.peers[p].current
<1> DEFINE f(p) == [s.peers[p] EXCEPT !.conflicted = FALSE]
<1>1. \A p \in DOMAIN s.peers :
         /\ f(p) \in Peer
         /\ f(p).addr = s.peers[p].addr /\ f(p).delegated = s.peers[p].delegated
         /\ f(p).rate = s.peers[p].rate /\ f(p).base = s.peers[p].base
         /\ f(p).current = s.peers[p].current
  <2> SUFFICES ASSUME NEW p \in DOMAIN s.peers
               PROVE  /\ f(p) \in Peer
                      /\ f(p).addr = s.peers[p].addr /\ f(p).delegated = s.peers[p].delegated
                      /\ f(p).rate = s.peers[p].rate /\ f(p).base = s.peers[p].base
                      /\ f(p).current = s.peers[p].current
    OBVIOUS
  <2>1. s.peers[p] \in Peer
    BY DEF NodeOK
  <2> QED BY <2>1 DEF Peer
<1>2. z = [s EXCEPT !.link = Outbox + 2 * Cardinality(DOMAIN s.peers), !.peers = [p \in DOMAIN s.peers |-> f(p)]]
  BY DEF Linked
<1> HIDE DEF f
<1>3. /\ z.link = Outbox + 2 * Cardinality(DOMAIN s.peers)
      /\ z.seq = s.seq /\ z.hello = s.hello /\ z.out = s.out
      /\ z.peers = [p \in DOMAIN s.peers |-> f(p)]
      /\ z = [peers |-> z.peers, link |-> z.link, hello |-> z.hello, seq |-> z.seq, out |-> z.out]
  BY <1>2 DEF NodeOK
<1> QED BY <1>1, <1>3

\* What the node has when its hello was accepted.
Introduced(z, h) ==
    /\ NodeOK(z) /\ z.hello = h /\ z.link # 0 /\ OutAcceptable(z)
    /\ DOMAIN z.peers = Tracked
    /\ \A p \in Tracked : z.peers[p].base = node.peers[p].base /\ z.peers[p].current = node.peers[p].current
    /\ \A p \in Payers : \A in : Agreed(z, Closed[p], in, p)
    /\ \A k \in 1 .. Len(z.out) : z.out[k].peer \in Tracked

(* A hello that fits: the node's state, and that the enforcer will have it all. *)
LEMMA AcceptedType ==
    ASSUME NodeOK(node), NEW h \in Hellos, NEW order \in OldestFirst(node),
           NEW z, z = Accepted(node, h, order)
    PROVE  Introduced(z, h)
<1> DEFINE s == [node EXCEPT !.hello = h]
           l == Linked(node)
           out == Snapshot(s, order)
<1>1. /\ s.hello = h /\ s.peers = node.peers /\ s.link = node.link /\ s.seq = node.seq /\ s.out = node.out
      /\ s = [peers |-> s.peers, link |-> s.link, hello |-> s.hello, seq |-> s.seq, out |-> s.out]
  BY DEF NodeOK
<1>2. z = [l EXCEPT !.hello = h, !.out = out]
  BY DEF Accepted
<1>3. /\ DOMAIN l.peers = Tracked /\ l.peers \in [DOMAIN l.peers -> Peer]
      /\ l.link = Outbox + 2 * Cardinality(Tracked)
      /\ l = [peers |-> l.peers, link |-> l.link, hello |-> l.hello, seq |-> l.seq, out |-> l.out]
      /\ l.seq = node.seq
      /\ \A p \in Tracked :
           /\ l.peers[p].addr = node.peers[p].addr /\ l.peers[p].delegated = node.peers[p].delegated
           /\ l.peers[p].rate = node.peers[p].rate /\ l.peers[p].base = node.peers[p].base
           /\ l.peers[p].current = node.peers[p].current
  BY LinkedType DEF Tracked
<1> HIDE DEF l, out, s
<1>4. /\ z.peers = l.peers /\ z.link = l.link /\ z.seq = l.seq /\ z.hello = h /\ z.out = out
      /\ z = [peers |-> z.peers, link |-> z.link, hello |-> z.hello, seq |-> z.seq, out |-> z.out]
  BY <1>2, <1>3
<1>5. NodeOK(s)
  BY <1>1 DEF NodeOK
<1>6. order \in OldestFirst(s)
  BY <1>1 DEF OldestFirst, Rows
<1>7. /\ out \in Seq(ToEnforcer) /\ Len(out) = 2 * Cardinality(Tracked)
      /\ Cardinality(Tracked) <= Cardinality(Payers) /\ Cardinality(Tracked) \in Nat
      /\ \A k \in 1 .. Len(out) : Acceptable(h, out[k]) /\ out[k].peer \in Tracked
      /\ \A p \in Tracked :
           /\ EndsIn(out, p, {"bind", "remove"}, BindMsg(s, p))
           /\ EndsIn(out, p, {"set", "remove"}, SetMsg(s, p))
  BY <1>1, <1>5, <1>6, SnapshotTells DEF out, Tracked
<1>8. z.link \in 0 .. Most /\ z.link # 0 /\ Len(out) <= Most
  BY <1>3, <1>4, <1>7, MostType DEF Most
<1>9. NodeOK(z)
  BY <1>3, <1>4, <1>7, <1>8 DEF NodeOK, Tracked
<1>10. OutAcceptable(z)
  BY <1>4, <1>7 DEF OutAcceptable
<1>11. ASSUME NEW p \in Payers, NEW in
       PROVE  Agreed(z, Closed[p], in, p)
  <2>1. CASE p \in Tracked
    <3>1. BindMsg(z, p) = BindMsg(s, p) /\ SetMsg(z, p) = SetMsg(s, p)
      <4>1. p \in DOMAIN s.peers /\ p \in DOMAIN z.peers /\ z.hello = s.hello
        BY <1>1, <1>3, <1>4, <2>1 DEF Tracked
      <4>2. /\ z.peers[p].addr = s.peers[p].addr /\ z.peers[p].delegated = s.peers[p].delegated
            /\ z.peers[p].rate = s.peers[p].rate
        BY <1>1, <1>3, <1>4, <2>1
      <4> QED BY <4>1, <4>2, SameMessages DEF SetMsg
    <3> QED BY <1>3, <1>4, <1>7, <2>1, <3>1 DEF Agreed, BoundTo, SetTo, Told
  <2>2. CASE p \notin Tracked
    <3>1. NoneOf(z.out, p, {"bind", "set", "remove"})
      BY <1>4, <1>7, <2>2 DEF NoneOf, Matches
    <3> QED BY <1>3, <1>4, <2>2, <3>1, ClosedType DEF Agreed, Removed, Told
  <2> QED BY <2>1, <2>2
<1> QED BY <1>3, <1>4, <1>7, <1>8, <1>9, <1>10, <1>11 DEF Introduced

(* A hello: accepted, the full state follows; refused, the connection ends. *)
LEMMA HelloArrivesKeeps ==
    ASSUME ExternalInv, HelloArrives
    PROVE  ExternalInv' /\ (AllCharged => AllCharged')
<1>1. sess = "hello" /\ enf.conn /\ UNCHANGED <<inb, enf, carried, was, gone, spare>>
  BY DEF HelloArrives
<1>2. /\ NodeOK(node) /\ enf \in EnforcerState /\ node.link = 0
      /\ inb = <<>> /\ enf.payers = Closed /\ started \in BOOLEAN
  BY <1>1 DEF ExternalInv, Types, Connected
<1>3. CASE UNCHANGED <<node, started>> /\ sess' \in {"down", "stopped"}
  <2>1. Types'
    BY <1>1, <1>3 DEF ExternalInv, Types
  <2>2. Connected'
    BY <1>1, <1>2, <1>3 DEF ExternalInv, Connected
  <2>3. AllAgreed'
    BY <1>2, <1>3 DEF AllAgreed
  <2>4. ASSUME AllCharged
        PROVE  AllCharged'
    <3>1. \A q : Tracked' = Tracked /\ (New(q)' <=> New(q)) /\ (Idle(q) => Idle(q)')
      BY <1>1, <1>3 DEF Tracked, New, Idle
    <3>2. \A q \in Payers : Charged(q)'
      BY <1>1, <1>3, <2>4, <3>1 DEF AllCharged, Charged
    <3> QED BY <1>1, <2>4, <3>2 DEF AllCharged
  <2> QED BY <2>1, <2>2, <2>3, <2>4 DEF ExternalInv
<1>4. CASE /\ \E order \in OldestFirst(node) : node' = Accepted(node, enf.says, order)
           /\ sess' = "live" /\ started' = TRUE
  <2>1. PICK order \in OldestFirst(node) : node' = Accepted(node, enf.says, order)
    BY <1>4
  <2>2. PICK z : z = node'
    OBVIOUS
  <2>3. PICK h \in Hellos : h = enf.says
    BY <1>2 DEF EnforcerState
  <2>4. /\ NodeOK(z) /\ z.hello = enf.says /\ z.link # 0 /\ OutAcceptable(z)
        /\ \A p \in Payers : \A in : Agreed(z, Closed[p], in, p)
        /\ DOMAIN z.peers = Tracked
        /\ \A p \in Tracked : z.peers[p].base = node.peers[p].base /\ z.peers[p].current = node.peers[p].current
        /\ \A k \in 1 .. Len(z.out) : z.out[k].peer \in Tracked
    <3>1. z = Accepted(node, h, order)
      BY <2>1, <2>2, <2>3
    <3>2. Introduced(z, h)
      BY ONLY <1>2, <3>1, AcceptedType
    <3> QED BY <2>3, <3>2 DEF Introduced
  <2>5. Types'
    BY <1>1, <1>4, <2>2, <2>4 DEF ExternalInv, Types
  <2>6. Connected'
    <3>1. OutAcceptable(z) => OutAcceptable(node)'
      BY <2>2 DEF OutAcceptable, Acceptable, Accepts
    <3> QED BY <1>1, <1>4, <2>2, <2>3, <2>4, <3>1 DEF ExternalInv, Connected
  <2>7. AllAgreed'
    <3> SUFFICES ASSUME NEW q \in Payers
                 PROVE  Agreed(z, enf.payers[q], inb, q)
      BY <1>1, <2>2 DEF AllAgreed
    <3> QED BY <1>2, <2>4
  <2>8. ASSUME AllCharged
        PROVE  AllCharged'
    <3>1. Tracked' = Tracked /\ \A q : New(q)' <=> New(q)
      BY <1>1, <2>2, <2>4 DEF Tracked, New
    <3>2. ASSUME NEW q \in Payers
          PROVE  Charged(q)'
      <4>1. Charged(q) /\ enf.payers[q].count = 0
        BY <1>2, <2>8, ClosedType DEF AllCharged
      <4>2. q \in Tracked => z.peers[q] \in Peer /\ node.peers[q] \in Peer
        BY <1>2, <2>4 DEF NodeOK, Tracked
      <4>3. \A n \in Nat : ~Says(inb, q, n)
        BY <1>2 DEF Says
      <4>4. q \in Tracked => Fair(z, q, carried[q], enf.payers[q], inb)
        <5> SUFFICES ASSUME q \in Tracked
                     PROVE  Fair(z, q, carried[q], enf.payers[q], inb)
          OBVIOUS
        <5>1. Total(node.peers[q]) <= carried[q] /\ node.peers[q].current = 0
          BY <1>2, <4>1 DEF Charged, Fair
        <5>2. z.peers[q].base = node.peers[q].base /\ z.peers[q].current = 0
          BY <2>4, <5>1
        <5> QED BY <2>4, <4>1, <4>2, <4>3, <5>1, <5>2 DEF Fair, Total, Peer
      <4>5. Idle(q) => Idle(q)'
        BY <1>1 DEF Idle
      <4>6. New(q) => enf.payers[q].held = {} /\ NoBind(z.out, q)
        BY <2>4, <4>1 DEF Charged, New, NoBind
      <4> QED BY <1>1, <2>2, <3>1, <4>1, <4>4, <4>5, <4>6 DEF Charged
    <3> QED BY <1>1, <2>8, <3>2 DEF AllCharged
  <2> QED BY <2>5, <2>6, <2>7, <2>8 DEF ExternalInv
<1> QED BY <1>3, <1>4 DEF HelloArrives

(* The start. *)
LEMMA ExternalStarts ==
    ASSUME Init
    PROVE  ExternalInv
<1>1. /\ spare \in Allowances /\ node = [peers |-> <<>>, link |-> 0, hello |-> Null, seq |-> 0, out |-> <<>>]
      /\ sess = "down" /\ started = FALSE /\ inb = <<>> /\ carried = [p \in Payers |-> 0] /\ gone = {}
  BY DEF Init
<1>2. PICK h \in spare.hellos : enf = [up |-> TRUE, conn |-> FALSE, says |-> h, payers |-> Closed]
  BY DEF Init
<1>3. spare \in Allowance /\ h \in Hellos
  BY <1>1, ExternalAssumption DEF Allowance
<1>4. enf \in EnforcerState
  BY <1>2, <1>3, ClosedType DEF EnforcerState
<1>5. NodeOK(node)
  <2>1. node.out \in Seq(ToEnforcer) /\ Len(node.out) = 0 /\ DOMAIN node.peers = {}
    BY <1>1
  <2>2. node.peers \in [DOMAIN node.peers -> Peer]
    BY <1>1
  <2> QED BY <1>1, <2>1, <2>2, MostType DEF NodeOK
<1>6. Types
  <2>1. inb \in Seq(ToNode) /\ carried \in [Payers -> Nat] /\ gone \in SUBSET Payers
    BY <1>1
  <2> QED BY <1>1, <1>3, <1>4, <1>5, <2>1 DEF Types
<1>7. Connected
  BY <1>1, <1>2 DEF Connected
<1>8. AllAgreed
  BY <1>1 DEF AllAgreed
<1> QED BY <1>6, <1>7, <1>8 DEF ExternalInv

(* Each step keeps the two in agreement. *)
LEMMA ExternalStays ==
    ASSUME ExternalInv, [Next]_vars
    PROVE  ExternalInv'
<1>1. CASE UNCHANGED vars
  <2>1. UNCHANGED <<node, sess, started, inb, enf, carried, was, gone, spare>>
    BY <1>1 DEF vars
  <2>2. Types'
    BY <2>1 DEF ExternalInv, Types
  <2>3. Closed' = Closed /\ (OutAcceptable(node) => OutAcceptable(node)')
    BY <2>1 DEF Closed, OutAcceptable, Acceptable, Accepts
  <2>4. Connected'
    BY <2>1, <2>3 DEF ExternalInv, Connected
  <2>5. AllAgreed'
    BY <2>1 DEF ExternalInv, AllAgreed
  <2> QED BY <2>2, <2>4, <2>5 DEF ExternalInv
<1>2. CASE Next
  BY <1>2, ConnectKeeps, HelloArrivesKeeps, NoHelloCameKeeps, NodeReadsKeeps, SessionEndsKeeps,
     EnforcerReadsKeeps, EnforcerTurnsKeeps, CarriesOrReportsKeeps, RemovePayerKeeps, RegisterKeeps,
     SetShapingRateKeeps, DelegateKeeps DEF Next
<1> QED BY <1>1, <1>2

(* What is agreed on when nothing is on its way is the enforcer's state. *)
LEMMA ExternalShows ==
    ASSUME ExternalInv
    PROVE  TypeOK /\ InSync /\ OnlyAcceptable
<1>1. TypeOK
  BY MostType DEF ExternalInv, Types, NodeOK, Connected, TypeOK, Tracked, Most
<1>2. InSync
  <2> SUFFICES ASSUME node.link # 0, enf.conn, node.out = <<>>, inb = <<>>
               PROVE  /\ \A p \in Tracked : Selling(p) =>
                            /\ enf.payers[p].held = {b.subject : b \in Bindings(node, p)}
                            /\ enf.payers[p].rate = WireRate(node.peers[p].rate)
                      /\ \A p \in Payers \ Tracked : enf.payers[p].held = {} /\ enf.payers[p].rate = 0
    BY DEF InSync
  <2>1. \A p \in Payers : Agreed(node, enf.payers[p], inb, p) /\ ~Refused(inb, p)
    BY DEF ExternalInv, AllAgreed, Refused
  <2>2. \A p, types, m : ~EndsIn(node.out, p, types, m)
    BY DEF EndsIn
  <2>3. Tracked \subseteq Payers
    BY DEF ExternalInv, Types, NodeOK, Tracked
  <2> QED BY <2>1, <2>2, <2>3 DEF Agreed, BoundTo, SetTo, Removed, Told, Selling, Held, Tracked
<1>3. OnlyAcceptable
  BY DEF OnlyAcceptable, ExternalInv, Connected, OutAcceptable, Acceptable
<1> QED BY <1>1, <1>2, <1>3

(* What is charged at the start: nothing. *)
LEMMA ChargedStarts ==
    ASSUME Init, \A a \in Allowances : a.returns => a.units = 0
    PROVE  AllCharged
<1>1. node.peers = <<>> /\ node.out = <<>> /\ inb = <<>> /\ spare \in Allowances
  BY DEF Init
<1>2. PICK h \in spare.hellos : enf = [up |-> TRUE, conn |-> FALSE, says |-> h, payers |-> Closed]
  BY DEF Init
<1>3. ASSUME NEW p \in Payers
      PROVE  Charged(p)
  <2>1. enf.payers[p] = Closed[p] /\ p \notin Tracked
    BY <1>1, <1>2 DEF Tracked
  <2> QED BY <1>1, <2>1, ClosedType DEF Charged, Idle, Says, NoBind
<1> QED BY <1>1, <1>3 DEF AllCharged

(* Each step charges for what was carried. *)
LEMMA ChargedStays ==
    ASSUME ExternalInv, AllCharged, [Next]_vars
    PROVE  AllCharged'
<1>1. CASE UNCHANGED vars
  <2>1. UNCHANGED <<node, sess, started, inb, enf, carried, was, gone, spare>>
    BY <1>1 DEF vars
  <2>2. \A q : Tracked' = Tracked /\ (New(q)' <=> New(q)) /\ (Idle(q) => Idle(q)')
    BY <2>1 DEF Tracked, New, Idle
  <2>3. \A q \in Payers : Charged(q)'
    BY <2>1, <2>2 DEF AllCharged, Charged
  <2> QED BY <2>1, <2>3 DEF AllCharged
<1>2. CASE Next
  BY <1>2, ConnectKeeps, HelloArrivesKeeps, NoHelloCameKeeps, NodeReadsKeeps, SessionEndsKeeps,
     EnforcerReadsKeeps, EnforcerTurnsKeeps, CarriesOrReportsKeeps, RemovePayerKeeps, RegisterKeeps,
     SetShapingRateKeeps, DelegateKeeps DEF Next
<1> QED BY <1>1, <1>2

-----------------------------------------------------------------------------
(* A mesh: the types. *)

MeshTypes ==
    /\ core \in [Payers -> Mesh!Session \cup {Null}] /\ mesh \in [Payers -> Mesh!Peer \cup {Null}]
    /\ policy \in [Payers -> Mesh!Policy \cup {Null}] /\ moved \in [Payers -> Mesh!Counters]
    /\ fresh \in BOOLEAN /\ left \in Mesh!Allowance
    /\ \A p \in Payers :
          /\ core[p] = Null <=> mesh[p] = Null
          /\ core[p] # Null => core[p].gate \in Mesh!Gates /\ core[p].was \in Mesh!Gates

(* What the node has yet to tell FIPS: at most the decision on one peer. *)

IsAt(e, g) == e.access = g.access /\ e.rate = g.rate

Settled(p) == core[p] # Null => IsAt(mesh[p], core[p].gate)

\* The calls c leave p, of which the node has e, at g.
Leads(p, c, e, g) ==
    \/ c = <<Mesh!Call(p, "rate", g.rate)>> /\ e.access = g.access
    \/ c = <<Mesh!Call(p, "access", g.access)>> /\ e.rate = g.rate
    \/ c = <<Mesh!Call(p, "access", g.access), Mesh!Call(p, "rate", g.rate)>>
    \/ c = <<Mesh!Call(p, "access", "None"), Mesh!Call(p, "access", g.access),
             Mesh!Call(p, "rate", g.rate)>>

Spoken(p) ==
    /\ core[p] # Null /\ Leads(p, calls, mesh[p], core[p].gate)
    /\ \A q \in Payers \ {p} : Settled(q)

MeshAgreed ==
    /\ \/ calls = <<>> /\ \A q \in Payers : Settled(q)
       \/ \E p \in Payers : Spoken(p)
    /\ \A p \in Payers : core[p] # Null => mesh[p].rate \in {0, core[p].gate.rate, core[p].was.rate}

(* What FIPS does for a peer, of which the node has e, under the policy q. *)

Obeys(e, q) ==
    /\ e = Null => q = Null
    /\ e # Null /\ q = Null => e.rate = 0 /\ e.access # "Free"
    /\ e # Null /\ q # Null =>
          q.admitted = Mesh!Carried(e.access, e.rate) /\ q.rate = Mesh!RateForFips(e.rate)

Obeyed ==
    Mesh!Undisturbed =>
       default = Mesh!PolicyOf("None", MIN_FLOW) /\ \A p \in Payers : Obeys(mesh[p], policy[p])

(* What a session was charged for: in each direction, what it read last (l), *)
(* the reading the node has (c) and the count at FIPS (n) may still come to  *)
(* be charged on top of a, and m was carried.                                *)

Counted(q) == IF q = Null THEN Mesh!ZERO ELSE q.moved

InOrder(l, c, n, a, m) ==
    \/ l <= c /\ c <= n /\ a + n <= m + l
    \/ a + n <= m /\ (c <= l \/ a + c + n <= m + l)
    \/ c <= n /\ a + n <= m

Covers(a, s, c, n, m) ==
    /\ s.drawn <= a.to + a.from * WEIGHT
    /\ InOrder(s.last.to, c.to, n.to, a.to, m.to)
    /\ InOrder(s.last.from, c.from, n.from, a.from, m.from)

Covered(s, c, n, m) == \E a \in Mesh!Counters : Covers(a, s, c, n, m)

Accounts ==
    {"node", "clear"} \cap left.broken = {} =>
       \A p \in Payers :
          /\ mesh[p] = Null => policy[p] = Null
          /\ core[p] # Null =>
                Covered(core[p], mesh[p].counters, Counted(policy[p]), moved[p])

MeshInv == MeshTypes /\ MeshAgreed /\ Obeyed /\ Accounts

-----------------------------------------------------------------------------
(* A mesh: facts. *)

(* What is assumed of the constants. *)
LEMMA MeshConstants ==
    /\ Null \notin Nat /\ Null \notin Mesh!Peer /\ Null \notin Mesh!Session
    /\ Null \notin Mesh!Policy
    /\ MIN_FLOW \in Nat /\ WEIGHT \in Nat /\ MAX_U64 \in Nat /\ MIN_FLOW < MAX_U64
    /\ Shaped \subseteq MIN_FLOW .. MAX_U64 - 1 /\ Disturbances \subseteq Mesh!Allowance
BY PartsAssumption DEF Mesh!FipsAssumption

(* A gate has a rate of at least the allowance. *)
LEMMA GateType ==
    ASSUME NEW g \in Mesh!Gates
    PROVE  /\ g \in Mesh!Gate /\ g.rate \in Nat /\ MIN_FLOW <= g.rate
           /\ g.access \in {"None", "Active", "Free"} /\ g.rate \in 0 .. MAX_U64
<1>1. g.rate \in MIN_FLOW .. MAX_U64 /\ g.access \in {"None", "Active", "Free"}
  <2>1. g.rate \in {MAX_U64, MIN_FLOW} \cup Shaped /\ g.access \in {"None", "Active", "Free"}
    BY DEF Mesh!Gates
  <2>2. \A r \in {MAX_U64, MIN_FLOW} \cup Shaped : r \in MIN_FLOW .. MAX_U64
    BY MeshConstants
  <2> QED BY <2>1, <2>2
<1>2. g = [access |-> g.access, rate |-> g.rate]
  BY DEF Mesh!Gates
<1> QED BY <1>1, <1>2, MeshConstants DEF Mesh!Gate

(* FIPS' pace under the policy of a rate is the rate, of the ones a gate or a *)
(* new peer has.                                                             *)
LEMMA PaceOf ==
    ASSUME NEW a, NEW r \in 0 .. MAX_U64
    PROVE  Mesh!Pace(Mesh!PolicyOf(a, r)) = r
<1> DEFINE pol == Mesh!PolicyOf(a, r)
<1>1. (pol.admitted <=> (a = "Free" \/ r > 0)) /\ pol.rate = IF r = MAX_U64 THEN Null ELSE r
  BY DEF Mesh!PolicyOf, Mesh!Carried, Mesh!RateForFips
<1>2. r # Null /\ r \in Nat
  BY MeshConstants
<1>3. CASE pol.admitted
  BY <1>1, <1>2, <1>3 DEF Mesh!Pace
<1>4. CASE ~pol.admitted
  <2>1. r = 0
    BY <1>1, <1>2, <1>4
  <2> QED BY <2>1, <1>4 DEF Mesh!Pace
<1> QED BY <1>3, <1>4

(* A request takes a fault, if it fails, and changes nothing else of what may *)
(* happen.                                                                   *)
LEMMA Requested ==
    ASSUME left \in Mesh!Allowance, NEW kind, NEW ok \in BOOLEAN, Mesh!Request(kind, ok)
    PROVE  left' \in Mesh!Allowance /\ left'.broken = left.broken /\ (~ok => kind \in left.broken)
<1>1. CASE ok
  BY <1>1 DEF Mesh!Request
<1>2. CASE ~ok
  <2>1. left.faults - 1 \in Nat
    BY <1>2 DEF Mesh!Request, Mesh!Allowance
  <2> QED BY <1>2, <2>1 DEF Mesh!Request, Mesh!Allowance
<1> QED BY <1>1, <1>2

(* A policy that is set has what was asked for, and the counts it had. *)
LEMMA PolicySet ==
    ASSUME NEW q \in Mesh!Policy \cup {Null}, NEW e \in Mesh!Peer
    PROVE  /\ Mesh!Set(q, e) \in Mesh!Policy /\ Mesh!Set(q, e) # Null
           /\ Mesh!Set(q, e).admitted = Mesh!Carried(e.access, e.rate)
           /\ Mesh!Set(q, e).rate = Mesh!RateForFips(e.rate)
           /\ Counted(Mesh!Set(q, e)) = Counted(q)
<1>1. Mesh!RateForFips(e.rate) \in 0 .. MAX_U64 \cup {Null} /\ Mesh!Carried(e.access, e.rate) \in BOOLEAN
  BY DEF Mesh!RateForFips, Mesh!Carried, Mesh!Peer
<1>2. Counted(q) \in Mesh!Counters
  BY DEF Counted, Mesh!Policy, Mesh!ZERO, Mesh!Counters
<1>3. Mesh!Set(q, e) = [admitted |-> Mesh!Carried(e.access, e.rate),
                        rate |-> Mesh!RateForFips(e.rate), moved |-> Counted(q)]
  BY DEF Mesh!Set, Counted
<1>4. Mesh!Set(q, e) \in Mesh!Policy
  BY <1>1, <1>2, <1>3 DEF Mesh!Policy
<1> QED BY <1>3, <1>4, MeshConstants DEF Counted

-----------------------------------------------------------------------------
(* A mesh: the node's calls. *)

\* The node has e of p, and pol FIPS if it had to.
Executed(p, e) ==
    /\ mesh' = [mesh EXCEPT ![p] = e]
    /\ \/ /\ UNCHANGED <<policy, left>> /\ e.rate = mesh[p].rate
          /\ Mesh!Carried(e.access, e.rate) <=> Mesh!Carried(mesh[p].access, mesh[p].rate)
       \/ Mesh!Apply(p, e)

(* Whether FIPS is pol or not, it obeys and what was counted stays counted. *)
LEMMA ExecutedKeeps ==
    ASSUME MeshTypes, Obeyed, Accounts, NEW p \in Payers, core[p] # Null,
           NEW e \in Mesh!Peer, e.counters = mesh[p].counters, Executed(p, e),
           UNCHANGED <<core, default, moved, fresh>>
    PROVE  MeshTypes' /\ Obeyed' /\ Accounts'
<1> DEFINE pol == Mesh!Set(policy[p], e)
<1>1. e # Null /\ mesh[p] # Null /\ mesh[p] \in Mesh!Peer
  BY MeshConstants DEF MeshTypes
<1>2. \A q \in Payers : mesh'[q] = IF q = p THEN e ELSE mesh[q]
  BY DEF Executed, MeshTypes
<1>3. mesh' \in [Payers -> Mesh!Peer \cup {Null}]
  BY DEF Executed, MeshTypes
<1>4. /\ left' \in Mesh!Allowance /\ left'.broken = left.broken
      /\ \/ /\ policy' = policy /\ e.rate = mesh[p].rate
            /\ Mesh!Carried(e.access, e.rate) <=> Mesh!Carried(mesh[p].access, mesh[p].rate)
         \/ policy' = [policy EXCEPT ![p] = pol]
         \/ policy' = policy /\ "set" \in left.broken
  <2>1. CASE UNCHANGED <<policy, left>> /\ e.rate = mesh[p].rate
             /\ (Mesh!Carried(e.access, e.rate) <=> Mesh!Carried(mesh[p].access, mesh[p].rate))
    BY <2>1 DEF MeshTypes
  <2>2. CASE Mesh!Apply(p, e)
    <3>1. PICK ok \in BOOLEAN :
             /\ Mesh!Request("set", ok)
             /\ policy' = IF ok THEN [policy EXCEPT ![p] = pol] ELSE policy
      BY <2>2 DEF Mesh!Apply
    <3> HIDE DEF pol
    <3> QED BY <3>1, Requested DEF MeshTypes
  <2> QED BY <2>1, <2>2 DEF Executed
<1>5. policy[p] \in Mesh!Policy \cup {Null}
  BY DEF MeshTypes
<1>6. /\ pol \in Mesh!Policy /\ pol # Null /\ Counted(pol) = Counted(policy[p])
      /\ pol.admitted = Mesh!Carried(e.access, e.rate) /\ pol.rate = Mesh!RateForFips(e.rate)
  BY <1>5, PolicySet
<1> HIDE DEF pol
<1>7. /\ policy' \in [Payers -> Mesh!Policy \cup {Null}]
      /\ \A q \in Payers \ {p} : policy'[q] = policy[q]
      /\ policy'[p] \in {policy[p], pol} /\ Counted(policy'[p]) = Counted(policy[p])
  BY <1>4, <1>6 DEF MeshTypes
<1>8. MeshTypes'
  BY <1>1, <1>2, <1>3, <1>4, <1>7 DEF MeshTypes
<1>9. Obeyed'
  <2> SUFFICES ASSUME left.broken \subseteq {"show"}
               PROVE  /\ default' = Mesh!PolicyOf("None", MIN_FLOW)
                      /\ \A q \in Payers : Obeys(mesh'[q], policy'[q])
    BY <1>4 DEF Obeyed, Mesh!Undisturbed
  <2>1. default = Mesh!PolicyOf("None", MIN_FLOW) /\ \A q \in Payers : Obeys(mesh[q], policy[q])
    BY DEF Obeyed, Mesh!Undisturbed
  <2>2. Obeys(e, policy'[p])
    <3>1. CASE policy'[p] = pol
      BY <3>1, <1>1, <1>6 DEF Obeys
    <3>2. CASE policy'[p] # pol
      <4>1. /\ policy'[p] = policy[p] /\ e.rate = mesh[p].rate
            /\ Mesh!Carried(e.access, e.rate) <=> Mesh!Carried(mesh[p].access, mesh[p].rate)
        BY <3>2, <1>4, <1>5, <1>7 DEF MeshTypes
      <4>2. Mesh!Carried(e.access, e.rate) = Mesh!Carried(mesh[p].access, mesh[p].rate)
        BY <4>1 DEF Mesh!Carried
      <4>3. CASE policy[p] = Null
        <5>1. mesh[p].rate = 0 /\ mesh[p].access # "Free"
          BY <2>1, <1>1, <4>3 DEF Obeys
        <5> QED BY <5>1, <4>1, <4>3, <1>1 DEF Obeys, Mesh!Carried
      <4>4. CASE policy[p] # Null
        BY <2>1, <1>1, <4>1, <4>2, <4>4 DEF Obeys
      <4> QED BY <4>3, <4>4
    <3> QED BY <3>1, <3>2
  <2> QED BY <2>1, <2>2, <1>2, <1>7
<1>10. Accounts'
  <2> SUFFICES ASSUME {"node", "clear"} \cap left.broken = {}, NEW q \in Payers
               PROVE  /\ mesh'[q] = Null => policy'[q] = Null
                      /\ core[q] # Null =>
                            Covered(core[q], mesh'[q].counters, Counted(policy'[q]), moved[q])
    BY <1>4 DEF Accounts
  <2>1. /\ mesh[q] = Null => policy[q] = Null
        /\ core[q] # Null => Covered(core[q], mesh[q].counters, Counted(policy[q]), moved[q])
    BY DEF Accounts
  <2>2. CASE q = p
    BY <2>1, <2>2, <1>1, <1>2, <1>7
  <2>3. CASE q # p
    BY <2>1, <2>3, <1>2, <1>7
  <2> QED BY <2>2, <2>3
<1> QED BY <1>8, <1>9, <1>10

(* What a call asks for, and what is left to ask for. *)
LEMMA Calling ==
    ASSUME NEW p \in Payers, NEW c, NEW e \in Mesh!Peer, NEW g \in Mesh!Gates, Leads(p, c, e, g)
    PROVE  LET h == Head(c) IN
           /\ c # <<>> /\ h[1] = p
           /\ \/ /\ h[2] = "access" /\ h[3] \in {"None", g.access}
                 /\ LET f == [e EXCEPT !.access = h[3]] IN
                    Leads(p, Tail(c), f, g) \/ (Tail(c) = <<>> /\ IsAt(f, g))
              \/ /\ h[2] = "rate" /\ h[3] = g.rate
                 /\ LET f == [e EXCEPT !.rate = h[3]] IN Tail(c) = <<>> /\ IsAt(f, g)
<1> DEFINE P == Mesh!Call(p, "access", "None")
           A == Mesh!Call(p, "access", g.access)
           R == Mesh!Call(p, "rate", g.rate)
<1>1. CASE c = <<R>> /\ e.access = g.access
  <2>1. Head(c) = R /\ Tail(c) = <<>> /\ c # <<>>
    BY <1>1
  <2> QED BY <1>1, <2>1 DEF Mesh!Call, IsAt, Mesh!Peer
<1>2. CASE c = <<A>> /\ e.rate = g.rate
  <2>1. Head(c) = A /\ Tail(c) = <<>> /\ c # <<>>
    BY <1>2
  <2> QED BY <1>2, <2>1 DEF Mesh!Call, IsAt, Mesh!Peer
<1>3. CASE c = <<A, R>>
  <2>1. Head(c) = A /\ Tail(c) = <<R>> /\ c # <<>>
    BY <1>3
  <2> QED BY <1>3, <2>1 DEF Mesh!Call, IsAt, Mesh!Peer, Leads
<1>4. CASE c = <<P, A, R>>
  <2>1. Head(c) = P /\ Tail(c) = <<A, R>> /\ c # <<>>
    BY <1>4
  <2> QED BY <1>4, <2>1 DEF Mesh!Call, Leads
<1> QED BY <1>1, <1>2, <1>3, <1>4 DEF Leads

(* The node executes a call, and FIPS is told what it has to be. *)
LEMMA ExecuteKeeps ==
    ASSUME MeshInv, Mesh!Execute
    PROVE  MeshInv'
<1>1. PICK p \in Payers : Spoken(p)
  BY DEF MeshInv, MeshAgreed, Mesh!Execute
<1>2. /\ core[p] # Null /\ core[p] \in Mesh!Session /\ core[p].gate \in Mesh!Gates
      /\ mesh[p] # Null /\ mesh[p] \in Mesh!Peer
  BY <1>1 DEF Spoken, MeshInv, MeshTypes
<1> DEFINE h == Head(calls)
           g == core[p].gate
<1>3. /\ h[1] = p
      /\ \/ /\ h[2] = "access" /\ h[3] \in {"None", g.access}
            /\ LET f == [mesh[p] EXCEPT !.access = h[3]] IN
               Leads(p, Tail(calls), f, g) \/ (Tail(calls) = <<>> /\ IsAt(f, g))
         \/ /\ h[2] = "rate" /\ h[3] = g.rate
            /\ LET f == [mesh[p] EXCEPT !.rate = h[3]] IN Tail(calls) = <<>> /\ IsAt(f, g)
  BY <1>1, <1>2, Calling DEF Spoken
<1>4. /\ calls' = Tail(calls)
      /\ UNCHANGED <<core, fresh, default, moved, decisions>>
      /\ \/ h[2] = "access" /\ Mesh!SetAccess(p, h[3])
         \/ h[2] = "rate" /\ Mesh!SetShapingRate(p, h[3])
  BY <1>3 DEF Mesh!Execute
<1>5. /\ g \in Mesh!Gate /\ g.rate \in 0 .. MAX_U64 /\ g.access \in {"None", "Active", "Free"}
  BY <1>2, GateType
<1> HIDE DEF h, g
<1>6. PICK e \in Mesh!Peer :
         /\ e.counters = mesh[p].counters /\ Executed(p, e)
         /\ e.rate \in {mesh[p].rate, g.rate}
         /\ Leads(p, Tail(calls), e, g) \/ (Tail(calls) = <<>> /\ IsAt(e, g))
  <2>1. CASE h[2] = "access"
    <3> DEFINE f == [mesh[p] EXCEPT !.access = h[3]]
    <3>1. h[3] \in {"None", "Active", "Free"} /\ h[2] # "rate"
      BY <2>1, <1>3, <1>5
    <3>2. /\ f \in Mesh!Peer /\ f.counters = mesh[p].counters /\ f.rate = mesh[p].rate
          /\ f.access = h[3]
      BY <3>1, <1>2 DEF Mesh!Peer
    <3>3. Leads(p, Tail(calls), f, g) \/ (Tail(calls) = <<>> /\ IsAt(f, g))
      BY <1>3, <3>1
    <3>4. Mesh!SetAccess(p, h[3])
      BY <1>4, <3>1
    <3>5. /\ mesh' = [mesh EXCEPT ![p].access = h[3]]
          /\ IF Mesh!Carried(mesh[p].access, mesh[p].rate) = Mesh!Carried(h[3], mesh[p].rate)
             THEN UNCHANGED <<policy, left>> ELSE Mesh!Apply(p, f)
      BY <3>4 DEF Mesh!SetAccess
    <3>6. mesh' = [mesh EXCEPT ![p] = f]
      BY <3>5 DEF MeshInv, MeshTypes
    <3> HIDE DEF f
    <3>7. Executed(p, f)
      BY <3>2, <3>5, <3>6 DEF Executed
    <3> QED BY <3>2, <3>3, <3>7
  <2>2. CASE h[2] = "rate"
    <3> DEFINE f == [mesh[p] EXCEPT !.rate = h[3]]
    <3>1. h[3] = g.rate /\ h[2] # "access"
      BY <2>2, <1>3
    <3>2. /\ f \in Mesh!Peer /\ f.counters = mesh[p].counters /\ f.rate = g.rate
          /\ f.access = mesh[p].access
      BY <3>1, <1>2, <1>5 DEF Mesh!Peer
    <3>3. Tail(calls) = <<>> /\ IsAt(f, g)
      BY <1>3, <3>1
    <3>4. Mesh!SetShapingRate(p, h[3])
      BY <1>4, <3>1
    <3>5. /\ mesh' = [mesh EXCEPT ![p].rate = h[3]]
          /\ IF mesh[p].rate = h[3] THEN UNCHANGED <<policy, left>> ELSE Mesh!Apply(p, f)
      BY <3>4 DEF Mesh!SetShapingRate
    <3>6. mesh' = [mesh EXCEPT ![p] = f]
      BY <3>5 DEF MeshInv, MeshTypes
    <3> HIDE DEF f
    <3>7. Executed(p, f)
      BY <3>1, <3>2, <3>5, <3>6 DEF Executed
    <3> QED BY <3>2, <3>3, <3>7
  <2> QED BY <2>1, <2>2, <1>3
<1>7. MeshTypes' /\ Obeyed' /\ Accounts'
  BY <1>2, <1>4, <1>6, ExecutedKeeps DEF MeshInv
<1>8. \A q \in Payers : mesh'[q] = IF q = p THEN e ELSE mesh[q]
  BY <1>6 DEF Executed, MeshInv, MeshTypes
<1>9. /\ \A q \in Payers \ {p} : Settled(q)'
      /\ \A q \in Payers : core[q] # Null => mesh'[q].rate \in {0, core[q].gate.rate, core[q].was.rate}
  <2>1. \A q \in Payers : core[q] # Null => mesh[q].rate \in {0, core[q].gate.rate, core[q].was.rate}
    BY DEF MeshInv, MeshAgreed
  <2> QED BY <2>1, <1>1, <1>4, <1>6, <1>8 DEF Spoken, Settled, g
<1>10. Spoken(p)' \/ (calls' = <<>> /\ Settled(p)')
  BY <1>2, <1>4, <1>6, <1>8, <1>9 DEF Spoken, Settled, g
<1>11. MeshAgreed'
  <2>1. CASE Spoken(p)'
    BY <2>1, <1>4, <1>9 DEF MeshAgreed
  <2>2. CASE calls' = <<>> /\ Settled(p)'
    BY <2>2, <1>4, <1>9 DEF MeshAgreed
  <2> QED BY <2>1, <2>2, <1>10
<1> QED BY <1>7, <1>11 DEF MeshInv

-----------------------------------------------------------------------------
(* A mesh: core's decisions. *)

(* Two calls after one another. *)
LEMMA Both == ASSUME NEW x, NEW y PROVE <<x>> \o <<y>> = <<x, y>>
<1> DEFINE S == {x, y}
<1>1. <<x>> \in Seq(S) /\ <<y>> \in Seq(S) /\ <<x, y>> \in Seq(S)
  OBVIOUS
<1> HIDE DEF S
<1>2. /\ <<x>> \o <<y>> \in Seq(S) /\ Len(<<x>> \o <<y>>) = 2
      /\ (<<x>> \o <<y>>)[1] = x /\ (<<x>> \o <<y>>)[2] = y
  BY <1>1
<1>3. \A s, t \in Seq(S) : Len(s) = Len(t) /\ (\A i \in 1 .. Len(s) : s[i] = t[i]) => s = t
  OBVIOUS
<1>4. Len(<<x, y>>) = 2 /\ <<x, y>>[1] = x /\ <<x, y>>[2] = y
  OBVIOUS
<1>5. \A i \in 1 .. Len(<<x>> \o <<y>>) : (<<x>> \o <<y>>)[i] = <<x, y>>[i]
  BY <1>2, <1>4
<1> QED BY <1>1, <1>2, <1>3, <1>4, <1>5

(* The calls of a decision lead from the gate before to the new one. *)
LEMMA Refreshed ==
    ASSUME NEW p, NEW e, NEW old, NEW g, IsAt(e, old)
    PROVE  LET c == Mesh!Refresh(p, old, g) IN Leads(p, c, e, g) \/ (c = <<>> /\ IsAt(e, g))
<1> DEFINE A == Mesh!Call(p, "access", g.access)
           R == Mesh!Call(p, "rate", g.rate)
           c == Mesh!Refresh(p, old, g)
<1>1. CASE old.access # g.access /\ old.rate # g.rate
  <2>1. c = <<A>> \o <<R>>
    BY <1>1 DEF Mesh!Refresh
  <2>2. <<A>> \o <<R>> = <<A, R>>
    BY Both
  <2> QED BY <2>1, <2>2 DEF Leads
<1>2. CASE old.access # g.access /\ old.rate = g.rate
  <2>1. c = <<A>> \o <<>>
    BY <1>2 DEF Mesh!Refresh
  <2>2. <<A>> \o <<>> = <<A>>
    OBVIOUS
  <2> QED BY <2>1, <2>2, <1>2 DEF Leads, IsAt
<1>3. CASE old.access = g.access /\ old.rate # g.rate
  <2>1. c = <<>> \o <<R>>
    BY <1>3 DEF Mesh!Refresh
  <2>2. <<>> \o <<R>> = <<R>>
    OBVIOUS
  <2> QED BY <2>1, <2>2, <1>3 DEF Leads, IsAt
<1>4. CASE old.access = g.access /\ old.rate = g.rate
  <2>1. c = <<>> \o <<>>
    BY <1>4 DEF Mesh!Refresh
  <2>2. c = <<>>
    BY <2>1
  <2> QED BY <2>2, <1>4 DEF IsAt
<1> QED BY <1>1, <1>2, <1>3, <1>4

(* Nothing but the gate and the calls changes when core changes its mind. *)
LEMMA DecideKeeps ==
    ASSUME MeshInv, NEW p \in Payers, NEW g \in Mesh!Gates, Mesh!Decide(p, g)
    PROVE  MeshInv'
<1> DEFINE s == [core[p] EXCEPT !.was = core[p].gate, !.gate = g]
<1>1. /\ core[p] # Null /\ core[p] \in Mesh!Session /\ core[p].gate \in Mesh!Gates
      /\ calls = <<>> /\ core' = [core EXCEPT ![p] = s]
      /\ calls' = Mesh!Refresh(p, core[p].gate, g)
      /\ UNCHANGED <<mesh, fresh, policy, default, moved, left>>
  BY DEF Mesh!Decide, MeshInv, MeshTypes
<1>2. g \in Mesh!Gate
  BY GateType
<1>3. /\ s \in Mesh!Session /\ s.was = core[p].gate /\ s.gate = g
      /\ s.last = core[p].last /\ s.drawn = core[p].drawn
  BY <1>1, <1>2 DEF Mesh!Session
<1> HIDE DEF s
<1>4. \A q \in Payers : core'[q] = IF q = p THEN s ELSE core[q]
  BY <1>1 DEF MeshInv, MeshTypes
<1>5. s # Null
  BY <1>3, MeshConstants
<1>6. MeshTypes'
  <2>1. core' \in [Payers -> Mesh!Session \cup {Null}]
    BY <1>1, <1>3 DEF MeshInv, MeshTypes
  <2> QED BY <2>1, <1>1, <1>3, <1>4, <1>5 DEF MeshInv, MeshTypes
<1>7. Obeyed'
  BY <1>1 DEF MeshInv, Obeyed, Mesh!Undisturbed
<1>8. Accounts'
  <2>1. \A c, n, m : Covered(core[p], c, n, m) => Covered(s, c, n, m)
    BY <1>3 DEF Covered, Covers
  <2> QED BY <2>1, <1>1, <1>4 DEF MeshInv, Accounts
<1>9. \A q \in Payers : core[q] # Null => IsAt(mesh[q], core[q].gate)
  BY <1>1 DEF MeshInv, MeshAgreed, Settled, Spoken, Leads
<1>10. Leads(p, calls', mesh[p], g) \/ (calls' = <<>> /\ IsAt(mesh[p], g))
  BY <1>1, <1>9, Refreshed
<1>11. MeshAgreed'
  <2>1. \A q \in Payers \ {p} : Settled(q)'
    BY <1>1, <1>4, <1>9 DEF Settled
  <2>2. \A q \in Payers : core'[q] # Null =>
           mesh'[q].rate \in {0, core'[q].gate.rate, core'[q].was.rate}
    <3>1. \A q \in Payers \ {p} : core[q] # Null => mesh[q].rate \in {0, core[q].gate.rate, core[q].was.rate}
      BY DEF MeshInv, MeshAgreed
    <3>2. mesh[p].rate = s.was.rate
      BY <1>1, <1>3, <1>9 DEF IsAt
    <3> QED BY <3>1, <3>2, <1>1, <1>4
  <2>3. CASE Leads(p, calls', mesh[p], g)
    <3>1. Spoken(p)'
      BY <2>1, <2>3, <1>1, <1>3, <1>4, <1>5 DEF Spoken
    <3> QED BY <3>1, <2>2 DEF MeshAgreed
  <2>4. CASE calls' = <<>> /\ IsAt(mesh[p], g)
    <3>1. Settled(p)'
      BY <2>4, <1>1, <1>3, <1>4 DEF Settled
    <3> QED BY <3>1, <2>1, <2>2, <2>4 DEF MeshAgreed
  <2> QED BY <2>3, <2>4, <1>10
<1> QED BY <1>6, <1>7, <1>8, <1>11 DEF MeshInv

(* A call before two others. *)
LEMMA Three == ASSUME NEW x, NEW y, NEW z PROVE <<x>> \o <<y, z>> = <<x, y, z>>
<1> DEFINE S == {x, y, z}
<1>1. <<x>> \in Seq(S) /\ <<y, z>> \in Seq(S) /\ <<x, y, z>> \in Seq(S)
  OBVIOUS
<1> HIDE DEF S
<1>2. /\ <<x>> \o <<y, z>> \in Seq(S) /\ Len(<<x>> \o <<y, z>>) = 3
      /\ (<<x>> \o <<y, z>>)[1] = x /\ (<<x>> \o <<y, z>>)[2] = y /\ (<<x>> \o <<y, z>>)[3] = z
  BY <1>1
<1>3. \A s, t \in Seq(S) : Len(s) = Len(t) /\ (\A i \in 1 .. Len(s) : s[i] = t[i]) => s = t
  OBVIOUS
<1>4. Len(<<x, y, z>>) = 3 /\ <<x, y, z>>[1] = x /\ <<x, y, z>>[2] = y /\ <<x, y, z>>[3] = z
  OBVIOUS
<1>5. \A i \in 1 .. Len(<<x>> \o <<y, z>>) : (<<x>> \o <<y, z>>)[i] = <<x, y, z>>[i]
  BY <1>2, <1>4
<1> QED BY <1>1, <1>2, <1>3, <1>4, <1>5

(* The calls for a new peer lead from nothing to its gate. *)
LEMMA Greeted ==
    ASSUME NEW p, NEW e, NEW g \in Mesh!Gates
    PROVE  Leads(p, <<Mesh!Call(p, "access", "None")>>
                      \o Mesh!Refresh(p, [access |-> "None", rate |-> Null], g), e, g)
<1> DEFINE P == Mesh!Call(p, "access", "None")
           A == Mesh!Call(p, "access", g.access)
           R == Mesh!Call(p, "rate", g.rate)
           c == Mesh!Refresh(p, [access |-> "None", rate |-> Null], g)
<1>1. g.rate # Null
  BY GateType, MeshConstants
<1>2. CASE g.access = "None"
  <2>1. c = <<>> \o <<R>>
    BY <1>1, <1>2 DEF Mesh!Refresh
  <2>2. <<>> \o <<R>> = <<R>>
    OBVIOUS
  <2>3. <<P>> \o <<R>> = <<P, R>>
    BY Both
  <2> QED BY <2>1, <2>2, <2>3, <1>2 DEF Leads
<1>3. CASE g.access # "None"
  <2>1. c = <<A>> \o <<R>>
    BY <1>1, <1>3 DEF Mesh!Refresh
  <2>2. <<A>> \o <<R>> = <<A, R>>
    BY Both
  <2>3. <<P>> \o <<A, R>> = <<P, A, R>>
    BY Three
  <2> QED BY <2>1, <2>2, <2>3 DEF Leads
<1> QED BY <1>2, <1>3

\* The node's entry of p and core's session are e and s, FIPS cleared what it had.
Restarted(p, e, s) ==
    /\ mesh' = [mesh EXCEPT ![p] = e] /\ core' = [core EXCEPT ![p] = s]
    /\ moved' = [moved EXCEPT ![p] = Mesh!ZERO]
    /\ \/ mesh[p] = Null /\ UNCHANGED <<policy, left>>
       \/ \E ok \in BOOLEAN : Mesh!Remove(p, ok)

(* A peer that comes or goes leaves nothing behind at FIPS, unless a request *)
(* fails.                                                                    *)
LEMMA RestartedKeeps ==
    ASSUME MeshTypes, Obeyed, Accounts, NEW p \in Payers,
           NEW e \in {Null, Mesh!Entry}, NEW s \in Mesh!Session \cup {Null}, s = Null <=> e = Null,
           s # Null => s.gate \in Mesh!Gates /\ s.was \in Mesh!Gates
                         /\ s.last = Mesh!ZERO /\ s.drawn = 0,
           Restarted(p, e, s), UNCHANGED <<fresh, default>>
    PROVE  MeshTypes' /\ Obeyed' /\ Accounts'
<1>1. Mesh!ZERO \in Mesh!Counters /\ Mesh!Entry \in Mesh!Peer
  BY MeshConstants DEF Mesh!ZERO, Mesh!Counters, Mesh!Entry, Mesh!Peer
<1>2. /\ left' \in Mesh!Allowance /\ left'.broken = left.broken
      /\ policy' \in [Payers -> Mesh!Policy \cup {Null}]
      /\ \A q \in Payers \ {p} : policy'[q] = policy[q]
      /\ policy'[p] = Null \/ "clear" \in left.broken \/ (mesh[p] = Null /\ policy'[p] = policy[p])
  <2>1. CASE mesh[p] = Null /\ UNCHANGED <<policy, left>>
    BY <2>1 DEF MeshTypes
  <2>2. ASSUME NEW ok \in BOOLEAN, Mesh!Remove(p, ok)
        PROVE  <1>2!1 /\ <1>2!2 /\ <1>2!3 /\ <1>2!4
    BY <2>2, Requested DEF Mesh!Remove, MeshTypes
  <2> QED BY <2>1, <2>2 DEF Restarted
<1>3. \A q \in Payers : /\ mesh'[q] = IF q = p THEN e ELSE mesh[q]
                        /\ core'[q] = IF q = p THEN s ELSE core[q]
                        /\ moved'[q] = IF q = p THEN Mesh!ZERO ELSE moved[q]
  BY DEF Restarted, MeshTypes
<1>4. MeshTypes'
  <2>1. /\ mesh' \in [Payers -> Mesh!Peer \cup {Null}] /\ core' \in [Payers -> Mesh!Session \cup {Null}]
        /\ moved' \in [Payers -> Mesh!Counters]
    BY <1>1 DEF Restarted, MeshTypes
  <2> QED BY <2>1, <1>2, <1>3 DEF MeshTypes
<1>5. "clear" \notin left.broken /\ (mesh[p] = Null => policy[p] = Null) => policy'[p] = Null
  BY <1>2
<1>6. Obeyed'
  <2> SUFFICES ASSUME left.broken \subseteq {"show"}
               PROVE  /\ default' = Mesh!PolicyOf("None", MIN_FLOW)
                      /\ \A q \in Payers : Obeys(mesh'[q], policy'[q])
    BY <1>2 DEF Obeyed, Mesh!Undisturbed
  <2>1. default = Mesh!PolicyOf("None", MIN_FLOW) /\ \A q \in Payers : Obeys(mesh[q], policy[q])
    BY DEF Obeyed, Mesh!Undisturbed
  <2>2. policy'[p] = Null
    BY <2>1, <1>5 DEF Obeys
  <2>3. Obeys(e, Null)
    BY DEF Obeys, Mesh!Entry
  <2> QED BY <2>1, <2>2, <2>3, <1>2, <1>3
<1>7. Accounts'
  <2> SUFFICES ASSUME {"node", "clear"} \cap left.broken = {}, NEW q \in Payers
               PROVE  /\ mesh'[q] = Null => policy'[q] = Null
                      /\ core'[q] # Null =>
                            Covered(core'[q], mesh'[q].counters, Counted(policy'[q]), moved'[q])
    BY <1>2 DEF Accounts
  <2>1. \A r \in Payers : /\ mesh[r] = Null => policy[r] = Null
                          /\ core[r] # Null => Covered(core[r], mesh[r].counters, Counted(policy[r]), moved[r])
    BY DEF Accounts
  <2>2. CASE q = p
    <3>1. policy'[p] = Null
      BY <2>1, <1>5
    <3>2. ASSUME s # Null PROVE Covered(s, Mesh!ZERO, Mesh!ZERO, Mesh!ZERO)
      <4>1. Covers(Mesh!ZERO, s, Mesh!ZERO, Mesh!ZERO, Mesh!ZERO)
        BY <3>2, MeshConstants DEF Covers, InOrder, Mesh!ZERO
      <4> QED BY <4>1, <1>1 DEF Covered
    <3>3. e # Null => e.counters = Mesh!ZERO
      BY DEF Mesh!Entry
    <3> QED BY <2>2, <3>1, <3>2, <3>3, <1>3 DEF Counted
  <2>3. CASE q # p
    BY <2>1, <2>3, <1>2, <1>3
  <2> QED BY <2>2, <2>3
<1> QED BY <1>4, <1>6, <1>7

(* A peer that comes has what core says of it, or will have. *)
LEMMA PeerUpKeeps ==
    ASSUME MeshInv, NEW p \in Payers, NEW g \in Mesh!Gates, Mesh!PeerUp(p, g)
    PROVE  MeshInv'
<1> DEFINE s == [gate |-> g, was |-> Mesh!Closed, last |-> Mesh!ZERO, drawn |-> 0]
<1>1. Mesh!Closed \in Mesh!Gates /\ Mesh!ZERO \in Mesh!Counters
  BY DEF Mesh!Closed, Mesh!Gates, Mesh!ZERO, Mesh!Counters
<1>2. /\ s \in Mesh!Session /\ s.gate = g /\ s.was = Mesh!Closed
      /\ s.last = Mesh!ZERO /\ s.drawn = 0
  BY <1>1, GateType DEF Mesh!Session
<1>3. /\ calls = <<>> /\ Restarted(p, Mesh!Entry, s) /\ UNCHANGED <<fresh, default>>
      /\ calls' = <<Mesh!Call(p, "access", "None")>>
                    \o Mesh!Refresh(p, [access |-> "None", rate |-> Null], g)
  BY DEF Mesh!PeerUp, Restarted
<1> HIDE DEF s
<1>4. s # Null /\ Mesh!Entry # Null /\ Mesh!Entry.rate = 0
  BY <1>2, MeshConstants DEF Mesh!Entry, Mesh!Peer, Mesh!ZERO, Mesh!Counters
<1>5. MeshTypes' /\ Obeyed' /\ Accounts'
  BY <1>1, <1>2, <1>3, <1>4, RestartedKeeps DEF MeshInv
<1>6. \A q \in Payers : /\ mesh'[q] = IF q = p THEN Mesh!Entry ELSE mesh[q]
                        /\ core'[q] = IF q = p THEN s ELSE core[q]
  BY <1>3 DEF Restarted, MeshInv, MeshTypes
<1>7. \A q \in Payers \ {p} : Settled(q)'
  BY <1>3, <1>6 DEF MeshInv, MeshAgreed, Settled, Spoken, Leads
<1>8. Spoken(p)'
  BY <1>2, <1>3, <1>4, <1>6, <1>7, Greeted DEF Spoken
<1>9. \A q \in Payers : core'[q] # Null =>
         mesh'[q].rate \in {0, core'[q].gate.rate, core'[q].was.rate}
  BY <1>4, <1>6 DEF MeshInv, MeshAgreed
<1> QED BY <1>5, <1>8, <1>9 DEF MeshInv, MeshAgreed

(* Nothing is left of a peer that goes. *)
LEMMA PeerDownKeeps ==
    ASSUME MeshInv, NEW p \in Payers, Mesh!PeerDown(p)
    PROVE  MeshInv'
<1>1. calls = <<>> /\ calls' = <<>> /\ Restarted(p, Null, Null) /\ UNCHANGED <<fresh, default>>
  BY DEF Mesh!PeerDown, Restarted
<1>2. MeshTypes' /\ Obeyed' /\ Accounts'
  BY <1>1, RestartedKeeps DEF MeshInv
<1>3. \A q \in Payers : /\ mesh'[q] = IF q = p THEN Null ELSE mesh[q]
                        /\ core'[q] = IF q = p THEN Null ELSE core[q]
  BY <1>1 DEF Restarted, MeshInv, MeshTypes
<1>4. \A q \in Payers : Settled(q)'
  BY <1>1, <1>3 DEF MeshInv, MeshAgreed, Settled, Spoken, Leads
<1>5. \A q \in Payers : core'[q] # Null =>
         mesh'[q].rate \in {0, core'[q].gate.rate, core'[q].was.rate}
  BY <1>3 DEF MeshInv, MeshAgreed
<1> QED BY <1>1, <1>2, <1>4, <1>5 DEF MeshInv, MeshAgreed

-----------------------------------------------------------------------------
(* A mesh: what is counted. *)

(* What may still be charged shrinks when FIPS starts over, grows with what  *)
(* it carries, and stays as it is when it is read; what is charged for is    *)
(* never more than was carried.                                              *)
LEMMA InOrderStays ==
    ASSUME NEW l \in Nat, NEW c \in Nat, NEW n \in Nat, NEW a \in Nat, NEW m \in Nat,
           InOrder(l, c, n, a, m)
    PROVE  /\ InOrder(l, c, 0, a, m)
           /\ InOrder(l, c, n + 1, a, m + 1)
           /\ InOrder(l, n, n, a, m)
           /\ InOrder(c, c, n, a + (IF c > l THEN c - l ELSE 0), m)
           /\ a <= m
<1>1. InOrder(l, c, 0, a, m) /\ a <= m
  BY DEF InOrder
<1>2. InOrder(l, c, n + 1, a, m + 1)
  BY DEF InOrder
<1>3. InOrder(l, n, n, a, m)
  BY DEF InOrder
<1>4. CASE c > l
  BY <1>4, <1>1, <1>2, <1>3 DEF InOrder
<1>5. CASE c <= l
  <2>1. ~(c > l)
    BY <1>5
  <2> QED BY <2>1, <1>5, <1>1, <1>2, <1>3 DEF InOrder
<1> QED BY <1>4, <1>5

(* The weight of a sum. *)
LEMMA WeightOf ==
    ASSUME NEW x \in Nat, NEW y \in Nat
    PROVE  /\ (x + y) * WEIGHT = x * WEIGHT + y * WEIGHT
           /\ x * WEIGHT \in Nat /\ (x <= y => x * WEIGHT <= y * WEIGHT)
<1>1. WEIGHT \in Nat
  BY MeshConstants
<1>2. \A i, j \in Nat : (i + j) * WEIGHT = i * WEIGHT + j * WEIGHT /\ i * WEIGHT \in Nat
  BY <1>1
<1>3. ASSUME x <= y PROVE x * WEIGHT <= y * WEIGHT
  <2>1. y - x \in Nat /\ y = x + (y - x)
    BY <1>3
  <2>2. y * WEIGHT = x * WEIGHT + (y - x) * WEIGHT /\ (y - x) * WEIGHT \in Nat
    BY <2>1, <1>2
  <2> QED BY <2>2, <1>2
<1> QED BY <1>2, <1>3

(* What a reading is weighed at is no more than its weight. *)
LEMMA WeightedMost ==
    ASSUME NEW c \in Mesh!Counters
    PROVE  Mesh!Weighted(c) \in Nat /\ Mesh!Weighted(c) <= c.to + c.from * WEIGHT
<1> DEFINE w == c.to + c.from * WEIGHT
<1>1. w \in Nat /\ MAX_U64 \in Nat
  BY WeightOf, MeshConstants DEF Mesh!Counters
<1> HIDE DEF w
<1>2. \E x \in {w, MAX_U64} : \A y \in {w, MAX_U64} : x <= y
  <2>1. CASE w <= MAX_U64
    BY <2>1, <1>1
  <2>2. CASE MAX_U64 <= w
    BY <2>2, <1>1
  <2> QED BY <2>1, <2>2, <1>1
<1>3. /\ Mesh!Min({w, MAX_U64}) \in {w, MAX_U64}
      /\ \A y \in {w, MAX_U64} : Mesh!Min({w, MAX_U64}) <= y
  BY <1>2 DEF Mesh!Min
<1> QED BY <1>1, <1>3 DEF Mesh!Weighted, w

(* What a session is charged for covers what it drew after its reading, too. *)
LEMMA ObserveCovered ==
    ASSUME NEW s \in Mesh!Session, NEW c \in Mesh!Counters, NEW n \in Mesh!Counters,
           NEW m \in Mesh!Counters, Covered(s, c, n, m)
    PROVE  /\ Covered(Mesh!Observe(s, c), c, n, m) /\ Mesh!Observe(s, c) \in Mesh!Session
           /\ Mesh!Observe(s, c).gate = s.gate /\ Mesh!Observe(s, c).was = s.was
<1> DEFINE d == Mesh!DeltaSince(c, s.last)
           t == Mesh!Observe(s, c)
<1>1. PICK a \in Mesh!Counters : Covers(a, s, c, n, m)
  BY DEF Covered
<1>2. /\ s.last \in Mesh!Counters /\ s.drawn \in Nat
      /\ s.last.to \in Nat /\ s.last.from \in Nat /\ c.to \in Nat /\ c.from \in Nat
      /\ n.to \in Nat /\ n.from \in Nat /\ m.to \in Nat /\ m.from \in Nat
      /\ a.to \in Nat /\ a.from \in Nat
  BY DEF Mesh!Session, Mesh!Counters
<1>3. /\ d.to = IF c.to > s.last.to THEN c.to - s.last.to ELSE 0
      /\ d.from = IF c.from > s.last.from THEN c.from - s.last.from ELSE 0
  BY DEF Mesh!DeltaSince
<1>4. d.to \in Nat /\ d.from \in Nat
  BY <1>2, <1>3
<1>5. d \in Mesh!Counters
  <2>1. d = [to |-> d.to, from |-> d.from]
    BY DEF Mesh!DeltaSince
  <2> HIDE DEF d
  <2> QED BY <2>1, <1>4 DEF Mesh!Counters
<1> HIDE DEF d
<1>6. Mesh!Weighted(d) \in Nat /\ Mesh!Weighted(d) <= d.to + d.from * WEIGHT
  BY <1>5, WeightedMost
<1>7. /\ t.last = c /\ t.gate = s.gate /\ t.was = s.was
      /\ t.drawn = IF s.gate.access = "Active" THEN s.drawn + Mesh!Weighted(d) ELSE s.drawn
      /\ t \in Mesh!Session
  <2>1. s.drawn + Mesh!Weighted(d) \in Nat
    BY <1>2, <1>6
  <2> QED BY <2>1, <1>2 DEF Mesh!Observe, Mesh!Session, d
<1> HIDE DEF t
<1>8. DEFINE b == [to |-> a.to + d.to, from |-> a.from + d.from]
<1>9. b \in Mesh!Counters /\ b.to = a.to + d.to /\ b.from = a.from + d.from
  BY <1>2, <1>4 DEF Mesh!Counters
<1> HIDE DEF b
<1>10. t.drawn <= b.to + b.from * WEIGHT
  <2>1. /\ (a.from + d.from) * WEIGHT = a.from * WEIGHT + d.from * WEIGHT
        /\ a.from * WEIGHT \in Nat /\ d.from * WEIGHT \in Nat
    BY <1>2, <1>4, WeightOf
  <2>2. s.drawn <= a.to + a.from * WEIGHT
    BY <1>1 DEF Covers
  <2> QED BY <2>1, <2>2, <1>2, <1>4, <1>6, <1>7, <1>9
<1>11. InOrder(c.to, c.to, n.to, b.to, m.to) /\ InOrder(c.from, c.from, n.from, b.from, m.from)
  <2>1. InOrder(s.last.to, c.to, n.to, a.to, m.to) /\ InOrder(s.last.from, c.from, n.from, a.from, m.from)
    BY <1>1 DEF Covers
  <2>2. InOrder(c.to, c.to, n.to, a.to + d.to, m.to)
    BY <2>1, <1>2, <1>3, InOrderStays
  <2>3. InOrder(c.from, c.from, n.from, a.from + d.from, m.from)
    BY <2>1, <1>2, <1>3, InOrderStays
  <2> QED BY <2>2, <2>3, <1>9
<1>12. Covers(b, t, c, n, m)
  BY <1>7, <1>10, <1>11 DEF Covers
<1>13. Covered(t, c, n, m)
  BY <1>9, <1>12 DEF Covered
<1> QED BY <1>7, <1>13 DEF t

(* FIPS carries: a unit more was carried, and may be charged for. *)
LEMMA CarryKeeps ==
    ASSUME MeshInv, NEW p \in Payers, NEW d \in {"to", "from"}, Mesh!Carry(p, d)
    PROVE  MeshInv'
<1> DEFINE q == [policy[p] EXCEPT !.moved[d] = @ + 1]
           n == [policy[p].moved EXCEPT ![d] = @ + 1]
           m == [moved[p] EXCEPT ![d] = @ + 1]
<1>1. /\ policy[p] # Null /\ policy[p] \in Mesh!Policy
      /\ moved[p] \in Mesh!Counters /\ policy[p].moved \in Mesh!Counters
  BY DEF Mesh!Carry, MeshInv, MeshTypes, Mesh!Policy
<1>2. /\ policy' = [policy EXCEPT ![p] = q] /\ moved' = [moved EXCEPT ![p] = m]
      /\ UNCHANGED <<core, calls, mesh, fresh, default, left>>
  BY DEF Mesh!Carry, MeshInv, MeshTypes
<1>3. /\ n \in Mesh!Counters /\ m \in Mesh!Counters
      /\ \A x \in {"to", "from"} : /\ n[x] = IF x = d THEN policy[p].moved[x] + 1 ELSE policy[p].moved[x]
                                   /\ m[x] = IF x = d THEN moved[p][x] + 1 ELSE moved[p][x]
  BY <1>1 DEF Mesh!Counters
<1>4. q = [policy[p] EXCEPT !.moved = n]
  BY <1>1 DEF Mesh!Policy
<1>5. q.admitted = policy[p].admitted /\ q.rate = policy[p].rate /\ q.moved = n /\ q \in Mesh!Policy
  <2> HIDE DEF n
  <2> QED BY <1>1, <1>3, <1>4 DEF Mesh!Policy
<1> HIDE DEF q, n, m
<1>6. q # Null
  BY <1>5, MeshConstants
<1>7. \A x \in Payers : /\ policy'[x] = IF x = p THEN q ELSE policy[x]
                        /\ moved'[x] = IF x = p THEN m ELSE moved[x]
  BY <1>2 DEF MeshInv, MeshTypes
<1>8. MeshTypes'
  <2>1. policy' \in [Payers -> Mesh!Policy \cup {Null}] /\ moved' \in [Payers -> Mesh!Counters]
    BY <1>2, <1>3, <1>5 DEF MeshInv, MeshTypes
  <2> QED BY <2>1, <1>2 DEF MeshInv, MeshTypes
<1>9. MeshAgreed'
  BY <1>2 DEF MeshInv, MeshAgreed, Settled, Spoken
<1>10. Obeyed'
  <2>1. Obeys(mesh[p], policy[p]) => Obeys(mesh[p], q)
    BY <1>1, <1>5, <1>6 DEF Obeys
  <2> QED BY <2>1, <1>2, <1>7 DEF MeshInv, Obeyed, Mesh!Undisturbed
<1>11. ASSUME NEW s, s \in Mesh!Session, NEW c \in Mesh!Counters,
              Covered(s, c, policy[p].moved, moved[p])
       PROVE  Covered(s, c, n, m)
  <2> DEFINE o == policy[p].moved
             k == moved[p]
  <2>1. PICK a \in Mesh!Counters : Covers(a, s, c, o, k)
    BY <1>11 DEF Covered
  <2>2. /\ s.last.to \in Nat /\ s.last.from \in Nat /\ c.to \in Nat /\ c.from \in Nat
        /\ o.to \in Nat /\ o.from \in Nat /\ k.to \in Nat /\ k.from \in Nat
        /\ a.to \in Nat /\ a.from \in Nat
    BY <1>1, <1>11 DEF Mesh!Session, Mesh!Counters
  <2>3. /\ n.to = (IF d = "to" THEN o.to + 1 ELSE o.to) /\ m.to = (IF d = "to" THEN k.to + 1 ELSE k.to)
        /\ n.from = (IF d = "from" THEN o.from + 1 ELSE o.from)
        /\ m.from = (IF d = "from" THEN k.from + 1 ELSE k.from)
    BY <1>3
  <2> HIDE DEF o, k
  <2>4. /\ InOrder(s.last.to, c.to, o.to, a.to, k.to)
        /\ InOrder(s.last.from, c.from, o.from, a.from, k.from)
        /\ s.drawn <= a.to + a.from * WEIGHT
    BY <2>1 DEF Covers
  <2>5. InOrder(s.last.to, c.to, n.to, a.to, m.to)
    <3>1. InOrder(s.last.to, c.to, o.to + 1, a.to, k.to + 1)
      BY <2>2, <2>4, InOrderStays
    <3> QED BY <3>1, <2>3, <2>4
  <2>6. InOrder(s.last.from, c.from, n.from, a.from, m.from)
    <3>1. InOrder(s.last.from, c.from, o.from + 1, a.from, k.from + 1)
      BY <2>2, <2>4, InOrderStays
    <3> QED BY <3>1, <2>3, <2>4
  <2>7. Covers(a, s, c, n, m)
    BY <2>4, <2>5, <2>6 DEF Covers
  <2> QED BY <2>7 DEF Covered
<1>12. Accounts'
  <2> SUFFICES ASSUME {"node", "clear"} \cap left.broken = {}, NEW x \in Payers
               PROVE  /\ mesh[x] = Null => policy'[x] = Null
                      /\ core[x] # Null => Covered(core[x], mesh[x].counters, Counted(policy'[x]), moved'[x])
    BY <1>2 DEF Accounts
  <2>1. /\ mesh[x] = Null => policy[x] = Null
        /\ core[x] # Null => Covered(core[x], mesh[x].counters, Counted(policy[x]), moved[x])
    BY DEF MeshInv, Accounts
  <2>2. CASE x = p
    <3>1. mesh[p] # Null /\ core[p] # Null /\ core[p] \in Mesh!Session /\ mesh[p].counters \in Mesh!Counters
      BY <2>1, <2>2, <1>1 DEF MeshInv, MeshTypes, Mesh!Peer
    <3>2. Covered(core[p], mesh[p].counters, policy[p].moved, moved[p])
      BY <2>1, <2>2, <3>1, <1>1 DEF Counted
    <3>3. Covered(core[p], mesh[p].counters, n, m)
      BY <3>1, <3>2, <1>11
    <3> QED BY <2>2, <3>1, <3>3, <1>5, <1>6, <1>7 DEF Counted
  <2>3. CASE x # p
    BY <2>1, <2>3, <1>7
  <2> QED BY <2>2, <2>3
<1> QED BY <1>8, <1>9, <1>10, <1>12 DEF MeshInv

(* FIPS forgets what it counted, and what it was told. *)
LEMMA RebootKeeps ==
    ASSUME MeshInv, Mesh!Reboot
    PROVE  MeshInv'
<1>1. /\ left' \in Mesh!Allowance /\ left'.broken = left.broken /\ "daemon" \in left.broken
      /\ policy' = [p \in Payers |-> Null] /\ UNCHANGED <<core, calls, mesh, fresh, moved>>
  <2>1. left.faults - 1 \in Nat /\ left \in Mesh!Allowance
    BY DEF Mesh!Reboot, Mesh!Killed, MeshInv, MeshTypes, Mesh!Allowance
  <2> QED BY <2>1 DEF Mesh!Reboot, Mesh!Killed, Mesh!Allowance
<1>2. MeshTypes' /\ MeshAgreed'
  BY <1>1 DEF MeshInv, MeshTypes, MeshAgreed, Settled, Spoken
<1>3. Obeyed'
  BY <1>1 DEF Obeyed, Mesh!Undisturbed
<1>4. ASSUME NEW s \in Mesh!Session, NEW c \in Mesh!Counters, NEW n \in Mesh!Counters,
             NEW m \in Mesh!Counters, Covered(s, c, n, m)
      PROVE  Covered(s, c, Mesh!ZERO, m)
  <2>1. PICK a \in Mesh!Counters : Covers(a, s, c, n, m)
    BY <1>4 DEF Covered
  <2>2. /\ s.last.to \in Nat /\ s.last.from \in Nat /\ c.to \in Nat /\ c.from \in Nat
        /\ n.to \in Nat /\ n.from \in Nat /\ m.to \in Nat /\ m.from \in Nat
        /\ a.to \in Nat /\ a.from \in Nat
    BY DEF Mesh!Session, Mesh!Counters
  <2>3. /\ InOrder(s.last.to, c.to, n.to, a.to, m.to)
        /\ InOrder(s.last.from, c.from, n.from, a.from, m.from)
        /\ s.drawn <= a.to + a.from * WEIGHT
    BY <2>1 DEF Covers
  <2>4. InOrder(s.last.to, c.to, 0, a.to, m.to) /\ InOrder(s.last.from, c.from, 0, a.from, m.from)
    BY <2>2, <2>3, InOrderStays
  <2>5. Covers(a, s, c, Mesh!ZERO, m)
    BY <2>3, <2>4 DEF Covers, Mesh!ZERO
  <2> QED BY <2>5 DEF Covered
<1>5. Accounts'
  <2> SUFFICES ASSUME {"node", "clear"} \cap left.broken = {}, NEW x \in Payers, core[x] # Null
               PROVE  Covered(core[x], mesh[x].counters, Mesh!ZERO, moved[x])
    BY <1>1 DEF Accounts, Counted
  <2>1. Covered(core[x], mesh[x].counters, Counted(policy[x]), moved[x])
    BY DEF MeshInv, Accounts
  <2>2. /\ core[x] \in Mesh!Session /\ mesh[x].counters \in Mesh!Counters /\ moved[x] \in Mesh!Counters
        /\ Counted(policy[x]) \in Mesh!Counters
    BY DEF MeshInv, MeshTypes, Mesh!Peer, Counted, Mesh!Policy, Mesh!ZERO, Mesh!Counters
  <2> QED BY <2>1, <2>2, <1>4
<1> QED BY <1>2, <1>3, <1>5 DEF MeshInv

(* A reading is charged for once. *)
LEMMA TickKeeps ==
    ASSUME MeshInv, NEW p \in Payers, Mesh!Tick(p)
    PROVE  MeshInv'
<1>1. /\ calls = <<>> /\ mesh[p] # Null /\ core[p] # Null
      /\ UNCHANGED <<calls, policy, default, moved>>
      /\ core' = [core EXCEPT ![p] = Mesh!Observe(core[p], mesh'[p].counters)]
  BY DEF Mesh!Tick, MeshInv, MeshTypes
<1>2. /\ left' \in Mesh!Allowance /\ left'.broken = left.broken /\ fresh' \in BOOLEAN
      /\ \E reported \in SUBSET {q \in Payers : policy[q] # Null} : mesh' = Mesh!Taken(reported)
  <2>1. CASE ~Mesh!Stale
    <3>1. UNCHANGED <<mesh, fresh, left>>
      BY <2>1 DEF Mesh!Tick
    <3>2. mesh = Mesh!Taken({})
      BY DEF Mesh!Taken, MeshInv, MeshTypes
    <3> QED BY <3>1, <3>2 DEF MeshInv, MeshTypes
  <2>2. CASE Mesh!Stale
    <3> DEFINE named == {q \in Payers : policy[q] # Null}
    <3>1. PICK ok \in BOOLEAN, reported \in SUBSET named :
             /\ Mesh!Request("show", ok /\ reported = named)
             /\ mesh' = (IF ok THEN Mesh!Taken(reported) ELSE mesh)
             /\ fresh' = ok
      BY <2>2 DEF Mesh!Tick
    <3>2. mesh = Mesh!Taken({})
      BY DEF Mesh!Taken, MeshInv, MeshTypes
    <3>3. (ok /\ reported = named) \in BOOLEAN
      OBVIOUS
    <3>4. left' \in Mesh!Allowance /\ left'.broken = left.broken
      <4> DEFINE w == ok /\ reported = named
      <4>1. w \in BOOLEAN /\ Mesh!Request("show", w) /\ left \in Mesh!Allowance
        BY <3>1, <3>3 DEF MeshInv, MeshTypes
      <4> HIDE DEF w
      <4> QED BY <4>1, Requested
    <3>5. mesh' = Mesh!Taken(reported) \/ mesh' = Mesh!Taken({})
      BY <3>1, <3>2
    <3> QED BY <3>1, <3>4, <3>5
  <2> QED BY <2>1, <2>2
<1>3. PICK reported \in SUBSET {q \in Payers : policy[q] # Null} : mesh' = Mesh!Taken(reported)
  BY <1>2
<1>4. ASSUME NEW x \in Payers
      PROVE  /\ mesh[x] = Null => mesh'[x] = Null
             /\ mesh[x] # Null => /\ mesh'[x] # Null /\ mesh'[x] \in Mesh!Peer
                                  /\ mesh'[x].access = mesh[x].access /\ mesh'[x].rate = mesh[x].rate
                                  /\ mesh'[x].counters = mesh[x].counters
                                       \/ (policy[x] # Null /\ mesh'[x].counters = policy[x].moved)
  <2>1. mesh'[x] = IF mesh[x] # Null /\ x \in reported
                   THEN [mesh[x] EXCEPT !.counters = policy[x].moved] ELSE mesh[x]
    BY <1>3 DEF Mesh!Taken
  <2>2. mesh[x] \in Mesh!Peer \cup {Null}
    BY DEF MeshInv, MeshTypes
  <2>3. CASE mesh[x] # Null /\ x \in reported
    <3> DEFINE f == [mesh[x] EXCEPT !.counters = policy[x].moved]
    <3>1. policy[x] # Null /\ policy[x].moved \in Mesh!Counters
      BY <2>3 DEF MeshInv, MeshTypes, Mesh!Policy
    <3>2. /\ f \in Mesh!Peer /\ f.access = mesh[x].access /\ f.rate = mesh[x].rate
          /\ f.counters = policy[x].moved
      BY <3>1, <2>2, <2>3 DEF Mesh!Peer
    <3> HIDE DEF f
    <3>3. f # Null
      BY <3>2, MeshConstants
    <3>4. mesh'[x] = f
      BY <2>1, <2>3 DEF f
    <3> QED BY <2>3, <3>1, <3>2, <3>3, <3>4
  <2>4. CASE ~(mesh[x] # Null /\ x \in reported)
    BY <2>1, <2>2, <2>4
  <2> QED BY <2>3, <2>4
<1> DEFINE s == Mesh!Observe(core[p], mesh'[p].counters)
<1>5. /\ s \in Mesh!Session /\ s.gate = core[p].gate /\ s.was = core[p].was
  <2> DEFINE c == mesh'[p].counters
             t == core[p]
             d == Mesh!DeltaSince(c, t.last)
  <2>1. c \in Mesh!Counters /\ t \in Mesh!Session
    BY <1>1, <1>4 DEF Mesh!Peer, MeshInv, MeshTypes
  <2>2. d \in Mesh!Counters
    <3> HIDE DEF c, t
    <3>1. t.last \in Mesh!Counters
      BY <2>1 DEF Mesh!Session
    <3>2. d.to \in Nat /\ d.from \in Nat
      BY <2>1, <3>1 DEF Mesh!DeltaSince, Mesh!Counters
    <3>3. d = [to |-> d.to, from |-> d.from]
      BY DEF Mesh!DeltaSince
    <3> HIDE DEF d
    <3> QED BY <3>2, <3>3 DEF Mesh!Counters
  <2>3. Mesh!Weighted(d) \in Nat
    BY <2>2, WeightedMost
  <2>4. t.drawn + Mesh!Weighted(d) \in Nat
    BY <2>1, <2>3 DEF Mesh!Session
  <2>5. Mesh!Observe(t, c) = [t EXCEPT !.last = c,
                                       !.drawn = IF t.gate.access = "Active"
                                                 THEN t.drawn + Mesh!Weighted(d) ELSE t.drawn]
    BY <2>1 DEF Mesh!Observe, Mesh!Session
  <2> HIDE DEF c, t, d
  <2>6. /\ Mesh!Observe(t, c) \in Mesh!Session /\ Mesh!Observe(t, c).gate = t.gate
        /\ Mesh!Observe(t, c).was = t.was
    BY <2>1, <2>4, <2>5 DEF Mesh!Session
  <2> QED BY <2>6 DEF c, t
<1> HIDE DEF s
<1>6. s # Null /\ \A x \in Payers : core'[x] = IF x = p THEN s ELSE core[x]
  BY <1>1, <1>5, MeshConstants DEF s, MeshInv, MeshTypes
<1>7. MeshTypes'
  <2>1. core' \in [Payers -> Mesh!Session \cup {Null}]
    BY <1>1, <1>5 DEF s, MeshInv, MeshTypes
  <2>2. DOMAIN mesh' = Payers /\ mesh' = [x \in Payers |-> mesh'[x]]
    BY <1>3 DEF Mesh!Taken
  <2>3. mesh' \in [Payers -> Mesh!Peer \cup {Null}]
    BY <2>2, <1>4
  <2> QED BY <2>1, <2>3, <1>1, <1>2, <1>4, <1>5, <1>6 DEF MeshInv, MeshTypes
<1>8. MeshAgreed'
  <2>1. \A x \in Payers : core[x] # Null => mesh[x] # Null
    BY DEF MeshInv, MeshTypes
  <2>2. \A x \in Payers : Settled(x)'
    <3>1. \A x \in Payers : Settled(x)
      BY <1>1 DEF MeshInv, MeshAgreed, Spoken, Leads
    <3> QED BY <3>1, <2>1, <1>1, <1>4, <1>5, <1>6 DEF Settled, IsAt
  <2>3. \A x \in Payers : core'[x] # Null =>
           mesh'[x].rate \in {0, core'[x].gate.rate, core'[x].was.rate}
    <3>1. \A x \in Payers : core[x] # Null => mesh[x].rate \in {0, core[x].gate.rate, core[x].was.rate}
      BY DEF MeshInv, MeshAgreed
    <3> QED BY <3>1, <2>1, <1>1, <1>4, <1>5, <1>6
  <2> QED BY <2>2, <2>3, <1>1 DEF MeshAgreed
<1>9. Obeyed'
  <2>1. ASSUME NEW x \in Payers, Obeys(mesh[x], policy[x])
        PROVE  Obeys(mesh'[x], policy[x])
    BY <2>1, <1>4 DEF Obeys
  <2> QED BY <2>1, <1>1, <1>2 DEF MeshInv, Obeyed, Mesh!Undisturbed
<1>10. Accounts'
  <2> SUFFICES ASSUME {"node", "clear"} \cap left.broken = {}, NEW x \in Payers
               PROVE  /\ mesh'[x] = Null => policy[x] = Null
                      /\ core'[x] # Null =>
                            Covered(core'[x], mesh'[x].counters, Counted(policy[x]), moved[x])
    BY <1>1, <1>2 DEF Accounts
  <2>1. /\ mesh[x] = Null => policy[x] = Null
        /\ core[x] # Null => Covered(core[x], mesh[x].counters, Counted(policy[x]), moved[x])
    BY DEF MeshInv, Accounts
  <2>2. ASSUME core[x] # Null
        PROVE  /\ Covered(core[x], mesh'[x].counters, Counted(policy[x]), moved[x])
               /\ core[x] \in Mesh!Session /\ mesh'[x].counters \in Mesh!Counters
               /\ Counted(policy[x]) \in Mesh!Counters /\ moved[x] \in Mesh!Counters
    <3>1. mesh[x] # Null
      BY <2>2 DEF MeshInv, MeshTypes
    <3>2. /\ core[x] \in Mesh!Session /\ mesh'[x].counters \in Mesh!Counters
          /\ Counted(policy[x]) \in Mesh!Counters /\ moved[x] \in Mesh!Counters
          /\ mesh[x].counters \in Mesh!Counters
      BY <2>2, <3>1, <1>4
      DEF MeshInv, MeshTypes, Mesh!Peer, Counted, Mesh!Policy, Mesh!ZERO, Mesh!Counters
    <3>3. mesh'[x].counters \in {mesh[x].counters, Counted(policy[x])}
      BY <3>1, <1>4 DEF Counted
    <3>4. Covered(core[x], Counted(policy[x]), Counted(policy[x]), moved[x])
      <4> DEFINE n == Counted(policy[x])
                 m == moved[x]
                 c == mesh[x].counters
                 t == core[x]
      <4>1. PICK a \in Mesh!Counters : Covers(a, t, c, n, m)
        BY <2>1, <2>2 DEF Covered
      <4>2. /\ t.last.to \in Nat /\ t.last.from \in Nat /\ c.to \in Nat /\ c.from \in Nat
            /\ n.to \in Nat /\ n.from \in Nat /\ m.to \in Nat /\ m.from \in Nat
            /\ a.to \in Nat /\ a.from \in Nat
        <5> HIDE DEF n, m, c
        <5>1. t.last \in Mesh!Counters /\ n \in Mesh!Counters /\ m \in Mesh!Counters /\ c \in Mesh!Counters
          BY <3>2 DEF Mesh!Session, n, m, c
        <5> HIDE DEF t
        <5> QED BY <5>1 DEF Mesh!Counters
      <4> HIDE DEF n, m, c, t
      <4>3. /\ InOrder(t.last.to, c.to, n.to, a.to, m.to)
            /\ InOrder(t.last.from, c.from, n.from, a.from, m.from)
            /\ t.drawn <= a.to + a.from * WEIGHT
        BY <4>1 DEF Covers
      <4>4. /\ InOrder(t.last.to, n.to, n.to, a.to, m.to)
            /\ InOrder(t.last.from, n.from, n.from, a.from, m.from)
        BY <4>2, <4>3, InOrderStays
      <4>5. Covered(t, n, n, m)
        BY <4>3, <4>4 DEF Covered, Covers
      <4> QED BY <4>5 DEF n, m, t
    <3> QED BY <2>1, <2>2, <3>2, <3>3, <3>4
  <2>3. CASE x = p
    <3>1. Covered(s, mesh'[p].counters, Counted(policy[p]), moved[p])
      BY <2>2, <2>3, <1>1, ObserveCovered DEF s
    <3> QED BY <2>1, <2>3, <3>1, <1>1, <1>4, <1>6
  <2>4. CASE x # p
    BY <2>1, <2>2, <2>4, <1>4, <1>6
  <2> QED BY <2>3, <2>4
<1> QED BY <1>7, <1>8, <1>9, <1>10 DEF MeshInv

(* A node that was killed knows nobody. *)
LEMMA NewKeeps ==
    ASSUME MeshInv, Mesh!New
    PROVE  MeshInv'
<1>1. /\ left' \in Mesh!Allowance /\ left'.broken = left.broken /\ "node" \in left.broken
  <2>1. left.faults - 1 \in Nat /\ left \in Mesh!Allowance
    BY DEF Mesh!New, Mesh!Killed, MeshInv, MeshTypes, Mesh!Allowance
  <2> QED BY <2>1 DEF Mesh!New, Mesh!Killed, Mesh!Allowance
<1>2. Mesh!ZERO \in Mesh!Counters
  BY DEF Mesh!ZERO, Mesh!Counters
<1>3. MeshTypes' /\ MeshAgreed'
  BY <1>1, <1>2 DEF Mesh!New, MeshInv, MeshTypes, MeshAgreed, Settled
<1> QED BY <1>1, <1>3 DEF MeshInv, Obeyed, Mesh!Undisturbed, Accounts

(* Nobody is there at the start. *)
LEMMA MeshStarts ==
    ASSUME Mesh!Init
    PROVE  MeshInv
<1>1. Mesh!ZERO \in Mesh!Counters
  BY DEF Mesh!ZERO, Mesh!Counters
<1>2. MeshTypes /\ MeshAgreed
  BY <1>1, MeshConstants DEF Mesh!Init, MeshTypes, MeshAgreed, Settled
<1>3. Obeyed /\ Accounts
  BY DEF Mesh!Init, Obeyed, Obeys, Accounts
<1> QED BY <1>2, <1>3 DEF MeshInv

(* A step keeps the node and FIPS agreed. *)
LEMMA MeshStays ==
    ASSUME MeshInv, [Mesh!Next]_(Mesh!vars)
    PROVE  MeshInv'
<1>1. CASE UNCHANGED Mesh!vars
  BY <1>1 DEF Mesh!vars, MeshInv, MeshTypes, MeshAgreed, Settled, Spoken, Obeyed, Mesh!Undisturbed,
     Accounts
<1>2. CASE Mesh!Age
  BY <1>2 DEF Mesh!Age, MeshInv, MeshTypes, MeshAgreed, Settled, Spoken, Obeyed, Mesh!Undisturbed,
     Accounts
<1> QED BY <1>1, <1>2, ExecuteKeeps, NewKeeps, RebootKeeps, PeerUpKeeps, DecideKeeps,
           PeerDownKeeps, TickKeeps, CarryKeeps DEF Mesh!Next

(* What FIPS does for a peer is what core decided, or less on the way to it. *)
LEMMA MeshShows ==
    ASSUME MeshInv
    PROVE  Mesh!TypeOK /\ Mesh!InForce /\ Mesh!NeverMore
<1>1. Mesh!TypeOK
  <2>1. \A p \in Payers :
           /\ mesh[p] # Null => mesh[p] \in Mesh!Peer
           /\ (core[p] = Null) = (mesh[p] = Null)
           /\ core[p] # Null => core[p] \in Mesh!Session /\ core[p].gate \in Mesh!Gates
           /\ policy[p] # Null => policy[p] \in Mesh!Policy
    BY DEF MeshInv, MeshTypes
  <2>2. \A i \in DOMAIN calls : mesh[calls[i][1]] # Null
    <3>1. CASE calls = <<>>
      BY <3>1
    <3>2. CASE calls # <<>>
      <4>1. PICK p \in Payers : Spoken(p)
        BY <3>2 DEF MeshInv, MeshAgreed
      <4>2. \A i \in DOMAIN calls : calls[i][1] = p
        BY <4>1 DEF Spoken, Leads, Mesh!Call
      <4>3. mesh[p] # Null
        BY <4>1 DEF Spoken, MeshInv, MeshTypes
      <4> QED BY <4>2, <4>3
    <3> QED BY <3>1, <3>2
  <2>3. fresh \in BOOLEAN
    BY DEF MeshInv, MeshTypes
  <2> QED BY <2>1, <2>2, <2>3 DEF Mesh!TypeOK, Mesh!Peer, Mesh!Session, Mesh!Policy
<1>2. ASSUME Mesh!Undisturbed, NEW p \in Payers
      PROVE  /\ default = Mesh!PolicyOf("None", MIN_FLOW) /\ Obeys(mesh[p], policy[p])
             /\ core[p] = Null <=> mesh[p] = Null
             /\ mesh[p] \in Mesh!Peer \cup {Null} /\ policy[p] \in Mesh!Policy \cup {Null}
             /\ core[p] # Null => core[p].gate \in Mesh!Gates /\ core[p].was \in Mesh!Gates
  BY <1>2 DEF MeshInv, MeshTypes, Obeyed
<1>3. Mesh!InForce
  <2> SUFFICES ASSUME Mesh!Undisturbed, calls = <<>>, NEW p \in Payers
               PROVE  Mesh!InEffect(p) = Mesh!Wanted(p)
    BY DEF Mesh!InForce
  <2>1. core[p] # Null => IsAt(mesh[p], core[p].gate)
    BY DEF MeshInv, MeshAgreed, Spoken, Leads, Settled
  <2>2. CASE core[p] = Null
    BY <1>2, <2>2 DEF Obeys, Mesh!InEffect, Mesh!Wanted
  <2>3. CASE core[p] # Null /\ policy[p] # Null
    BY <1>2, <2>1, <2>3 DEF Obeys, Mesh!InEffect, Mesh!Wanted, IsAt, Mesh!PolicyOf
  <2>4. CASE core[p] # Null /\ policy[p] = Null
    <3> DEFINE g == core[p].gate
    <3>1. g.rate = 0 /\ g.access # "Free" /\ g \in Mesh!Gates
      BY <1>2, <2>1, <2>4 DEF Obeys, IsAt
    <3> HIDE DEF g
    <3>2. MIN_FLOW = 0
      BY <3>1, GateType, MeshConstants
    <3>3. Mesh!Carried(g.access, 0) = Mesh!Carried("None", 0)
      BY <3>1 DEF Mesh!Carried
    <3>4. Mesh!InEffect(p) = Mesh!PolicyOf("None", 0)
      BY <1>2, <2>4, <3>2 DEF Mesh!InEffect
    <3>5. Mesh!Wanted(p) = Mesh!PolicyOf(g.access, 0)
      BY <2>4, <3>1 DEF Mesh!Wanted, g
    <3> QED BY <3>3, <3>4, <3>5 DEF Mesh!PolicyOf
  <2> QED BY <2>2, <2>3, <2>4
<1>4. Mesh!NeverMore
  <2> SUFFICES ASSUME NEW p \in Payers, Mesh!Undisturbed, core[p] # Null
               PROVE  Mesh!Pace(Mesh!InEffect(p))
                        <= Mesh!Max({Mesh!Pace(Mesh!Wanted(p)),
                                     Mesh!Pace(Mesh!PolicyOf(core[p].was.access, core[p].was.rate))})
    BY DEF Mesh!NeverMore
  <2> DEFINE g == core[p].gate
             w == core[p].was
             x == Mesh!Pace(Mesh!Wanted(p))
             y == Mesh!Pace(Mesh!PolicyOf(w.access, w.rate))
             z == Mesh!Pace(Mesh!InEffect(p))
  <2>1. g \in Mesh!Gates /\ w \in Mesh!Gates
    BY <1>2
  <2>2. x = g.rate /\ y = w.rate
    <3> HIDE DEF w
    <3>1. g.rate \in 0 .. MAX_U64 /\ w.rate \in 0 .. MAX_U64
      BY <2>1, GateType
    <3>2. Mesh!Wanted(p) = Mesh!PolicyOf(g.access, g.rate)
      BY DEF Mesh!Wanted
    <3> HIDE DEF g
    <3> QED BY <3>1, <3>2, PaceOf
  <2>3. /\ g.rate \in Nat /\ MIN_FLOW <= g.rate /\ w.rate \in Nat
        /\ mesh[p].rate \in {0, g.rate, w.rate}
    <3>1. mesh[p].rate \in {0, g.rate, w.rate}
      BY DEF MeshInv, MeshAgreed
    <3> HIDE DEF g, w
    <3> QED BY <2>1, <3>1, GateType
  <2>4. z \in {MIN_FLOW, mesh[p].rate}
    <3>1. CASE policy[p] = Null
      <4>1. Mesh!InEffect(p) = Mesh!PolicyOf("None", MIN_FLOW)
        BY <1>2, <3>1 DEF Mesh!InEffect
      <4> QED BY <4>1, PaceOf, MeshConstants
    <3>2. CASE policy[p] # Null
      <4>1. mesh[p].rate \in 0 .. MAX_U64
        BY <1>2 DEF Mesh!Peer
      <4>2. Mesh!InEffect(p) = Mesh!PolicyOf(mesh[p].access, mesh[p].rate)
        BY <1>2, <3>2 DEF Mesh!InEffect, Obeys, Mesh!PolicyOf
      <4> QED BY <4>1, <4>2, PaceOf
    <3> QED BY <3>1, <3>2
  <2>5. x \in Nat /\ y \in Nat /\ z \in Nat /\ (z <= x \/ z <= y)
    <3> HIDE DEF x, y, z, g, w
    <3> QED BY <2>2, <2>3, <2>4, MeshConstants
  <2> HIDE DEF x, y, z
  <2>6. \E m \in {x, y} : \A k \in {x, y} : m >= k
    <3>1. CASE x >= y
      BY <3>1, <2>5
    <3>2. CASE y >= x
      BY <3>2, <2>5
    <3> QED BY <3>1, <3>2, <2>5
  <2>7. Mesh!Max({x, y}) \in {x, y} /\ \A k \in {x, y} : Mesh!Max({x, y}) >= k
    BY <2>6 DEF Mesh!Max
  <2>8. z <= Mesh!Max({x, y})
    BY <2>5, <2>7
  <2> QED BY <2>8 DEF x, y, z
<1> QED BY <1>1, <1>3, <1>4

(* A session is charged for no more than was carried. *)
LEMMA MeshCharges ==
    ASSUME MeshInv
    PROVE  Mesh!ChargedOnce
<1> SUFFICES ASSUME NEW p \in Payers, core[p] # Null, {"node", "clear"} \cap left.broken = {}
             PROVE  core[p].drawn <= moved[p].to + moved[p].from * WEIGHT
  BY DEF Mesh!ChargedOnce
<1> DEFINE s == core[p]
           c == mesh[p].counters
           n == Counted(policy[p])
           m == moved[p]
<1>1. /\ s \in Mesh!Session /\ c \in Mesh!Counters /\ n \in Mesh!Counters /\ m \in Mesh!Counters
  BY DEF MeshInv, MeshTypes, Mesh!Peer, Counted, Mesh!Policy, Mesh!ZERO, Mesh!Counters
<1>2. Covered(s, c, n, m)
  BY DEF MeshInv, Accounts
<1> HIDE DEF s, c, n, m
<1>3. PICK a \in Mesh!Counters : Covers(a, s, c, n, m)
  BY <1>2 DEF Covered
<1>4. /\ s.last.to \in Nat /\ s.last.from \in Nat /\ c.to \in Nat /\ c.from \in Nat
      /\ n.to \in Nat /\ n.from \in Nat /\ m.to \in Nat /\ m.from \in Nat
      /\ a.to \in Nat /\ a.from \in Nat /\ s.drawn \in Nat
  BY <1>1 DEF Mesh!Session, Mesh!Counters
<1>5. /\ InOrder(s.last.to, c.to, n.to, a.to, m.to)
      /\ InOrder(s.last.from, c.from, n.from, a.from, m.from)
      /\ s.drawn <= a.to + a.from * WEIGHT
  BY <1>3 DEF Covers
<1>6. a.to <= m.to /\ a.from <= m.from
  BY <1>4, <1>5, InOrderStays
<1>7. /\ a.from * WEIGHT \in Nat /\ m.from * WEIGHT \in Nat /\ a.from * WEIGHT <= m.from * WEIGHT
  BY <1>4, <1>6, WeightOf
<1>8. s.drawn <= m.to + m.from * WEIGHT
  BY <1>4, <1>5, <1>6, <1>7
<1> QED BY <1>8 DEF s, m

-----------------------------------------------------------------------------
(* The links. *)

\* The enforcer's socket and the FIPS daemon's, among the parts.
LinkInv == (part = "enforcer" => ExternalInv) /\ (part = "mesh" => MeshInv)

ChargeInv == part = "enforcer" => AllCharged

(* A step of the parts is a step of one of them, or leaves it alone. *)
LEMMA LinkStep ==
    ASSUME LinkInv, [MCNext]_<<part, vars, meshVars, wireVars, codecVars>>
    PROVE  LinkInv' /\ (ChargeInv => ChargeInv')
<1>1. /\ part' = part /\ (part = "enforcer" => [Next]_vars)
      /\ part = "mesh" => [Mesh!Next]_(Mesh!vars)
  BY DEF MCNext, ExternalNext, MeshNext, WireNext, CodecNext, meshVars, Mesh!vars
<1>2. part = "enforcer" => ExternalInv' /\ (AllCharged => AllCharged')
  BY <1>1, ExternalStays, ChargedStays DEF LinkInv
<1>3. part = "mesh" => MeshInv'
  BY <1>1, MeshStays DEF LinkInv
<1> QED BY <1>1, <1>2, <1>3 DEF LinkInv, ChargeInv

(* Each part begins as it should. *)
LEMMA LinkStarts ==
    ASSUME MCInit
    PROVE  LinkInv
BY ExternalStarts, MeshStarts DEF MCInit, LinkInv

(* Whatever an enforcer and its connection do, and whatever FIPS is asked,   *)
(* for any number of payers: once everything is read, the enforcer has what  *)
(* the node has and was sent nothing its hello refuses; and FIPS does what   *)
(* core decided, and never more on the way from one decision to the next     *)
(* (session, send, drop_link; set_access, set_shaping_rate, remove).         *)
THEOREM LinksInSync == MCSpec => []EnforcerInSync
<1>1. MCInit => LinkInv
  BY LinkStarts
<1>2. LinkInv /\ [MCNext]_<<part, vars, meshVars, wireVars, codecVars>> => LinkInv'
  BY LinkStep
<1>3. LinkInv => EnforcerInSync
  BY ExternalShows, MeshShows DEF LinkInv, EnforcerInSync
<1> QED BY <1>1, <1>2, <1>3, PTL DEF MCSpec

(* No payer is charged for more than was carried for it, however often the   *)
(* enforcer's connection breaks, FIPS' counters start over or a reading is   *)
(* old; where payers may come back after they were removed, no counts may be *)
(* on the way from before (read_loop, drop_link, refresh_counters and        *)
(* Meter::observe).                                                          *)
THEOREM ChargedForCarried ==
    ASSUME \A a \in Allowances : a.returns => a.units = 0
    PROVE  MCSpec => []CarriedIsCharged
<1>1. MCInit => LinkInv /\ ChargeInv
  BY LinkStarts, ChargedStarts DEF MCInit, ChargeInv
<1>2. LinkInv /\ ChargeInv /\ [MCNext]_<<part, vars, meshVars, wireVars, codecVars>>
        => LinkInv' /\ ChargeInv'
  BY LinkStep
<1>3. LinkInv /\ ChargeInv => CarriedIsCharged
  <2>1. ExternalInv => Tracked \subseteq Payers
    BY DEF ExternalInv, Types, NodeOK, Tracked
  <2>2. ExternalInv /\ AllCharged => ChargedOnce
    BY <2>1 DEF AllCharged, Charged, Fair, ChargedOnce
  <2> QED BY <2>2, MeshCharges DEF LinkInv, ChargeInv, CarriedIsCharged
<1> QED BY <1>1, <1>2, <1>3, PTL DEF MCSpec

-----------------------------------------------------------------------------
(* Messages: facts. *)

(* What is assumed of the constants. *)
LEMMA CodecConstants ==
    /\ \A m \in Samples : Written!IsMessage(m)
    /\ Unknown \subseteq 14 .. 255 /\ MAX_CHANNEL_UPDATES \in Nat /\ MAX_EDITS \in Nat
<1>1. Written!CodecAssumption
  BY PartsAssumption, Zenon
<1> QED BY <1>1 DEF Written!CodecAssumption

MessageTags == {"Announce", "Offer", "Accept", "ChannelReady", "TopUp", "TopUpReject",
          "RolloverInit", "RolloverReady", "ChannelClose", "CloseAck", "Reject",
          "Disconnect", "Balance"}

Kinds == {"u8", "bytes33", "text", "u32", "mints", "windows", "u16", "bool", "uint", "bytes",
          "bytes32", "updates", "refused", "reason", "bytes64", "close", "note", "id", "outputs"}

LEMMA MessageTypes ==
    DOMAIN Written!MsgType = MessageTags /\ "Funding" \notin MessageTags
BY DEF Written!MsgType, MessageTags

\* Where the kinds of field are used that a decoder treats apart.
KeyOf(type, k, key) ==
    /\ key.kind \in Kinds
    /\ key.kind = "note" => key.default = Written!Value("null", 0)
    /\ key.kind = "updates" => type = "TopUp" /\ k = 1
    /\ key.kind = "refused" => type = "TopUpReject" /\ k = 1

\* The keys f of a type: 1 to n, each of a kind we know.
KeysAre(type, f, n) == DOMAIN f = 1 .. n /\ \A k \in DOMAIN f : KeyOf(type, k, f[k])

LEMMA KeysOfTypes ==
    ASSUME NEW type \in MessageTags
    PROVE  /\ Written!MsgType[type] = Written!KeysOf(type)
           /\ \E n \in 1 .. 7 : KeysAre(type, Written!KeysOf(type), n)
<1> USE DEF Written!KeysOf, Written!MsgType, Written!Need, Written!May, Written!Value, Kinds, KeyOf, KeysAre
<1>1. CASE type = "Announce"
  BY <1>1 DEF Written!Announce
<1>2. CASE type = "Offer"
  BY <1>2 DEF Written!Offer
<1>3. CASE type = "Accept"
  BY <1>3 DEF Written!Accept
<1>4. CASE type = "ChannelReady"
  BY <1>4 DEF Written!ChannelReady
<1>5. CASE type = "TopUp"
  BY <1>5 DEF Written!TopUp
<1>6. CASE type = "TopUpReject"
  BY <1>6 DEF Written!TopUpReject
<1>7. CASE type = "RolloverInit"
  BY <1>7 DEF Written!RolloverInit
<1>8. CASE type = "RolloverReady"
  BY <1>8 DEF Written!RolloverReady
<1>9. CASE type = "ChannelClose"
  BY <1>9 DEF Written!ChannelClose
<1>10. CASE type = "CloseAck"
  BY <1>10 DEF Written!CloseAck
<1>11. CASE type = "Reject"
  BY <1>11 DEF Written!Reject
<1>12. CASE type = "Disconnect"
  BY <1>12 DEF Written!Disconnect
<1>13. CASE type = "Balance"
  BY <1>13 DEF Written!Balance
<1> QED BY <1>1, <1>2, <1>3, <1>4, <1>5, <1>6, <1>7, <1>8, <1>9, <1>10, <1>11, <1>12, <1>13 DEF MessageTags

LEMMA FundingKeys ==
    /\ Written!KeysOf("Funding") = Written!Funding
    /\ DOMAIN Written!Funding = 0 .. 12
    /\ \A k \in 0 .. 12 : KeyOf("Funding", k, Written!Funding[k])
BY DEF Written!Funding, Written!Need, Written!KeysOf, Kinds, KeyOf

(* A value of no kind a field has is read by no decoder. *)
LEMMA NoKind ==
    ASSUME NEW kind \in Kinds, NEW v, v.t \in {"map", "tag"}
    PROVE  ~Written!Of(kind, v)
BY DEF Written!Of, Written!Lists, Kinds

-----------------------------------------------------------------------------
(* What is on the wire of a message, whatever was done to it. *)

AnyValue ==
    {m.f[k] : m \in Samples, k \in 0 .. 12}
    \cup {Written!Value("map", 0), Written!Value("text", "later")}
    \cup {Written!Value("tag", type) : type \in MessageTags \cup {"Later"}}

Pair == (0 .. 255) \X AnyValue

\* The keys of a message, with that of its type; those that need not be
\* written; and what was to be written under each.
TagKey(m)    == IF m.type = "Funding" THEN {} ELSE {0}
KnownKeys(m) == DOMAIN m.f \cup TagKey(m)
Implied(m)   == IF m.type = "Offer" /\ m.f[5].v = FALSE THEN {5} ELSE {}
Meant(m, k)  == IF k \in TagKey(m) THEN Written!Value("tag", m.type) ELSE m.f[k]

\* What was written under a key is there, unless somebody spoiled it.
SaysWhat(m, p, bad) ==
    IF p[1] \in bad THEN
       \/ p[2] = Written!Value("map", 0)
       \/ p[1] \in TagKey(m) /\ p[2] = Written!Value("tag", "Later")
    ELSE p[2] = Meant(m, p[1])

Has(ps, k) == \E i \in 1 .. Len(ps) : ps[i][1] = k

\* Each key of a message is there once, if it was not left out.
CarriedOver(m, ps, out, bad) ==
    /\ ps \in Seq(Pair)
    /\ out \cup bad \subseteq KnownKeys(m) \ Implied(m)
    /\ \A i \in 1 .. Len(ps) : ps[i][1] \in KnownKeys(m) \cup Unknown
    /\ \A i, j \in 1 .. Len(ps) : ps[i][1] = ps[j][1] /\ ps[i][1] \in KnownKeys(m) => i = j
    /\ \A k \in KnownKeys(m) : Has(ps, k) <=> k \notin out \cup Implied(m)
    /\ \A i \in 1 .. Len(ps) : ps[i][1] \in KnownKeys(m) => SaysWhat(m, ps[i], bad)

CodecInv == msg \in Samples /\ CarriedOver(msg, pairs, omitted, spoiled)

(* The keys of a sample are those of its type. *)
LEMMA SampleKeys ==
    ASSUME NEW m \in Samples
    PROVE  /\ m.type \in MessageTags \cup {"Funding"}
           /\ DOMAIN m.f = DOMAIN Written!KeysOf(m.type)
           /\ IF m.type = "Funding" THEN DOMAIN m.f = 0 .. 12
              ELSE \E n \in 1 .. 7 : DOMAIN m.f = 1 .. n
           /\ KnownKeys(m) \subseteq 0 .. 12 /\ TagKey(m) \cap DOMAIN m.f = {}
           /\ \A k \in DOMAIN m.f :
                 /\ KeyOf(m.type, k, Written!KeysOf(m.type)[k])
                 /\ Written!Of(Written!KeysOf(m.type)[k].kind, m.f[k])
                 /\ m.f[k] = Written!Value(m.f[k].t, m.f[k].v)
<1>1. Written!IsMessage(m)
  BY CodecConstants
<1>2. m.type \in MessageTags \cup {"Funding"} /\ DOMAIN m.f = DOMAIN Written!KeysOf(m.type)
  BY <1>1, MessageTypes DEF Written!IsMessage
<1>3. \A k \in DOMAIN m.f : /\ Written!Of(Written!KeysOf(m.type)[k].kind, m.f[k])
                            /\ m.f[k] = Written!Value(m.f[k].t, m.f[k].v)
  BY <1>1 DEF Written!IsMessage
<1>4. CASE m.type = "Funding"
  BY <1>2, <1>3, <1>4, FundingKeys DEF KnownKeys, TagKey
<1>5. CASE m.type \in MessageTags
  <2>1. m.type # "Funding"
    BY <1>5, MessageTypes
  <2>2. PICK n \in 1 .. 7 : KeysAre(m.type, Written!KeysOf(m.type), n)
    BY <1>5, KeysOfTypes
  <2>3. TagKey(m) = {0}
    BY <2>1 DEF TagKey
  <2>4. \A k \in DOMAIN m.f : KeyOf(m.type, k, Written!KeysOf(m.type)[k])
    BY <1>2, <2>2, Zenon DEF KeysAre
  <2>5. DOMAIN m.f = 1 .. n
    BY <1>2, <2>2, Zenon DEF KeysAre
  <2>6. KnownKeys(m) \subseteq 0 .. 12 /\ TagKey(m) \cap DOMAIN m.f = {}
    BY <2>3, <2>5 DEF KnownKeys
  <2>7. IF m.type = "Funding" THEN DOMAIN m.f = 0 .. 12 ELSE \E x \in 1 .. 7 : DOMAIN m.f = 1 .. x
    BY <2>1, <2>5, Zenon
  <2> QED BY <1>2, <1>3, <2>4, <2>6, <2>7, Zenon
<1> QED BY <1>2, <1>4, <1>5

(* Keys nobody knows are not the message's. *)
LEMMA UnknownApart ==
    ASSUME NEW m \in Samples
    PROVE  Unknown \cap KnownKeys(m) = {} /\ Unknown \subseteq 0 .. 255
BY SampleKeys, CodecConstants

(* What may be on the wire. *)
LEMMA ValuesThere ==
    /\ Written!Value("map", 0) \in AnyValue /\ Written!Value("text", "later") \in AnyValue
    /\ Written!Value("tag", "Later") \in AnyValue
    /\ \A m \in Samples : \A k \in KnownKeys(m) : Meant(m, k) \in AnyValue
<1>1. ASSUME NEW m \in Samples, NEW k \in KnownKeys(m) PROVE Meant(m, k) \in AnyValue
  <2>1. CASE k \in TagKey(m)
    <3>1. m.type \in MessageTags
      BY <2>1, SampleKeys DEF TagKey
    <3> QED BY <2>1, <3>1 DEF Meant, AnyValue
  <2>2. CASE k \notin TagKey(m)
    <3>1. k \in 0 .. 12
      BY SampleKeys
    <3> QED BY <2>2, <3>1 DEF Meant, AnyValue
  <2> QED BY <2>1, <2>2
<1>2. /\ Written!Value("map", 0) \in AnyValue /\ Written!Value("text", "later") \in AnyValue
      /\ Written!Value("tag", "Later") \in AnyValue
  BY DEF AnyValue
<1> QED BY <1>1, <1>2

(* A part of a sequence. *)
LEMMA PartOf ==
    ASSUME NEW S, NEW s \in Seq(S), NEW a \in Nat \ {0}, NEW b \in Nat, b <= Len(s), a <= b + 1
    PROVE  /\ SubSeq(s, a, b) \in Seq(S) /\ Len(SubSeq(s, a, b)) = b - a + 1
           /\ \A j \in 1 .. b - a + 1 : SubSeq(s, a, b)[j] = s[a + j - 1]
<1>1. \A i \in a .. b : s[i] \in S
  OBVIOUS
<1>2. /\ SubSeq(s, a, b) \in Seq(S) /\ Len(SubSeq(s, a, b)) = IF a <= b THEN b - a + 1 ELSE 0
      /\ \A j \in 1 .. b - a + 1 : SubSeq(s, a, b)[j] = s[a + j - 1]
  BY <1>1, SubSeqProperties
<1> QED BY <1>2

\* t is s with x at i, and s without what it has there.
WithOne(t, s, i, x) ==
    /\ Len(t) = Len(s) + 1 /\ t[i] = x
    /\ \A j \in 1 .. i - 1 : t[j] = s[j]
    /\ \A j \in i + 1 .. Len(s) + 1 : t[j] = s[j - 1]
WithoutOne(t, s, i) ==
    /\ Len(t) = Len(s) - 1
    /\ \A j \in 1 .. i - 1 : t[j] = s[j]
    /\ \A j \in i .. Len(s) - 1 : t[j] = s[j + 1]

(* A sequence with one more. *)
LEMMA Inserted ==
    ASSUME NEW S, NEW s \in Seq(S), NEW x \in S, NEW i \in 1 .. Len(s) + 1,
           NEW t, t = Written!InsertAt(s, i, x)
    PROVE  t \in Seq(S) /\ WithOne(t, s, i, x)
<1> USE DEF WithOne
<1> DEFINE a == SubSeq(s, 1, i - 1)
           b == SubSeq(s, i, Len(s))
<1>1. a \in Seq(S) /\ Len(a) = i - 1 /\ \A j \in 1 .. i - 1 : a[j] = s[j]
  BY PartOf
<1>2. b \in Seq(S) /\ Len(b) = Len(s) - i + 1 /\ \A j \in 1 .. Len(s) - i + 1 : b[j] = s[i + j - 1]
  BY PartOf
<1>3. t = (a \o <<x>>) \o b
  BY DEF Written!InsertAt
<1> HIDE DEF a, b
<1>4. /\ a \o <<x>> \in Seq(S) /\ Len(a \o <<x>>) = i
      /\ \A j \in 1 .. i - 1 : (a \o <<x>>)[j] = a[j]
      /\ (a \o <<x>>)[i] = x
  BY <1>1
<1>5. t \in Seq(S) /\ Len(t) = Len(s) + 1
  BY <1>2, <1>3, <1>4
<1>6. \A j \in 1 .. i : t[j] = (a \o <<x>>)[j]
  BY <1>2, <1>3, <1>4
<1>7. \A j \in i + 1 .. Len(s) + 1 : t[j] = b[j - i]
  BY <1>2, <1>3, <1>4
<1> QED BY <1>1, <1>2, <1>4, <1>5, <1>6, <1>7

(* A sequence with one less. *)
LEMMA RemovedOne ==
    ASSUME NEW S, NEW s \in Seq(S), NEW i \in 1 .. Len(s), NEW t, t = Written!RemoveAt(s, i)
    PROVE  t \in Seq(S) /\ WithoutOne(t, s, i)
<1> USE DEF WithoutOne
<1> DEFINE a == SubSeq(s, 1, i - 1)
           b == SubSeq(s, i + 1, Len(s))
<1>1. a \in Seq(S) /\ Len(a) = i - 1 /\ \A j \in 1 .. i - 1 : a[j] = s[j]
  BY PartOf
<1>2. b \in Seq(S) /\ Len(b) = Len(s) - i /\ \A j \in 1 .. Len(s) - i : b[j] = s[(i + 1) + j - 1]
  BY PartOf
<1>3. t = a \o b
  BY DEF Written!RemoveAt
<1> HIDE DEF a, b
<1>4. t \in Seq(S) /\ Len(t) = Len(s) - 1
  <2>1. Len(s) \in Nat
    OBVIOUS
  <2>2. a \in Seq(S) /\ b \in Seq(S)
    BY <1>1, <1>2
  <2>3. t \in Seq(S) /\ Len(t) = Len(a) + Len(b)
    BY ONLY <1>3, <2>2
  <2> QED BY <1>1, <1>2, <2>1, <2>3
<1>5. \A j \in 1 .. i - 1 : t[j] = a[j]
  BY <1>1, <1>2, <1>3
<1>6. \A j \in i .. Len(s) - 1 : t[j] = b[j - i + 1]
  BY <1>1, <1>2, <1>3
<1>7. \A j \in i .. Len(s) - 1 : t[j] = s[j + 1]
  <2> SUFFICES ASSUME NEW j \in i .. Len(s) - 1 PROVE t[j] = s[j + 1]
    OBVIOUS
  <2>1. j - i + 1 \in 1 .. Len(s) - i /\ (i + 1) + (j - i + 1) - 1 = j + 1
    OBVIOUS
  <2> QED BY <1>2, <1>6, <2>1
<1> QED BY <1>1, <1>4, <1>5, <1>7

(* A key of a later version changes nothing of the message. *)
LEMMA ExtendKeeps ==
    ASSUME NEW m \in Samples, NEW ps, NEW out, NEW bad, CarriedOver(m, ps, out, bad),
           NEW i \in 1 .. Len(ps) + 1, NEW k \in Unknown,
           NEW t, t = Written!InsertAt(ps, i, <<k, Written!Value("text", "later")>>)
    PROVE  CarriedOver(m, t, out, bad)
<1> DEFINE x == <<k, Written!Value("text", "later")>>
<1>1. ps \in Seq(Pair) /\ Len(ps) \in Nat
  BY DEF CarriedOver
<1>2. x \in Pair /\ x[1] \notin KnownKeys(m)
  BY UnknownApart, ValuesThere DEF Pair
<1> HIDE DEF x
<1>3. /\ t \in Seq(Pair) /\ Len(t) = Len(ps) + 1 /\ t[i] = x
      /\ \A j \in 1 .. i - 1 : t[j] = ps[j]
      /\ \A j \in i + 1 .. Len(ps) + 1 : t[j] = ps[j - 1]
  <2>1. t = Written!InsertAt(ps, i, x) /\ x \in Pair
    BY <1>2 DEF x
  <2>2. i \in 1 .. Len(ps) + 1
    OBVIOUS
  <2>3. t \in Seq(Pair) /\ WithOne(t, ps, i, x)
    BY ONLY <1>1, <2>1, <2>2, Inserted, Zenon
  <2> QED BY <2>3 DEF WithOne
<1> DEFINE back(j) == IF j < i THEN j ELSE j - 1
<1>4. ASSUME NEW j \in 1 .. Len(t), t[j][1] \in KnownKeys(m)
      PROVE  j # i /\ back(j) \in 1 .. Len(ps) /\ t[j] = ps[back(j)]
  <2>1. j # i
    BY <1>2, <1>3, <1>4
  <2>2. CASE j < i
    <3>1. j \in 1 .. i - 1 /\ j \in 1 .. Len(ps)
      BY <1>1, <2>2
    <3> QED BY <1>3, <2>1, <2>2, <3>1
  <2>3. CASE j > i
    <3>1. j \in i + 1 .. Len(ps) + 1 /\ j - 1 \in 1 .. Len(ps) /\ ~(j < i)
      BY <1>1, <1>3, <2>3
    <3> QED BY <1>3, <2>1, <3>1
  <2> QED BY <2>1, <2>2, <2>3
<1>5. ASSUME NEW j \in 1 .. Len(ps)
      PROVE  \E l \in 1 .. Len(t) : t[l] = ps[j]
  <2>1. CASE j < i
    <3>1. j \in 1 .. i - 1 /\ j \in 1 .. Len(t)
      BY <1>1, <1>3, <2>1
    <3> QED BY <1>3, <3>1
  <2>2. CASE ~(j < i)
    <3>1. j + 1 \in i + 1 .. Len(ps) + 1 /\ j + 1 \in 1 .. Len(t) /\ (j + 1) - 1 = j
      BY <1>1, <1>3, <2>2
    <3> QED BY <1>3, <3>1
  <2> QED BY <2>1, <2>2
<1>6. \A a, b \in 1 .. Len(t) : t[a][1] = t[b][1] /\ t[a][1] \in KnownKeys(m) => a = b
  <2> SUFFICES ASSUME NEW a \in 1 .. Len(t), NEW b \in 1 .. Len(t), t[a][1] = t[b][1],
                      t[a][1] \in KnownKeys(m)
               PROVE  a = b
    OBVIOUS
  <2>1. /\ a # i /\ back(a) \in 1 .. Len(ps) /\ t[a] = ps[back(a)]
        /\ b # i /\ back(b) \in 1 .. Len(ps) /\ t[b] = ps[back(b)]
    BY <1>4
  <2>2. back(a) = back(b)
    BY <2>1, Zenon DEF CarriedOver
  <2> QED BY <2>1, <2>2
<1> HIDE DEF back
<1>7. ASSUME NEW c \in KnownKeys(m)
      PROVE  Has(t, c) <=> Has(ps, c)
  <2>1. ASSUME NEW j \in 1 .. Len(t), t[j][1] = c PROVE Has(ps, c)
    <3>1. back(j) \in 1 .. Len(ps) /\ t[j] = ps[back(j)]
      BY <1>4, <2>1
    <3> QED BY <2>1, <3>1, Zenon DEF Has
  <2>2. ASSUME NEW j \in 1 .. Len(ps), ps[j][1] = c PROVE Has(t, c)
    <3>1. PICK l \in 1 .. Len(t) : t[l] = ps[j]
      BY <1>5
    <3> QED BY <2>2, <3>1, Zenon DEF Has
  <2> QED BY <2>1, <2>2, Zenon DEF Has
<1>8. \A j \in 1 .. Len(t) : t[j][1] \in KnownKeys(m) => SaysWhat(m, t[j], bad)
  <2> SUFFICES ASSUME NEW j \in 1 .. Len(t), t[j][1] \in KnownKeys(m)
               PROVE  SaysWhat(m, t[j], bad)
    OBVIOUS
  <2>1. back(j) \in 1 .. Len(ps) /\ t[j] = ps[back(j)]
    BY <1>4
  <2> QED BY <2>1, Zenon DEF CarriedOver
<1>9. \A j \in 1 .. Len(t) : t[j][1] \in KnownKeys(m) \cup Unknown
  <2> SUFFICES ASSUME NEW j \in 1 .. Len(t), t[j][1] \notin KnownKeys(m) PROVE t[j][1] \in Unknown
    OBVIOUS
  <2>1. CASE j = i
    BY <1>3, <2>1 DEF x
  <2>2. CASE j # i
    <3>1. j \in 1 .. i - 1 \/ j \in i + 1 .. Len(ps) + 1
      BY <1>1, <1>3, <2>2
    <3>2. PICK l \in 1 .. Len(ps) : t[j] = ps[l]
      <4>1. CASE j \in 1 .. i - 1
        <5>1. j \in 1 .. Len(ps)
          BY <1>1, <4>1
        <5> QED BY <1>3, <4>1, <5>1
      <4>2. CASE j \in i + 1 .. Len(ps) + 1
        <5>1. j - 1 \in 1 .. Len(ps)
          BY <1>1, <4>2
        <5> QED BY <1>3, <4>2, <5>1
      <4> QED BY <3>1, <4>1, <4>2
    <3>3. ps[l][1] \in KnownKeys(m) \cup Unknown
      BY Zenon DEF CarriedOver
    <3> QED BY <3>2, <3>3
  <2> QED BY <2>1, <2>2
<1> QED BY <1>3, <1>6, <1>7, <1>8, <1>9, Zenon DEF CarriedOver

(* A key that is left out is not there any more. *)
LEMMA OmitKeeps ==
    ASSUME NEW m \in Samples, NEW ps, NEW out, NEW bad, CarriedOver(m, ps, out, bad),
           NEW i \in 1 .. Len(ps), ps[i][1] \in KnownKeys(m),
           NEW t, t = Written!RemoveAt(ps, i)
    PROVE  CarriedOver(m, t, out \cup {ps[i][1]}, bad)
<1> DEFINE lack == ps[i][1]
<1>1. ps \in Seq(Pair) /\ Len(ps) \in Nat
  BY DEF CarriedOver
<1>2. /\ t \in Seq(Pair) /\ Len(t) = Len(ps) - 1
      /\ \A j \in 1 .. i - 1 : t[j] = ps[j]
      /\ \A j \in i .. Len(ps) - 1 : t[j] = ps[j + 1]
  <2>1. i \in 1 .. Len(ps) /\ t = Written!RemoveAt(ps, i)
    OBVIOUS
  <2>2. t \in Seq(Pair) /\ WithoutOne(t, ps, i)
    BY ONLY <1>1, <2>1, RemovedOne, Zenon
  <2> QED BY <2>2 DEF WithoutOne
<1> DEFINE back(j) == IF j < i THEN j ELSE j + 1
<1>3. ASSUME NEW j \in 1 .. Len(t)
      PROVE  back(j) # i /\ back(j) \in 1 .. Len(ps) /\ t[j] = ps[back(j)]
  <2>1. CASE j < i
    <3>1. j \in 1 .. i - 1 /\ j \in 1 .. Len(ps)
      BY <1>1, <2>1
    <3> QED BY <1>2, <2>1, <3>1
  <2>2. CASE ~(j < i)
    <3>1. j \in i .. Len(ps) - 1 /\ j + 1 \in 1 .. Len(ps) /\ j + 1 # i
      BY <1>1, <1>2, <2>2
    <3> QED BY <1>2, <2>2, <3>1
  <2> QED BY <2>1, <2>2
<1>4. ASSUME NEW j \in 1 .. Len(ps), j # i
      PROVE  \E l \in 1 .. Len(t) : t[l] = ps[j]
  <2>1. CASE j < i
    <3>1. j \in 1 .. i - 1 /\ j \in 1 .. Len(t)
      BY <1>1, <1>2, <2>1
    <3> QED BY <1>2, <3>1
  <2>2. CASE ~(j < i)
    <3>1. j - 1 \in i .. Len(ps) - 1 /\ j - 1 \in 1 .. Len(t) /\ (j - 1) + 1 = j
      BY <1>1, <1>2, <1>4, <2>2
    <3> QED BY <1>2, <3>1
  <2> QED BY <2>1, <2>2
<1>5. \A a, b \in 1 .. Len(t) : t[a][1] = t[b][1] /\ t[a][1] \in KnownKeys(m) => a = b
  <2> SUFFICES ASSUME NEW a \in 1 .. Len(t), NEW b \in 1 .. Len(t), t[a][1] = t[b][1],
                      t[a][1] \in KnownKeys(m)
               PROVE  a = b
    OBVIOUS
  <2>1. /\ back(a) \in 1 .. Len(ps) /\ t[a] = ps[back(a)]
        /\ back(b) \in 1 .. Len(ps) /\ t[b] = ps[back(b)]
    BY <1>3
  <2>2. back(a) = back(b)
    BY <2>1, Zenon DEF CarriedOver
  <2> QED BY <2>1, <2>2
<1> HIDE DEF back
<1>6. ASSUME NEW c \in KnownKeys(m)
      PROVE  Has(t, c) <=> c \notin (out \cup {lack}) \cup Implied(m)
  <2>1. CASE c = lack
    <3>1. ASSUME NEW l \in 1 .. Len(t), t[l][1] = c PROVE FALSE
      <4>1. back(l) # i /\ back(l) \in 1 .. Len(ps) /\ ps[back(l)][1] = ps[i][1]
        BY <1>3, <2>1, <3>1
      <4> QED BY <4>1, Zenon DEF CarriedOver
    <3> QED BY <2>1, <3>1, Zenon DEF Has
  <2>2. CASE c # lack
    <3>1. ASSUME Has(ps, c) PROVE Has(t, c)
      <4>1. PICK j \in 1 .. Len(ps) : ps[j][1] = c
        BY <3>1 DEF Has
      <4>2. j # i
        BY <2>2, <4>1
      <4> QED BY <1>4, <4>1, <4>2, Zenon DEF Has
    <3>2. ASSUME Has(t, c) PROVE Has(ps, c)
      BY <1>3, <3>2, Zenon DEF Has
    <3>3. Has(ps, c) <=> c \notin out \cup Implied(m)
      BY Zenon DEF CarriedOver
    <3> QED BY <2>2, <3>1, <3>2, <3>3
  <2> QED BY <2>1, <2>2
<1>7. \A j \in 1 .. Len(t) : t[j][1] \in KnownKeys(m) => SaysWhat(m, t[j], bad)
  <2> SUFFICES ASSUME NEW j \in 1 .. Len(t), t[j][1] \in KnownKeys(m)
               PROVE  SaysWhat(m, t[j], bad)
    OBVIOUS
  <2>1. back(j) \in 1 .. Len(ps) /\ t[j] = ps[back(j)]
    BY <1>3
  <2> QED BY <2>1, Zenon DEF CarriedOver
<1>8. (out \cup {lack}) \cup bad \subseteq KnownKeys(m) \ Implied(m)
  <2>1. Has(ps, lack)
    BY Zenon DEF Has
  <2>2. lack \notin out \cup Implied(m)
    BY <2>1, Zenon DEF CarriedOver
  <2>3. out \cup bad \subseteq KnownKeys(m) \ Implied(m)
    BY DEF CarriedOver
  <2> QED BY <2>2, <2>3
<1>9. \A j \in 1 .. Len(t) : t[j][1] \in KnownKeys(m) \cup Unknown
  <2> SUFFICES ASSUME NEW j \in 1 .. Len(t) PROVE t[j][1] \in KnownKeys(m) \cup Unknown
    OBVIOUS
  <2>1. back(j) \in 1 .. Len(ps) /\ t[j] = ps[back(j)]
    BY <1>3
  <2> QED BY <2>1, Zenon DEF CarriedOver
<1> QED BY <1>2, <1>5, <1>6, <1>7, <1>8, <1>9, Zenon DEF CarriedOver

(* Two neighbours that change places. *)
LEMMA MoveKeeps ==
    ASSUME NEW m \in Samples, NEW ps, NEW out, NEW bad, CarriedOver(m, ps, out, bad),
           NEW i \in 1 .. Len(ps) - 1,
           NEW t, t = [ps EXCEPT ![i] = ps[i + 1], ![i + 1] = ps[i]]
    PROVE  CarriedOver(m, t, out, bad)
<1>1. ps \in Seq(Pair) /\ Len(ps) \in Nat
  BY DEF CarriedOver
<1>2. /\ t \in Seq(Pair) /\ Len(t) = Len(ps) /\ i \in 1 .. Len(ps) /\ i + 1 \in 1 .. Len(ps)
      /\ t[i] = ps[i + 1] /\ t[i + 1] = ps[i]
      /\ \A j \in 1 .. Len(ps) : j # i /\ j # i + 1 => t[j] = ps[j]
  BY <1>1
<1> DEFINE back(j) == IF j = i THEN i + 1 ELSE IF j = i + 1 THEN i ELSE j
<1>3. \A j \in 1 .. Len(ps) : /\ back(j) \in 1 .. Len(ps) /\ t[j] = ps[back(j)]
                               /\ t[back(j)] = ps[j]
  BY <1>2
<1>4. \A a, b \in 1 .. Len(ps) : back(a) = back(b) => a = b
  BY <1>2
<1> HIDE DEF back
<1>5. \A a, b \in 1 .. Len(t) : t[a][1] = t[b][1] /\ t[a][1] \in KnownKeys(m) => a = b
  <2> SUFFICES ASSUME NEW a \in 1 .. Len(ps), NEW b \in 1 .. Len(ps), t[a][1] = t[b][1],
                      t[a][1] \in KnownKeys(m)
               PROVE  a = b
    BY <1>2
  <2>1. /\ back(a) \in 1 .. Len(ps) /\ t[a] = ps[back(a)]
        /\ back(b) \in 1 .. Len(ps) /\ t[b] = ps[back(b)]
    BY <1>3
  <2>2. back(a) = back(b)
    BY <2>1, Zenon DEF CarriedOver
  <2> QED BY <1>4, <2>2, Zenon
<1>6. ASSUME NEW c \in KnownKeys(m)
      PROVE  Has(t, c) <=> Has(ps, c)
  <2>1. ASSUME NEW j \in 1 .. Len(ps), t[j][1] = c PROVE Has(ps, c)
    BY <1>3, <2>1, Zenon DEF Has
  <2>2. ASSUME NEW j \in 1 .. Len(ps), ps[j][1] = c PROVE Has(t, c)
    <3>1. back(j) \in 1 .. Len(t) /\ t[back(j)] = ps[j]
      BY <1>2, <1>3
    <3> QED BY <2>2, <3>1, Zenon DEF Has
  <2>3. Len(t) = Len(ps)
    BY <1>2
  <2> QED BY <2>1, <2>2, <2>3, Zenon DEF Has
<1>7. \A j \in 1 .. Len(t) : t[j][1] \in KnownKeys(m) => SaysWhat(m, t[j], bad)
  <2> SUFFICES ASSUME NEW j \in 1 .. Len(ps), t[j][1] \in KnownKeys(m)
               PROVE  SaysWhat(m, t[j], bad)
    BY <1>2
  <2>1. back(j) \in 1 .. Len(ps) /\ t[j] = ps[back(j)]
    BY <1>3
  <2>2. ps[back(j)][1] \in KnownKeys(m) => SaysWhat(m, ps[back(j)], bad)
    BY <2>1, Zenon DEF CarriedOver
  <2> QED BY <2>1, <2>2
<1>8. \A j \in 1 .. Len(t) : t[j][1] \in KnownKeys(m) \cup Unknown
  <2> SUFFICES ASSUME NEW j \in 1 .. Len(ps) PROVE t[j][1] \in KnownKeys(m) \cup Unknown
    BY <1>2
  <2>1. back(j) \in 1 .. Len(ps) /\ t[j] = ps[back(j)]
    BY <1>3
  <2>2. ps[back(j)][1] \in KnownKeys(m) \cup Unknown
    BY <2>1, Zenon DEF CarriedOver
  <2> QED BY <2>1, <2>2
<1> QED BY <1>2, <1>5, <1>6, <1>7, <1>8, Zenon DEF CarriedOver

(* A field's value is of no type that spoils one. *)
LEMMA MeantIsOfKind ==
    ASSUME NEW m \in Samples, NEW k \in KnownKeys(m), Meant(m, k).t = "tag"
    PROVE  k \in TagKey(m)
<1> SUFFICES ASSUME k \notin TagKey(m) PROVE FALSE
  OBVIOUS
<1>1. k \in DOMAIN m.f /\ m.f[k].t = "tag"
  BY DEF KnownKeys, Meant
<1>2. /\ Written!KeysOf(m.type)[k].kind \in Kinds
      /\ Written!Of(Written!KeysOf(m.type)[k].kind, m.f[k])
  BY <1>1, SampleKeys, Zenon DEF KeyOf
<1> QED BY <1>1, <1>2, NoKind

(* A value of another type. *)
LEMMA SpoilKeeps ==
    ASSUME NEW m \in Samples, NEW ps, NEW out, NEW bad, CarriedOver(m, ps, out, bad),
           NEW i \in 1 .. Len(ps), ps[i][1] \in KnownKeys(m),
           NEW v, \/ v = Written!Value("map", 0)
                  \/ ps[i][2].t = "tag" /\ v = Written!Value("tag", "Later"),
           NEW t, t = [ps EXCEPT ![i] = <<ps[i][1], v>>]
    PROVE  CarriedOver(m, t, out, bad \cup {ps[i][1]})
<1> DEFINE k == ps[i][1]
<1>1. ps \in Seq(Pair) /\ Len(ps) \in Nat /\ ps[i] \in Pair
  BY DEF CarriedOver
<1>2. v \in AnyValue
  BY ValuesThere
<1>3. <<k, v>> \in Pair
  BY <1>1, <1>2 DEF Pair
<1>4. /\ t \in Seq(Pair) /\ Len(t) = Len(ps) /\ t[i] = <<k, v>>
      /\ \A j \in 1 .. Len(ps) : j # i => t[j] = ps[j]
  BY <1>1, <1>3
<1>5. \A j \in 1 .. Len(ps) : t[j][1] = ps[j][1]
  BY <1>4
<1>6. k \notin out \cup Implied(m) /\ SaysWhat(m, ps[i], bad)
  <2>1. Has(ps, k)
    BY Zenon DEF Has
  <2> QED BY <2>1, Zenon DEF CarriedOver
<1>7. ps[i][2].t = "tag" => k \in TagKey(m)
  <2>1. CASE k \in bad
    <3>1. Written!Value("map", 0).t # "tag"
      BY DEF Written!Value
    <3> QED BY <1>6, <2>1, <3>1 DEF SaysWhat
  <2>2. CASE k \notin bad
    BY <1>6, <2>2, MeantIsOfKind DEF SaysWhat
  <2> QED BY <2>1, <2>2
<1>8. SaysWhat(m, t[i], bad \cup {k})
  BY <1>4, <1>7 DEF SaysWhat
<1>9. \A j \in 1 .. Len(t) : t[j][1] \in KnownKeys(m) => SaysWhat(m, t[j], bad \cup {k})
  <2> SUFFICES ASSUME NEW j \in 1 .. Len(ps), t[j][1] \in KnownKeys(m), j # i
               PROVE  SaysWhat(m, t[j], bad \cup {k})
    BY <1>4, <1>8
  <2>1. t[j] = ps[j] /\ SaysWhat(m, ps[j], bad)
    BY <1>4, Zenon DEF CarriedOver
  <2>2. ps[j][1] # k
    BY <2>1, Zenon DEF CarriedOver
  <2> QED BY <2>1, <2>2 DEF SaysWhat
<1> HIDE DEF k
<1>10. /\ \A a, b \in 1 .. Len(t) : t[a][1] = t[b][1] /\ t[a][1] \in KnownKeys(m) => a = b
       /\ \A c \in KnownKeys(m) : Has(t, c) <=> c \notin out \cup Implied(m)
  <2>1. Len(t) = Len(ps)
    BY <1>4
  <2>2. /\ \A a, b \in 1 .. Len(ps) : ps[a][1] = ps[b][1] /\ ps[a][1] \in KnownKeys(m) => a = b
        /\ \A c \in KnownKeys(m) : Has(ps, c) <=> c \notin out \cup Implied(m)
    BY Zenon DEF CarriedOver
  <2>3. \A c : Has(t, c) <=> Has(ps, c)
    BY <1>5, <2>1, Zenon DEF Has
  <2>4. \A a, b \in 1 .. Len(t) : t[a][1] = t[b][1] /\ t[a][1] \in KnownKeys(m) => a = b
    BY ONLY <1>5, <2>1, <2>2
  <2>5. \A c \in KnownKeys(m) : Has(t, c) <=> c \notin out \cup Implied(m)
    BY ONLY <2>2, <2>3, Zenon
  <2> QED BY <2>4, <2>5
<1>11. out \cup (bad \cup {k}) \subseteq KnownKeys(m) \ Implied(m)
  <2>1. out \cup bad \subseteq KnownKeys(m) \ Implied(m)
    BY DEF CarriedOver
  <2> QED BY <1>6, <2>1 DEF k
<1>12. \A j \in 1 .. Len(t) : t[j][1] \in KnownKeys(m) \cup Unknown
  <2>1. \A j \in 1 .. Len(ps) : ps[j][1] \in KnownKeys(m) \cup Unknown
    BY Zenon DEF CarriedOver
  <2> QED BY <1>4, <1>5, <2>1
<1> QED BY <1>4, <1>9, <1>10, <1>11, <1>12, Zenon DEF CarriedOver, k

(* The fields of a message in the order of their keys. *)
Ordered(f, a, n) == [i \in 1 .. n |-> <<a + i - 1, f[a + i - 1]>>]

LEMMA InOrderIs ==
    \A f : \A a \in Nat, n \in Nat \ {0} :
       DOMAIN f = a .. a + n - 1 =>
       Written!InOrder(f) = Ordered(f, a, n)
<1> SUFFICES ASSUME NEW f, NEW a \in Nat, NEW n \in Nat \ {0}, DOMAIN f = a .. a + n - 1
             PROVE  Written!InOrder(f) = Ordered(f, a, n)
  BY Zenon
<1>1. Written!Max(DOMAIN f) = a + n - 1
  <2>1. a + n - 1 \in DOMAIN f /\ \A y \in DOMAIN f : a + n - 1 >= y
    OBVIOUS
  <2>2. \A x \in DOMAIN f : (\A y \in DOMAIN f : x >= y) => x = a + n - 1
    <3> SUFFICES ASSUME NEW x \in a .. a + n - 1, x >= a + n - 1 PROVE x = a + n - 1
      BY <2>1
    <3> QED OBVIOUS
  <2> HIDE DEF Written!Max
  <2>3. Written!Max(DOMAIN f) = CHOOSE x \in DOMAIN f : \A y \in DOMAIN f : x >= y
    BY Zenon DEF Written!Max
  <2>4. (CHOOSE x \in DOMAIN f : \A y \in DOMAIN f : x >= y) = a + n - 1
    BY ONLY <2>1, <2>2, Zenon
  <2> QED BY <2>3, <2>4
<1>2. Written!Min(DOMAIN f) = a
  <2>1. a \in DOMAIN f /\ \A y \in DOMAIN f : a <= y
    OBVIOUS
  <2>2. \A x \in DOMAIN f : (\A y \in DOMAIN f : x <= y) => x = a
    OBVIOUS
  <2> HIDE DEF Written!Min
  <2>3. Written!Min(DOMAIN f) = CHOOSE x \in DOMAIN f : \A y \in DOMAIN f : x <= y
    BY Zenon DEF Written!Min
  <2>4. (CHOOSE x \in DOMAIN f : \A y \in DOMAIN f : x <= y) = a
    BY ONLY <2>1, <2>2, Zenon
  <2> QED BY <2>3, <2>4
<1>3. 1 .. (a + n - 1) - a + 1 = 1 .. n
  OBVIOUS
<1>4. Written!InOrder(f) = [i \in 1 .. (a + n - 1) - a + 1 |-> <<a + i - 1, f[a + i - 1]>>]
  BY <1>1, <1>2, Zenon DEF Written!InOrder
<1> QED BY ONLY <1>3, <1>4 DEF Ordered

\* What is written of a message behind its tag.
Fielded(m, r) ==
    /\ r \in Seq(Pair)
    /\ \A i \in 1 .. Len(r) : r[i][1] \in DOMAIN m.f \ Implied(m) /\ r[i][2] = m.f[r[i][1]]
    /\ \A i, j \in 1 .. Len(r) : r[i][1] = r[j][1] => i = j
    /\ \A k \in DOMAIN m.f \ Implied(m) : Has(r, k)

Rest(m) ==
    IF m.type = "Offer" /\ m.f[5].v = FALSE THEN Written!RemoveAt(Written!InOrder(m.f), 5)
    ELSE Written!InOrder(m.f)

LEMMA RestFielded ==
    ASSUME NEW m \in Samples
    PROVE  Fielded(m, Rest(m))
<1>1. PICK a \in {0, 1}, n \in 1 .. 13 : DOMAIN m.f = a .. a + n - 1
  <2>1. CASE m.type = "Funding"
    <3>1. DOMAIN m.f = 0 .. 0 + 13 - 1
      BY <2>1, SampleKeys
    <3> QED BY <3>1
  <2>2. CASE m.type # "Funding"
    <3>1. PICK n \in 1 .. 7 : DOMAIN m.f = 1 .. n
      BY <2>2, SampleKeys
    <3>2. 1 .. n = 1 .. 1 + n - 1 /\ n \in 1 .. 13
      OBVIOUS
    <3> QED BY <3>1, <3>2
  <2> QED BY <2>1, <2>2
<1> DEFINE f == Written!InOrder(m.f)
<1>2. f = [i \in 1 .. n |-> <<a + i - 1, m.f[a + i - 1]>>]
  <2>1. a \in Nat /\ n \in Nat \ {0}
    OBVIOUS
  <2>2. f = Ordered(m.f, a, n)
    BY ONLY <1>1, <2>1, InOrderIs, Zenon DEF f
  <2> QED BY <2>2 DEF Ordered
<1> HIDE DEF f
<1>3. ASSUME NEW i \in 1 .. n
      PROVE  f[i] = <<a + i - 1, m.f[a + i - 1]>> /\ f[i] \in Pair /\ a + i - 1 \in DOMAIN m.f
  <2>1. a + i - 1 \in DOMAIN m.f
    BY <1>1
  <2>2. a + i - 1 \in 0 .. 12
    BY <2>1, SampleKeys DEF KnownKeys
  <2>3. <<a + i - 1, m.f[a + i - 1]>> \in Pair
    BY <2>2 DEF Pair, AnyValue
  <2> QED BY <1>2, <2>1, <2>3
<1>4. f \in Seq(Pair) /\ Len(f) = n
  <2>1. \A i \in 1 .. n : f[i] \in Pair
    BY <1>3
  <2>2. f \in [1 .. n -> Pair]
    BY <1>2, <2>1
  <2> QED BY <2>2
<1>5. \A i, j \in 1 .. n : f[i][1] = f[j][1] => i = j
  BY <1>3
<1>6. \A k \in DOMAIN m.f : k - a + 1 \in 1 .. n /\ f[k - a + 1][1] = k
  BY <1>1, <1>3
<1>7. CASE Implied(m) = {}
  <2>1. Rest(m) = f
    BY <1>7, Zenon DEF Rest, Implied, f
  <2>2. \A i \in 1 .. n : f[i][1] \in DOMAIN m.f /\ f[i][2] = m.f[f[i][1]]
    BY <1>3
  <2> QED BY <1>4, <1>5, <1>6, <1>7, <2>1, <2>2 DEF Fielded, Has
<1>8. CASE Implied(m) = {5} /\ Rest(m) = Written!RemoveAt(f, 5) /\ m.type = "Offer"
  <2>1. a = 1 /\ n = 7
    <3>1. Written!KeysOf("Offer") = Written!Offer
      BY DEF Written!KeysOf, Written!MsgType
    <3>2. DOMAIN m.f = 1 .. 7
      BY <1>8, <3>1, SampleKeys DEF Written!Offer
    <3>3. \A x : x \in a .. a + n - 1 <=> x \in 1 .. 7
      BY <1>1, <3>2
    <3>4. a \in 1 .. 7
      <4>1. a \in a .. a + n - 1
        OBVIOUS
      <4> QED BY <3>3, <4>1
    <3>5. a + n - 1 \in 1 .. 7
      <4>1. a + n - 1 \in a .. a + n - 1
        OBVIOUS
      <4> QED BY <3>3, <4>1
    <3>6. 1 \in a .. a + n - 1 /\ 7 \in a .. a + n - 1
      <4>1. 1 \in 1 .. 7 /\ 7 \in 1 .. 7
        OBVIOUS
      <4> QED BY <3>3, <4>1, Zenon
    <3> QED BY <3>4, <3>5, <3>6
  <2> DEFINE r == Rest(m)
  <2>2. /\ r \in Seq(Pair) /\ Len(r) = 6
        /\ \A j \in 1 .. 4 : r[j] = f[j]
        /\ \A j \in 5 .. 6 : r[j] = f[j + 1]
    <3>1. 5 \in 1 .. Len(f) /\ r = Written!RemoveAt(f, 5) /\ f \in Seq(Pair)
      BY <1>4, <1>8, <2>1
    <3> HIDE DEF r
    <3>2. r \in Seq(Pair) /\ WithoutOne(r, f, 5)
      BY ONLY <3>1, RemovedOne, Zenon
    <3> QED BY <1>4, <2>1, <3>2 DEF WithoutOne
  <2> HIDE DEF r
  <2>3. \A i \in 1 .. 7 : f[i] = <<i, m.f[i]>> /\ i \in DOMAIN m.f
    BY <1>3, <2>1
  <2>4. \A j \in 1 .. 6 : r[j] = IF j < 5 THEN <<j, m.f[j]>> ELSE <<j + 1, m.f[j + 1]>>
    <3>1. ASSUME NEW j \in 1 .. 4 PROVE r[j] = <<j, m.f[j]>>
      BY <2>2, <2>3
    <3>2. ASSUME NEW j \in 5 .. 6 PROVE r[j] = <<j + 1, m.f[j + 1]>>
      <4>1. j + 1 \in 1 .. 7 /\ r[j] = f[j + 1]
        BY <2>2
      <4> QED BY <2>3, <4>1
    <3> QED BY <3>1, <3>2
  <2>5. \A i \in 1 .. 6 : r[i][1] \in DOMAIN m.f \ {5} /\ r[i][2] = m.f[r[i][1]]
    BY <2>3, <2>4
  <2>6. \A i, j \in 1 .. 6 : r[i][1] = r[j][1] => i = j
    BY <2>4
  <2>7. ASSUME NEW k \in DOMAIN m.f \ {5}
        PROVE  \E i \in 1 .. 6 : r[i][1] = k
    <3>1. k \in 1 .. 7
      BY <1>1, <2>1
    <3>2. CASE k < 5
      <4>1. k \in 1 .. 6 /\ r[k][1] = k
        BY <2>4, <3>1, <3>2
      <4> QED BY <4>1
    <3>3. CASE k > 5
      <4>1. k - 1 \in 1 .. 6 /\ r[k - 1][1] = k
        BY <2>4, <3>1, <3>3
      <4> QED BY <4>1
    <3> QED BY <3>1, <3>2, <3>3
  <2> QED BY <1>8, <2>2, <2>5, <2>6, <2>7 DEF Fielded, Has, r
<1> QED BY <1>7, <1>8 DEF Implied, Rest, f

(* What a node writes of a message is all of it. *)
LEMMA EncodeCarries ==
    ASSUME NEW m \in Samples
    PROVE  CarriedOver(m, Written!Encode(m), {}, {})
<1> DEFINE r == Rest(m)
           t == Written!Encode(m)
<1>1. Fielded(m, r)
  BY RestFielded
<1>2. t = Written!Tag(m.type) \o r
  BY Zenon DEF Written!Encode, Rest
<1> HIDE DEF r, t
<1>3. r \in Seq(Pair)
  BY <1>1 DEF Fielded
<1>4. CASE TagKey(m) = {}
  <2>1. t = r
    BY <1>2, <1>3, <1>4 DEF Written!Tag, TagKey
  <2>2. KnownKeys(m) = DOMAIN m.f
    BY <1>4 DEF KnownKeys
  <2>3. \A i \in 1 .. Len(r) : SaysWhat(m, r[i], {})
    BY <1>1, <1>4 DEF Fielded, SaysWhat, Meant
  <2> QED BY <1>1, <2>1, <2>2, <2>3 DEF Fielded, CarriedOver, Has, t
<1>5. CASE TagKey(m) = {0}
  <2> DEFINE h == <<0, Written!Value("tag", m.type)>>
  <2>1. m.type # "Funding" /\ t = <<h>> \o r
    BY <1>2, <1>5 DEF Written!Tag, TagKey
  <2>2. h \in Pair /\ h[1] = 0 /\ h[2] = Meant(m, 0) /\ 0 \notin DOMAIN m.f
    <3>1. m.type \in MessageTags
      BY <2>1, SampleKeys
    <3>2. 0 \notin DOMAIN m.f
      BY <1>5, SampleKeys
    <3> QED BY <1>5, <3>1, <3>2 DEF Pair, AnyValue, Meant
  <2> HIDE DEF h
  <2>3. /\ t \in Seq(Pair) /\ Len(t) = Len(r) + 1 /\ t[1] = h /\ Len(r) \in Nat
        /\ \A i \in 1 .. Len(r) : t[i + 1] = r[i]
    BY <1>3, <2>1, <2>2
  <2>4. KnownKeys(m) = DOMAIN m.f \cup {0} /\ 0 \notin Implied(m)
    BY <1>5 DEF KnownKeys, Implied
  <2>5. ASSUME NEW i \in 1 .. Len(t)
        PROVE  IF i = 1 THEN t[i] = h ELSE i - 1 \in 1 .. Len(r) /\ t[i] = r[i - 1]
    <3>1. CASE i # 1
      <4>1. i - 1 \in 1 .. Len(r) /\ (i - 1) + 1 = i
        BY <2>3, <3>1
      <4> QED BY <2>3, <3>1, <4>1
    <3> QED BY <2>3, <3>1
  <2>6. \A i, j \in 1 .. Len(t) : t[i][1] = t[j][1] => i = j
    <3> SUFFICES ASSUME NEW i \in 1 .. Len(t), NEW j \in 1 .. Len(t), t[i][1] = t[j][1]
                 PROVE  i = j
      OBVIOUS
    <3>1. \A l \in 1 .. Len(r) : r[l][1] \in DOMAIN m.f
      BY <1>1 DEF Fielded
    <3>2. \A a, b \in 1 .. Len(r) : r[a][1] = r[b][1] => a = b
      BY <1>1 DEF Fielded
    <3>3. CASE i = 1
      BY <2>2, <2>5, <3>1, <3>3
    <3>4. CASE j = 1
      BY <2>2, <2>5, <3>1, <3>4
    <3>5. CASE i # 1 /\ j # 1
      <4>1. /\ i - 1 \in 1 .. Len(r) /\ t[i] = r[i - 1]
            /\ j - 1 \in 1 .. Len(r) /\ t[j] = r[j - 1]
        BY <2>5, <3>5
      <4>2. r[i - 1][1] = r[j - 1][1]
        BY <4>1
      <4>3. i - 1 = j - 1
        BY ONLY <3>2, <4>1, <4>2, Zenon
      <4> QED BY <4>3
    <3> QED BY <3>3, <3>4, <3>5
  <2>7. ASSUME NEW k \in KnownKeys(m)
        PROVE  Has(t, k) <=> k \notin Implied(m)
    <3>1. CASE k = 0
      <4>1. 1 \in 1 .. Len(t) /\ t[1][1] = 0
        BY <2>2, <2>3
      <4> QED BY <2>4, <3>1, <4>1 DEF Has
    <3>2. CASE k # 0 /\ k \in Implied(m)
      BY <1>1, <2>2, <2>5, <3>2 DEF Has, Fielded
    <3>3. CASE k # 0 /\ k \notin Implied(m)
      <4>1. PICK i \in 1 .. Len(r) : r[i][1] = k
        BY <1>1, <2>4, <3>3 DEF Fielded, Has
      <4>2. i + 1 \in 1 .. Len(t) /\ t[i + 1][1] = k
        BY <2>3, <4>1
      <4> QED BY <3>3, <4>2 DEF Has
    <3> QED BY <3>1, <3>2, <3>3
  <2>8. ASSUME NEW i \in 1 .. Len(t)
        PROVE  SaysWhat(m, t[i], {})
    <3>1. CASE i = 1
      BY <2>2, <2>3, <3>1 DEF SaysWhat
    <3>2. CASE i # 1
      <4>1. t[i][1] \in DOMAIN m.f /\ t[i][2] = m.f[t[i][1]]
        BY <1>1, <2>5, <3>2 DEF Fielded
      <4>2. t[i][1] \notin TagKey(m)
        BY <1>5, <2>2, <4>1
      <4> QED BY <4>1, <4>2 DEF SaysWhat, Meant
    <3> QED BY <3>1, <3>2
  <2>9. \A i \in 1 .. Len(t) : t[i][1] \in KnownKeys(m)
    <3> SUFFICES ASSUME NEW i \in 1 .. Len(t) PROVE t[i][1] \in KnownKeys(m)
      OBVIOUS
    <3>1. i # 1 => t[i][1] \in DOMAIN m.f
      BY <1>1, <2>5 DEF Fielded
    <3> QED BY <2>2, <2>3, <2>4, <3>1
  <2> QED BY <2>3, <2>6, <2>7, <2>8, <2>9 DEF CarriedOver, t
<1> QED BY <1>4, <1>5 DEF TagKey

(* At the start it is. *)
LEMMA CodecStart == Written!Init => CodecInv
BY EncodeCarries, Zenon DEF Written!Init, CodecInv

(* Whatever is done to it on the way, each known key is there once, with what  *)
(* was written, or is known to be left out or spoiled.                         *)
LEMMA CodecStep == CodecInv /\ Written!Next => CodecInv'
<1> SUFFICES ASSUME CodecInv, Written!Next PROVE CodecInv'
  OBVIOUS
<1> DEFINE kept == msg' \in Samples /\ CarriedOver(msg, pairs', omitted', spoiled')
<1>0. CarriedOver(msg, pairs, omitted, spoiled) /\ msg \in Samples
  BY DEF CodecInv
<1>1. ASSUME NEW i \in 1 .. Len(pairs) + 1, NEW k \in Unknown, Written!Extend(i, k)
      PROVE  kept
  <2>1. /\ pairs' = Written!InsertAt(pairs, i, <<k, Written!Value("text", "later")>>)
        /\ msg' = msg /\ omitted' = omitted /\ spoiled' = spoiled
    BY <1>1 DEF Written!Extend, Written!Edit
  <2>2. CarriedOver(msg, pairs', omitted, spoiled)
    BY <1>0, <2>1, ExtendKeeps, Zenon
  <2> QED BY <1>0, <2>1, <2>2
<1>2. ASSUME NEW i \in 1 .. Len(pairs), Written!Omit(i)
      PROVE  kept
  <2>1. /\ pairs[i][1] \notin Unknown /\ pairs' = Written!RemoveAt(pairs, i)
        /\ omitted' = omitted \cup {pairs[i][1]} /\ msg' = msg /\ spoiled' = spoiled
    BY <1>2 DEF Written!Omit, Written!Edit
  <2>2. pairs[i][1] \in KnownKeys(msg)
    BY <1>0, <2>1 DEF CarriedOver
  <2>3. CarriedOver(msg, pairs', omitted \cup {pairs[i][1]}, spoiled)
    BY <1>0, <2>1, <2>2, OmitKeeps, Zenon
  <2> QED BY <1>0, <2>1, <2>3
<1>3. ASSUME NEW i \in 1 .. Len(pairs), Written!Spoil(i)
      PROVE  kept
  <2>1. /\ pairs[i][1] \notin Unknown
        /\ spoiled' = spoiled \cup {pairs[i][1]} /\ msg' = msg /\ omitted' = omitted
    BY <1>3 DEF Written!Spoil, Written!Edit
  <2>2. PICK v \in {Written!Value("map", 0)}
                   \cup IF pairs[i][2].t = "tag" THEN {Written!Value("tag", "Later")} ELSE {} :
           pairs' = [pairs EXCEPT ![i] = <<pairs[i][1], v>>]
    BY <1>3 DEF Written!Spoil
  <2>3. \/ v = Written!Value("map", 0)
        \/ pairs[i][2].t = "tag" /\ v = Written!Value("tag", "Later")
    BY <2>2
  <2>4. pairs[i][1] \in KnownKeys(msg)
    BY <1>0, <2>1 DEF CarriedOver
  <2>5. CarriedOver(msg, pairs', omitted, spoiled \cup {pairs[i][1]})
    BY <1>0, <2>2, <2>3, <2>4, SpoilKeeps, Zenon
  <2> QED BY <1>0, <2>1, <2>5
<1>4. ASSUME NEW i \in 1 .. Len(pairs) - 1, Written!Move(i)
      PROVE  kept
  <2>1. /\ pairs' = [pairs EXCEPT ![i] = pairs[i + 1], ![i + 1] = pairs[i]]
        /\ msg' = msg /\ omitted' = omitted /\ spoiled' = spoiled
    BY <1>4 DEF Written!Move, Written!Edit
  <2>2. CarriedOver(msg, pairs', omitted, spoiled)
    BY <1>0, <2>1, MoveKeeps, Zenon
  <2> QED BY <1>0, <2>1, <2>2
<1>5. kept
  BY <1>1, <1>2, <1>3, <1>4, Zenon DEF Written!Next
<1>6. msg' = msg
  BY DEF Written!Next, Written!Extend, Written!Omit, Written!Move, Written!Spoil, Written!Edit
<1> QED BY <1>5, <1>6 DEF CodecInv

-----------------------------------------------------------------------------
(* What is read of it. *)

Keys(m) == Written!KeysOf(m.type)

Decoding(m, ps) == IF m.type = "Funding" THEN Written!DecodeFunding(ps) ELSE Written!Decode(ps)

\* What was written under a key is what its field takes.
Takes(m, k) == Written!Reads(Keys(m)[k].kind, m.f[k])

(* Under a known key there is one pair, or none. *)
LEMMA AtIs ==
    ASSUME NEW m \in Samples, NEW ps, NEW out, NEW bad, CarriedOver(m, ps, out, bad),
           NEW k \in KnownKeys(m)
    PROVE  IF k \in out \cup Implied(m) THEN Written!At(ps, k) = {}
           ELSE \E i \in 1 .. Len(ps) :
                   Written!At(ps, k) = {i} /\ ps[i][1] = k /\ SaysWhat(m, ps[i], bad)
<1>1. ps \in Seq(Pair) /\ DOMAIN ps = 1 .. Len(ps)
  BY DEF CarriedOver
<1>2. CASE k \in out \cup Implied(m)
  <2>1. ~Has(ps, k)
    BY <1>2, Zenon DEF CarriedOver
  <2> QED BY <1>1, <1>2, <2>1 DEF Has, Written!At
<1>3. CASE k \notin out \cup Implied(m)
  <2>1. Has(ps, k)
    BY <1>3, Zenon DEF CarriedOver
  <2>2. PICK i \in 1 .. Len(ps) : ps[i][1] = k
    BY <2>1 DEF Has
  <2>3. \A j \in 1 .. Len(ps) : ps[j][1] = k => j = i
    BY <2>2, Zenon DEF CarriedOver
  <2>4. SaysWhat(m, ps[i], bad)
    BY <2>2, Zenon DEF CarriedOver
  <2>5. Written!At(ps, k) = {i}
    BY <1>1, <2>2, <2>3 DEF Written!At
  <2> QED BY <1>3, <2>2, <2>4, <2>5
<1> QED BY <1>2, <1>3

(* The one of a set is its least and its greatest. *)
LEMMA OnlyOne ==
    ASSUME NEW i \in Nat
    PROVE  Written!Min({i}) = i /\ Written!Max({i}) = i
BY DEF Written!Min, Written!Max

(* The one key that need not be written of a message has its default. *)
LEMMA ImpliedIsDefault ==
    ASSUME NEW m \in Samples, NEW k \in Implied(m)
    PROVE  /\ k \in DOMAIN m.f /\ ~Keys(m)[k].need /\ m.f[k] = Keys(m)[k].default
           /\ Keys(m)[k].kind = "bool" /\ Takes(m, k)
<1>1. m.type = "Offer" /\ k = 5 /\ m.f[5].v = FALSE
  BY DEF Implied
<1>2. Keys(m) = Written!Offer
  BY <1>1 DEF Keys, Written!KeysOf, Written!MsgType
<1>3. 5 \in DOMAIN Written!Offer /\ Written!Offer[5] = Written!May("bool", Written!Value("bool", FALSE))
  BY DEF Written!Offer
<1>4. 5 \in DOMAIN m.f /\ Written!Of("bool", m.f[5]) /\ m.f[5] = Written!Value(m.f[5].t, m.f[5].v)
  <2>1. 5 \in DOMAIN m.f
    BY <1>2, <1>3, SampleKeys, Zenon DEF Keys
  <2>2. Written!KeysOf(m.type)[5].kind = "bool"
    BY <1>2, <1>3 DEF Written!May, Keys
  <2>3. /\ Written!Of(Written!KeysOf(m.type)[5].kind, m.f[5])
        /\ m.f[5] = Written!Value(m.f[5].t, m.f[5].v)
    BY <2>1, SampleKeys, ZenonT(30)
  <2> QED BY <2>1, <2>2, <2>3
<1>5. m.f[5].t = "bool"
  BY <1>4 DEF Written!Of
<1>6. m.f[5] = Written!Value("bool", FALSE)
  BY <1>1, <1>4, <1>5
<1>7. Keys(m)[5].kind = "bool" /\ ~Keys(m)[5].need /\ Keys(m)[5].default = Written!Value("bool", FALSE)
  BY <1>2, <1>3 DEF Written!May
<1>8. Takes(m, 5)
  BY <1>4, <1>7 DEF Takes, Written!Reads
<1> QED BY <1>1, <1>4, <1>6, <1>7, <1>8

\* Whether a message is refused for a field that is missing, or is not what it should be.
Amiss(m, out, bad) ==
    \E k \in DOMAIN m.f : IF k \in out THEN Keys(m)[k].need ELSE k \in bad \/ ~Takes(m, k)

(* A value that was spoiled is taken for no field. *)
LEMMA SpoiledIsRefused ==
    ASSUME NEW m \in Samples, NEW k \in DOMAIN m.f, NEW p, NEW bad, p[1] = k, k \in bad,
           SaysWhat(m, p, bad)
    PROVE  ~Written!Reads(Keys(m)[k].kind, p[2])
<1>1. p[2] = Written!Value("map", 0)
  <2>1. k \notin TagKey(m)
    BY SampleKeys
  <2> QED BY <2>1 DEF SaysWhat
<1>2. p[2].t = "map"
  BY <1>1 DEF Written!Value
<1>3. Keys(m)[k].kind \in Kinds
  BY SampleKeys, Zenon DEF Keys, KeyOf
<1> QED BY <1>2, <1>3, NoKind DEF Written!Reads

(* A map is wrong for the keys it lacks, or holds with another type. *)
LEMMA WrongIs ==
    ASSUME NEW m \in Samples, NEW ps, NEW out, NEW bad, CarriedOver(m, ps, out, bad)
    PROVE  Written!Wrong(Keys(m), ps) <=> Amiss(m, out, bad)
<1>1. /\ DOMAIN Keys(m) = DOMAIN m.f /\ DOMAIN ps = 1 .. Len(ps)
      /\ out \cap Implied(m) = {} /\ bad \cap Implied(m) = {} /\ DOMAIN m.f \subseteq KnownKeys(m)
      /\ \A k \in DOMAIN m.f : k \notin TagKey(m)
  <2>1. out \cup bad \subseteq KnownKeys(m) \ Implied(m) /\ DOMAIN ps = 1 .. Len(ps)
    BY DEF CarriedOver
  <2> QED BY <2>1, SampleKeys DEF Keys, KnownKeys
<1>2. ASSUME NEW i \in 1 .. Len(ps), ps[i][1] \in DOMAIN m.f,
             ~Written!Reads(Keys(m)[ps[i][1]].kind, ps[i][2])
      PROVE  Amiss(m, out, bad)
  <2> DEFINE k == ps[i][1]
  <2>1. Has(ps, k)
    BY Zenon DEF Has
  <2>2. k \notin out
    BY <1>1, <1>2, <2>1, Zenon DEF CarriedOver
  <2>3. SaysWhat(m, ps[i], bad)
    BY <1>1, <1>2, Zenon DEF CarriedOver
  <2>4. k \in bad \/ ~Takes(m, k)
    BY <1>1, <1>2, <2>3 DEF SaysWhat, Meant, Takes
  <2> QED BY <1>2, <2>2, <2>4, Zenon DEF Amiss
<1>3. ASSUME NEW k \in DOMAIN m.f, Keys(m)[k].need, Written!At(ps, k) = {}
      PROVE  Amiss(m, out, bad)
  <2>1. k \in out \cup Implied(m)
    <3> SUFFICES ASSUME k \notin out \cup Implied(m) PROVE FALSE
      OBVIOUS
    <3>1. k \in KnownKeys(m)
      BY <1>1
    <3>2. \E i \in 1 .. Len(ps) : Written!At(ps, k) = {i}
      BY <3>1, AtIs
    <3> QED BY <1>3, <3>2
  <2>2. k \notin Implied(m)
    BY <1>3, ImpliedIsDefault
  <2> QED BY <1>3, <2>1, <2>2 DEF Amiss
<1>4. ASSUME NEW k \in DOMAIN m.f, k \in out, Keys(m)[k].need
      PROVE  Written!Wrong(Keys(m), ps)
  <2>1. Written!At(ps, k) = {}
    BY <1>1, <1>4, AtIs
  <2> QED BY <1>1, <1>4, <2>1, Zenon DEF Written!Wrong
<1>5. ASSUME NEW k \in DOMAIN m.f, k \notin out, k \in bad \/ ~Takes(m, k)
      PROVE  Written!Wrong(Keys(m), ps)
  <2>1. k \notin Implied(m)
    BY <1>1, <1>5, ImpliedIsDefault
  <2>2. PICK i \in 1 .. Len(ps) : ps[i][1] = k /\ SaysWhat(m, ps[i], bad)
    BY <1>1, <1>5, <2>1, AtIs
  <2>3. ~Written!Reads(Keys(m)[k].kind, ps[i][2])
    <3>1. CASE k \in bad
      BY <2>2, <3>1, SpoiledIsRefused, Zenon
    <3>2. CASE k \notin bad
      BY <1>1, <1>5, <2>2, <3>2 DEF SaysWhat, Meant, Takes
    <3> QED BY <3>1, <3>2
  <2> QED BY <1>1, <2>2, <2>3, Zenon DEF Written!Wrong
<1>6. Written!Wrong(Keys(m), ps) => Amiss(m, out, bad)
  BY <1>1, <1>2, <1>3, Zenon DEF Written!Wrong
<1>7. Amiss(m, out, bad) => Written!Wrong(Keys(m), ps)
  BY <1>4, <1>5, Zenon DEF Amiss
<1> QED BY <1>6, <1>7

\* What a field of a message is read as.
ReadAs(m, k, out) ==
    IF k \in out THEN Keys(m)[k].default ELSE Written!Read(Keys(m)[k].kind, m.f[k])

(* Of a map that is not wrong each field is what was written, or its default. *)
LEMMA FieldsAre ==
    ASSUME NEW m \in Samples, NEW ps, NEW out, NEW bad, CarriedOver(m, ps, out, bad),
           ~Amiss(m, out, bad), NEW k \in DOMAIN m.f
    PROVE  Written!Fields(Keys(m), ps)[k] = ReadAs(m, k, out)
<1> DEFINE key == Keys(m)[k]
           given == Written!Given(Keys(m), ps, k)
           field == IF given = {} THEN key.default ELSE Written!Read(key.kind, ps[Written!Max(given)][2])
<1>1. k \in KnownKeys(m) /\ k \notin TagKey(m) /\ DOMAIN Keys(m) = DOMAIN m.f
  BY SampleKeys DEF KnownKeys, Keys
<1>2. Written!Fields(Keys(m), ps)[k] = field
  BY <1>1 DEF Written!Fields
<1> HIDE DEF given
<1>3. given \subseteq Written!At(ps, k)
  BY DEF given, Written!Given
<1>4. CASE k \in out
  <2>1. Written!At(ps, k) = {}
    BY <1>1, <1>4, AtIs
  <2> QED BY <1>2, <1>3, <1>4, <2>1 DEF ReadAs
<1>5. CASE k \in Implied(m)
  <2>1. Written!At(ps, k) = {} /\ k \notin out
    BY <1>1, <1>5, AtIs DEF CarriedOver
  <2>2. m.f[k] = key.default /\ key.kind = "bool"
    BY <1>5, ImpliedIsDefault
  <2>3. Written!Read(key.kind, m.f[k]) = m.f[k]
    BY <2>2 DEF Written!Read
  <2> QED BY <1>2, <1>3, <2>1, <2>2, <2>3 DEF ReadAs
<1>6. CASE k \notin out \cup Implied(m)
  <2>1. PICK i \in 1 .. Len(ps) : Written!At(ps, k) = {i} /\ SaysWhat(m, ps[i], bad) /\ ps[i][1] = k
    BY <1>1, <1>6, AtIs
  <2>2. k \notin bad /\ Takes(m, k)
    BY <1>6, Zenon DEF Amiss
  <2>3. ps[i][2] = m.f[k]
    BY <1>1, <2>1, <2>2 DEF SaysWhat, Meant
  <2>4. CASE key.kind = "note" /\ m.f[k].t = "null"
    <3>1. given = {}
      BY <2>1, <2>3, <2>4 DEF given, Written!Given
    <3>2. key.default = Written!Value("null", 0)
      BY <2>4, SampleKeys, Zenon DEF KeyOf, Keys
    <3>3. m.f[k].v = 0
      BY <2>2, <2>4 DEF Takes, Written!Reads, Written!Of
    <3>4. m.f[k] = Written!Value(m.f[k].t, m.f[k].v)
      BY SampleKeys, Zenon
    <3>5. Written!Read(key.kind, m.f[k]) = m.f[k]
      BY <2>4 DEF Written!Read
    <3> QED BY <1>2, <1>6, <2>4, <3>1, <3>2, <3>3, <3>4, <3>5 DEF ReadAs
  <2>5. CASE ~(key.kind = "note" /\ m.f[k].t = "null")
    <3>1. given = {i}
      BY <2>1, <2>3, <2>5 DEF given, Written!Given
    <3>2. Written!Max({i}) = i
      <4>1. i \in Nat
        OBVIOUS
      <4> QED BY ONLY <4>1, OnlyOne
    <3>3. field = Written!Read(key.kind, ps[i][2])
      BY <3>1, <3>2
    <3> QED BY <1>2, <1>6, <2>3, <3>3 DEF ReadAs
  <2> QED BY <2>4, <2>5
<1> QED BY <1>4, <1>5, <1>6

\* Whether there is no way to tell what a message is.
Untold(m, out, bad) == TagKey(m) \cap (out \cup bad) # {}

\* A message of nothing.
Empty(m) == m.type \in {"Offer", "TopUp"} /\ m.f[1].v = <<>>

(* The types of message a field of which is a list core limits. *)
LEMMA FirstOfList ==
    ASSUME NEW m \in Samples, m.type \in {"Offer", "TopUp", "TopUpReject"}
    PROVE  /\ 1 \in DOMAIN m.f /\ Keys(m)[1].need
           /\ Keys(m)[1].kind = CASE m.type = "Offer" -> "mints"
                                  [] m.type = "TopUp" -> "updates"
                                  [] OTHER            -> "refused"
<1> USE DEF Keys, Written!KeysOf, Written!MsgType, Written!Need
<1>1. DOMAIN m.f = DOMAIN Keys(m)
  BY SampleKeys
<1>2. CASE m.type = "Offer"
  BY <1>1, <1>2 DEF Written!Offer
<1>3. CASE m.type = "TopUp"
  BY <1>1, <1>3 DEF Written!TopUp
<1>4. CASE m.type = "TopUpReject"
  BY <1>1, <1>4 DEF Written!TopUpReject
<1> QED BY <1>2, <1>3, <1>4

\* What comes of a message on its way: an error, or the message as it was
\* written but for what was left out.
ReadRight(m, out, bad, d) ==
    IF Untold(m, out, bad) \/ Amiss(m, out, bad) \/ Empty(m) THEN d = Written!Error
    ELSE d.type = m.type /\ \A k \in DOMAIN m.f : d.f[k] = ReadAs(m, k, out)

(* Either is what the decoder makes of it. *)
LEMMA DecodedIs ==
    ASSUME NEW m \in Samples, NEW ps, NEW out, NEW bad, CarriedOver(m, ps, out, bad),
           NEW d, d = Decoding(m, ps)
    PROVE  ReadRight(m, out, bad, d)
<1> USE DEF ReadRight
<1> DEFINE f == Written!Fields(Keys(m), ps)
<1>1. Written!Wrong(Keys(m), ps) <=> Amiss(m, out, bad)
  BY WrongIs
<1>2. ~Amiss(m, out, bad) => \A k \in DOMAIN m.f : f[k] = ReadAs(m, k, out)
  BY FieldsAre
<1> HIDE DEF f
<1>3. CASE m.type = "Funding"
  <2>1. Keys(m) = Written!Funding
    BY <1>3, FundingKeys DEF Keys
  <2>2. d = IF Written!Wrong(Keys(m), ps) THEN Written!Error ELSE [type |-> "Funding", f |-> f]
    BY <1>3, <2>1 DEF Decoding, Written!DecodeFunding, f
  <2>3. ~Untold(m, out, bad) /\ ~Empty(m)
    BY <1>3 DEF Untold, TagKey, Empty
  <2> QED BY <1>1, <1>2, <1>3, <2>2, <2>3
<1>4. CASE m.type # "Funding"
  <2>1. TagKey(m) = {0} /\ 0 \in KnownKeys(m) /\ 0 \notin Implied(m) /\ m.type \in MessageTags
    BY <1>4, SampleKeys DEF TagKey, KnownKeys, Implied
  <2>2. d = Written!Decode(ps)
    BY <1>4 DEF Decoding
  <2>3. CASE 0 \in out
    <3>1. Written!At(ps, 0) = {}
      BY <2>1, <2>3, AtIs
    <3>2. Untold(m, out, bad)
      BY <2>1, <2>3 DEF Untold
    <3> QED BY <2>2, <3>1, <3>2 DEF Written!Decode
  <2>4. CASE 0 \notin out
    <3>1. PICK i \in 1 .. Len(ps) : Written!At(ps, 0) = {i} /\ ps[i][1] = 0 /\ SaysWhat(m, ps[i], bad)
      BY <2>1, <2>4, AtIs
    <3>2. Written!Min({i}) = i
      <4>1. i \in Nat
        OBVIOUS
      <4> QED BY ONLY <4>1, OnlyOne
    <3> DEFINE tag == ps[i][2]
               g == Written!Fields(Written!MsgType[tag.v], ps)
    <3>3. d = IF \/ tag.t # "tag" \/ tag.v \notin DOMAIN Written!MsgType
                 \/ Written!Wrong(Written!MsgType[tag.v], ps)
                 \/ tag.v \in {"Offer", "TopUp"} /\ g[1].v = <<>>
              THEN Written!Error ELSE [type |-> tag.v, f |-> g]
      <4>1. Written!At(ps, 0) # {} /\ ps[Written!Min(Written!At(ps, 0))][2] = tag
        BY <3>1, <3>2
      <4> QED BY <2>2, <4>1, Zenon DEF Written!Decode
    <3>4. CASE 0 \in bad
      <4>1. tag = Written!Value("map", 0) \/ tag = Written!Value("tag", "Later")
        BY <3>1, <3>4 DEF SaysWhat
      <4>2. tag.t # "tag" \/ tag.v = "Later"
        BY <4>1 DEF Written!Value
      <4>3. tag.t # "tag" \/ tag.v \notin DOMAIN Written!MsgType
        BY <4>2, MessageTypes DEF MessageTags
      <4>4. Untold(m, out, bad)
        BY <2>1, <3>4 DEF Untold
      <4> QED BY <3>3, <4>3, <4>4
    <3>5. CASE 0 \notin bad
      <4>1. tag.t = "tag" /\ tag.v = m.type
        <5>1. tag = Written!Value("tag", m.type)
          BY <2>1, <3>1, <3>5 DEF SaysWhat, Meant
        <5> QED BY <5>1 DEF Written!Value
      <4>2. ~Untold(m, out, bad)
        BY <2>1, <2>4, <3>5 DEF Untold
      <4>3. Written!MsgType[tag.v] = Keys(m) /\ tag.v \in DOMAIN Written!MsgType
        BY <2>1, <4>1, KeysOfTypes, MessageTypes DEF Keys
      <4>4. g = f
        BY <4>3 DEF f
      <4> HIDE DEF tag, g
      <4>5. d = IF Amiss(m, out, bad) \/ (m.type \in {"Offer", "TopUp"} /\ f[1].v = <<>>)
                THEN Written!Error ELSE [type |-> m.type, f |-> f]
        BY <1>1, <3>3, <4>1, <4>3, <4>4
      <4>6. ASSUME ~Amiss(m, out, bad), m.type \in {"Offer", "TopUp"}
            PROVE  f[1] = m.f[1]
        <5>1. 1 \in DOMAIN m.f /\ Keys(m)[1].need /\ Keys(m)[1].kind \in {"mints", "updates"}
          BY <4>6, FirstOfList
        <5>2. 1 \notin out
          BY <4>6, <5>1, Zenon DEF Amiss
        <5>3. f[1] = Written!Read(Keys(m)[1].kind, m.f[1])
          BY <1>2, <4>6, <5>1, <5>2 DEF ReadAs
        <5> QED BY <5>1, <5>3 DEF Written!Read
      <4> QED BY <1>2, <4>2, <4>5, <4>6 DEF Empty
    <3> QED BY <3>4, <3>5
  <2> QED BY <2>3, <2>4
<1> QED BY <1>3, <1>4

(* An error is no message. *)
LEMMA ErrorIsNone ==
    ASSUME NEW m \in Samples, NEW d, d.type = m.type
    PROVE  d # Written!Error
<1>1. m.type # "error"
  BY SampleKeys DEF MessageTags
<1> QED BY <1>1 DEF Written!Error

\* A message core takes: what its fields are, and no list of its too long or empty.
Fitting(m) == (\A k \in DOMAIN m.f : Takes(m, k)) /\ ~Empty(m)

(* A message of the shape its type has fits. *)
LEMMA WellFormedFits ==
    ASSUME NEW m \in Samples, Written!WellFormed(m)
    PROVE  Fitting(m)
<1>1. ASSUME NEW k \in DOMAIN m.f PROVE Takes(m, k)
  <2>1. Written!Of(Keys(m)[k].kind, m.f[k]) /\ KeyOf(m.type, k, Keys(m)[k])
    BY SampleKeys, Zenon DEF Keys
  <2>2. CASE Keys(m)[k].kind \in {"updates", "refused"}
    <3>1. k = 1 /\ m.type \in {"TopUp", "TopUpReject"}
      BY <2>1, <2>2 DEF KeyOf
    <3>2. Len(m.f[1].v) <= MAX_CHANNEL_UPDATES
      BY <3>1, CodecConstants DEF Written!WellFormed
    <3> QED BY <2>1, <3>1, <3>2 DEF Takes, Written!Reads
  <2>3. CASE Keys(m)[k].kind \notin {"updates", "refused"}
    BY <2>1, <2>3 DEF Takes, Written!Reads
  <2> QED BY <2>2, <2>3
<1>2. ~Empty(m)
  <2>1. Len(<<>>) = 0
    OBVIOUS
  <2>2. m.type \in {"Offer", "TopUp"} => Len(m.f[1].v) >= 1
    BY CodecConstants DEF Written!WellFormed
  <2> QED BY <2>1, <2>2 DEF Empty
<1> QED BY <1>1, <1>2 DEF Fitting

(* A code this version knows is read as it is, any other as the one that stands for them. *)
LEMMA CodesRead ==
    ASSUME NEW kind, NEW v, Written!Of(kind, v), v = Written!Value(v.t, v.v)
    PROVE  Written!Read(kind, v) =
              IF Written!Known(kind, v) THEN v
              ELSE Written!Uint(IF kind = "reason" THEN Written!Other ELSE Written!Normal)
<1>1. CASE kind = "reason"
  <2>1. v = Written!Uint(v.v)
    BY <1>1 DEF Written!Of, Written!Uint
  <2> QED BY <1>1, <2>1 DEF Written!Read, Written!Known, Written!Reason, Written!Other
<1>2. CASE kind = "close"
  <2>1. v = Written!Uint(v.v)
    BY <1>2 DEF Written!Of, Written!Uint
  <2> QED BY <1>2, <2>1 DEF Written!Read, Written!Known, Written!CloseReason, Written!Normal
<1>3. CASE kind \notin {"reason", "close"}
  BY <1>3 DEF Written!Read, Written!Known
<1> QED BY <1>1, <1>2, <1>3

(* What the invariant says of what is read. *)
LEMMA ReadOfInv ==
    ASSUME CodecInv
    PROVE  IF Untold(msg, omitted, spoiled) \/ Amiss(msg, omitted, spoiled) \/ Empty(msg)
           THEN Written!Decoded = Written!Error
           ELSE /\ Written!Decoded # Written!Error /\ Written!Decoded.type = msg.type
                /\ \A k \in DOMAIN msg.f : Written!Decoded.f[k] = ReadAs(msg, k, omitted)
<1>1. msg \in Samples /\ CarriedOver(msg, pairs, omitted, spoiled)
  BY DEF CodecInv
<1>2. Written!Decoded = Decoding(msg, pairs)
  BY DEF Written!Decoded, Decoding
<1>3. ReadRight(msg, omitted, spoiled, Written!Decoded)
  BY <1>1, <1>2, DecodedIs, Zenon
<1> QED BY <1>1, <1>3, ErrorIsNone DEF ReadRight

LEMMA ReadAsMeant == CodecInv => Written!Understood
<1> SUFFICES ASSUME CodecInv, Written!WellFormed(msg) PROVE Written!Understood
  BY DEF Written!Understood
<1> DEFINE lost == \/ omitted \cap TagKey(msg) # {} \/ spoiled \ omitted # {}
                   \/ \E k \in DOMAIN Keys(msg) \cap omitted : Keys(msg)[k].need
<1>1. /\ msg \in Samples /\ DOMAIN Keys(msg) = DOMAIN msg.f
      /\ omitted \cup spoiled \subseteq DOMAIN msg.f \cup TagKey(msg)
      /\ TagKey(msg) \cap DOMAIN msg.f = {}
  <2>1. msg \in Samples /\ omitted \cup spoiled \subseteq KnownKeys(msg)
    BY DEF CodecInv, CarriedOver
  <2> QED BY <2>1, SampleKeys DEF Keys, KnownKeys
<1>2. Fitting(msg)
  BY <1>1, WellFormedFits
<1>3. lost => Untold(msg, omitted, spoiled) \/ Amiss(msg, omitted, spoiled)
  <2>1. ASSUME NEW k \in DOMAIN msg.f, k \in omitted, Keys(msg)[k].need
        PROVE  Amiss(msg, omitted, spoiled)
    BY <2>1, Zenon DEF Amiss
  <2>2. ASSUME NEW k \in DOMAIN msg.f, k \in spoiled, k \notin omitted
        PROVE  Amiss(msg, omitted, spoiled)
    BY <2>2, Zenon DEF Amiss
  <2> QED BY <1>1, <2>1, <2>2 DEF Untold
<1>4. ~lost => ~Untold(msg, omitted, spoiled) /\ ~Amiss(msg, omitted, spoiled)
  BY <1>1, <1>2 DEF Untold, Amiss, Fitting
<1>5. ~Empty(msg)
  BY <1>2 DEF Fitting
<1>6. CASE lost
  <2>1. Written!Decoded = Written!Error
    BY <1>3, <1>6, ReadOfInv
  <2> QED BY <1>6, <2>1 DEF Written!Understood, Keys, TagKey
<1>7. CASE ~lost
  <2>1. /\ Written!Decoded # Written!Error /\ Written!Decoded.type = msg.type
        /\ \A k \in DOMAIN msg.f : Written!Decoded.f[k] = ReadAs(msg, k, omitted)
    BY <1>4, <1>5, <1>7, ReadOfInv
  <2>2. ASSUME NEW k \in DOMAIN Keys(msg) \ omitted, Written!Known(Keys(msg)[k].kind, msg.f[k])
        PROVE  Written!Decoded.f[k] = msg.f[k]
    <3>1. /\ Written!Of(Keys(msg)[k].kind, msg.f[k])
          /\ msg.f[k] = Written!Value(msg.f[k].t, msg.f[k].v)
      BY <1>1, SampleKeys, Zenon DEF Keys
    <3>2. Written!Read(Keys(msg)[k].kind, msg.f[k]) = msg.f[k]
      BY <2>2, <3>1, CodesRead, Zenon
    <3> QED BY <1>1, <2>1, <3>2 DEF ReadAs
  <2>3. \A k \in DOMAIN Keys(msg) \cap omitted : Written!Decoded.f[k] = Keys(msg)[k].default
    BY <1>1, <2>1 DEF ReadAs
  <2> QED BY <1>7, <2>1, <2>2, <2>3 DEF Written!Understood, Keys, TagKey
<1> QED BY <1>6, <1>7

(* What core is told of a message that was not refused. *)
LEMMA ReadIfAny ==
    ASSUME CodecInv, Written!Decoded # Written!Error
    PROVE  /\ msg \in Samples /\ Written!Decoded.type = msg.type /\ ~Empty(msg)
           /\ ~Amiss(msg, omitted, spoiled)
           /\ \A k \in DOMAIN msg.f : Written!Decoded.f[k] = ReadAs(msg, k, omitted)
<1>1. msg \in Samples
  BY DEF CodecInv
<1> QED BY <1>1, ReadOfInv

LEMMA OmissionCosts == CodecInv => Written!NeverFreeByOmission
<1> SUFFICES ASSUME CodecInv, msg.type = "Offer", Written!Decoded # Written!Error
             PROVE  /\ 4 \in omitted => Written!Decoded.f[4].v > 0
                    /\ 5 \in omitted => ~Written!Decoded.f[5].v
  BY DEF Written!NeverFreeByOmission
<1>1. /\ 4 \in DOMAIN Keys(msg) /\ 5 \in DOMAIN Keys(msg)
      /\ Keys(msg)[4].default = Written!Uint(1)
      /\ Keys(msg)[5].default = Written!Value("bool", FALSE)
  <2>1. Keys(msg) = Written!Offer
    BY DEF Keys, Written!KeysOf, Written!MsgType
  <2>2. /\ 4 \in DOMAIN Written!Offer /\ 5 \in DOMAIN Written!Offer
        /\ Written!Offer[4] = Written!May("u16", Written!Uint(1))
        /\ Written!Offer[5] = Written!May("bool", Written!Value("bool", FALSE))
    BY DEF Written!Offer
  <2> QED BY <2>1, <2>2 DEF Written!May
<1>2. DOMAIN Keys(msg) = DOMAIN msg.f
  BY ReadIfAny, SampleKeys DEF Keys
<1>3. ASSUME 4 \in omitted PROVE Written!Decoded.f[4].v = 1
  <2>1. Written!Decoded.f[4] = Written!Uint(1)
    BY <1>1, <1>2, <1>3, ReadIfAny DEF ReadAs
  <2> QED BY <2>1 DEF Written!Uint, Written!Value
<1>4. ASSUME 5 \in omitted PROVE Written!Decoded.f[5].v = FALSE
  <2>1. Written!Decoded.f[5] = Written!Value("bool", FALSE)
    BY <1>1, <1>2, <1>4, ReadIfAny DEF ReadAs
  <2> QED BY <2>1 DEF Written!Value
<1>5. 4 \in omitted => Written!Decoded.f[4].v > 0
  BY <1>3
<1>6. 5 \in omitted => ~Written!Decoded.f[5].v
  BY <1>4, Zenon
<1> QED BY <1>5, <1>6

(* A list read is no longer than core takes, and not empty where it may not be. *)
LEMMA ListsBounded == CodecInv => Written!Bounded
<1> SUFFICES ASSUME CodecInv, Written!Decoded # Written!Error
             PROVE  Written!Bounded
  BY DEF Written!Bounded
<1>1. /\ msg \in Samples /\ Written!Decoded.type = msg.type /\ ~Empty(msg)
      /\ ~Amiss(msg, omitted, spoiled)
      /\ \A k \in DOMAIN msg.f : Written!Decoded.f[k] = ReadAs(msg, k, omitted)
  BY ReadIfAny
<1>2. ASSUME NEW k \in DOMAIN msg.f, Keys(msg)[k].need, Keys(msg)[k].kind \notin {"reason", "close"}
      PROVE  Written!Decoded.f[k] = msg.f[k] /\ Takes(msg, k)
  <2>1. k \notin omitted /\ Takes(msg, k)
    BY <1>1, <1>2, Zenon DEF Amiss
  <2>2. Written!Read(Keys(msg)[k].kind, msg.f[k]) = msg.f[k]
    BY <1>2 DEF Written!Read
  <2> QED BY <1>1, <2>1, <2>2 DEF ReadAs
<1>3. CASE msg.type = "Offer"
  <2>1. 1 \in DOMAIN msg.f /\ Keys(msg)[1].need /\ Keys(msg)[1].kind = "mints"
    BY <1>1, <1>3, FirstOfList
  <2>2. 3 \in DOMAIN msg.f /\ Keys(msg)[3].need /\ Keys(msg)[3].kind = "windows"
    <3>1. DOMAIN msg.f = DOMAIN Keys(msg)
      BY <1>1, SampleKeys DEF Keys
    <3> QED BY <1>3, <3>1 DEF Keys, Written!KeysOf, Written!MsgType, Written!Offer, Written!Need
  <2>3. Written!Decoded.f[1] = msg.f[1] /\ Takes(msg, 1) /\ Written!Decoded.f[3] = msg.f[3] /\ Takes(msg, 3)
    BY <1>2, <2>1, <2>2
  <2>4. msg.f[1].v \in Seq({"text"} \X Nat) /\ msg.f[1].v # <<>>
    BY <1>1, <1>3, <2>1, <2>3 DEF Takes, Written!Reads, Written!Of, Written!Lists, Empty
  <2>5. Len(msg.f[1].v) >= 1
    <3> DEFINE l == msg.f[1].v
    <3> HIDE DEF l
    <3>1. Len(l) >= 1
      <4>1. l \in Seq({"text"} \X Nat) /\ l # <<>>
        BY <2>4 DEF l
      <4> QED BY ONLY <4>1, EmptySeq
    <3> QED BY <3>1 DEF l
  <2>6. Len(msg.f[3].v) = 2
    BY <2>2, <2>3 DEF Takes, Written!Reads, Written!Of
  <2> QED BY <1>1, <1>3, <2>3, <2>5, <2>6 DEF Written!Bounded
<1>4. CASE msg.type = "TopUp"
  <2>1. 1 \in DOMAIN msg.f /\ Keys(msg)[1].need /\ Keys(msg)[1].kind = "updates"
    BY <1>1, <1>4, FirstOfList
  <2>2. Written!Decoded.f[1] = msg.f[1] /\ Takes(msg, 1)
    BY <1>2, <2>1
  <2>3. /\ msg.f[1].v \in Seq({"update"} \X Nat) /\ msg.f[1].v # <<>>
        /\ Len(msg.f[1].v) <= MAX_CHANNEL_UPDATES
    BY <1>1, <1>4, <2>1, <2>2 DEF Takes, Written!Reads, Written!Of, Written!Lists, Empty
  <2>4. Len(msg.f[1].v) \in 1 .. MAX_CHANNEL_UPDATES
    <3> DEFINE l == msg.f[1].v
    <3> HIDE DEF l
    <3>1. Len(l) >= 1 /\ Len(l) \in Nat
      <4>1. l \in Seq({"update"} \X Nat) /\ l # <<>>
        BY <2>3 DEF l
      <4> QED BY ONLY <4>1, EmptySeq
    <3>2. Len(l) <= MAX_CHANNEL_UPDATES
      BY <2>3 DEF l
    <3> QED BY <3>1, <3>2, CodecConstants DEF l
  <2> QED BY <1>1, <1>4, <2>2, <2>4 DEF Written!Bounded
<1>5. CASE msg.type = "TopUpReject"
  <2>1. 1 \in DOMAIN msg.f /\ Keys(msg)[1].need /\ Keys(msg)[1].kind = "refused"
    BY <1>1, <1>5, FirstOfList
  <2>2. Written!Decoded.f[1] = msg.f[1] /\ Takes(msg, 1)
    BY <1>2, <2>1
  <2>3. Len(msg.f[1].v) <= MAX_CHANNEL_UPDATES
    BY <2>1, <2>2 DEF Takes, Written!Reads
  <2> QED BY <1>1, <1>5, <2>2, <2>3 DEF Written!Bounded
<1>6. CASE msg.type \notin {"Offer", "TopUp", "TopUpReject"}
  BY <1>1, <1>6 DEF Written!Bounded
<1> QED BY <1>3, <1>4, <1>5, <1>6

(* A reason of a later version is read as the one that stands for any other. *)
LEMMA LaterReasonsRead == CodecInv => Written!LaterReasons
<1> SUFFICES ASSUME CodecInv, Written!WellFormed(msg), omitted = {}, spoiled = {},
                    NEW k \in DOMAIN Keys(msg), ~Written!Known(Keys(msg)[k].kind, msg.f[k])
             PROVE  /\ Written!Decoded # Written!Error
                    /\ Written!Decoded.f[k] =
                          Written!Uint(IF Keys(msg)[k].kind = "reason" THEN Written!Other
                                       ELSE Written!Normal)
  BY Zenon DEF Written!LaterReasons, Keys
<1>1. msg \in Samples /\ Fitting(msg)
  BY WellFormedFits DEF CodecInv
<1>2. ~Untold(msg, omitted, spoiled) /\ ~Amiss(msg, omitted, spoiled) /\ ~Empty(msg)
  BY <1>1 DEF Untold, Amiss, Fitting
<1>3. k \in DOMAIN msg.f
  BY <1>1, SampleKeys DEF Keys
<1>4. Written!Decoded # Written!Error /\ Written!Decoded.f[k] = ReadAs(msg, k, omitted)
  BY <1>2, <1>3, ReadOfInv
<1>5. /\ Written!Of(Keys(msg)[k].kind, msg.f[k])
      /\ msg.f[k] = Written!Value(msg.f[k].t, msg.f[k].v)
  BY <1>1, <1>3, SampleKeys, Zenon DEF Keys
<1>6. Written!Read(Keys(msg)[k].kind, msg.f[k]) =
         Written!Uint(IF Keys(msg)[k].kind = "reason" THEN Written!Other ELSE Written!Normal)
  BY <1>5, CodesRead, Zenon
<1> QED BY <1>4, <1>6 DEF ReadAs

(* What one version writes another reads, or refuses (decode of codec.rs, and  *)
(* the funding's): whatever the messages, and however many keys are added, left *)
(* out, moved or spoiled.                                                       *)
THEOREM ReadsWhatIsWritten == MCSpec => []MessagesUnderstood
<1> DEFINE I == part = "codec" => CodecInv
<1>1. MCInit => I
  BY CodecStart, Zenon DEF MCInit
<1>2. I /\ [MCNext]_<<part, vars, meshVars, wireVars, codecVars>> => I'
  <2> SUFFICES ASSUME I, [MCNext]_<<part, vars, meshVars, wireVars, codecVars>>, part' = "codec"
               PROVE  CodecInv'
    BY Zenon
  <2>1. CASE CodecNext
    BY <2>1, CodecStep DEF CodecNext
  <2>2. CASE UNCHANGED <<part, vars, meshVars, wireVars, codecVars>>
    BY <2>2 DEF codecVars, CodecInv
  <2>3. CASE ExternalNext \/ MeshNext \/ WireNext
    BY <2>3 DEF ExternalNext, MeshNext, WireNext
  <2> QED BY <2>1, <2>2, <2>3, Zenon DEF MCNext
<1>3. I => MessagesUnderstood
  BY ReadAsMeant, OmissionCosts, ListsBounded, LaterReasonsRead, Zenon DEF MessagesUnderstood
<1> QED BY <1>1, <1>2, <1>3, PTL DEF MCSpec
=============================================================================
