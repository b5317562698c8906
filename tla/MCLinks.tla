------------------------------- MODULE MCLinks -------------------------------
(***************************************************************************)
(* What a node says and hears over its connections, each on its own: the   *)
(* enforcer's socket (External), the socket of a FIPS daemon (Fips), a     *)
(* peer's control-plane connection (Wire) and the messages on it, written  *)
(* and read by two versions (Codec).  Which a behaviour is of is chosen at *)
(* its start; the variables of the others are Off.                         *)
(***************************************************************************)
EXTENDS External

CONSTANTS
    MIN_FLOW, Shaped, MAX_U64, WEIGHT, Disturbances,       \* Fips
    Frames, BASE, CHUNK, MAX_SENT,                         \* Wire
    Samples, Unknown, MAX_CHANNEL_UPDATES, MAX_EDITS       \* Codec

VARIABLES
    part,
    core, calls, mesh, fresh, policy, default, moved, decisions, left,   \* Fips
    genuine, sent, stream, fin, buf, phase, told,                        \* Wire
    msg, pairs, omitted, spoiled, edits                                  \* Codec

meshVars  == <<core, calls, mesh, fresh, policy, default, moved, decisions, left>>
wireVars  == <<genuine, sent, stream, fin, buf, phase, told>>
codecVars == <<msg, pairs, omitted, spoiled, edits>>

-----------------------------------------------------------------------------
(* An enforcer: one that breaks, an enforcer replaced by one that does not  *)
(* fit or takes no delegated subjects, and payers that leave, return and    *)
(* move.                                                                    *)
Fits(d) == [version |-> TRUE, identity |-> TRUE, unit |-> TRUE, delegated |-> d]
Unfit   == {[Fits(TRUE) EXCEPT !.version = FALSE], [Fits(TRUE) EXCEPT !.unit = FALSE]}

MCHellos == {Fits(TRUE), Fits(FALSE)} \cup Unfit

MCAllowances ==
    {[calls |-> 3, units |-> 2, faults |-> 1, returns |-> FALSE, vouched |-> {},
      hellos |-> {Fits(TRUE)}],
     [calls |-> 3, units |-> 0, faults |-> 2, returns |-> FALSE, vouched |-> Vouched,
      hellos |-> MCHellos],
     [calls |-> 4, units |-> 0, faults |-> 1, returns |-> TRUE, vouched |-> {},
      hellos |-> {Fits(TRUE)}]}

-----------------------------------------------------------------------------
(* A mesh that is as it should be; one where FIPS is started again and      *)
(* answers do not come; and one where requests fail and the node is killed. *)
MCDisturbances ==
    {[payers |-> Payers, decisions |-> 3, units |-> 0, faults |-> 0, broken |-> {}]}
    \cup UNION {
       {[payers |-> {p}, decisions |-> 2, units |-> 2, faults |-> 2, broken |-> {"show", "daemon"}],
        [payers |-> {p}, decisions |-> 2, units |-> 1, faults |-> 1, broken |-> {"set", "clear", "node"}]}
       : p \in {CHOOSE p \in Payers : TRUE}}

Mesh ==
    INSTANCE Fips WITH
        Rates <- Shaped, Allowances <- Disturbances, peers <- mesh, carried <- moved,
        spare <- left

-----------------------------------------------------------------------------
(* A connection with a two-byte prefix that counts to three: an Announce of *)
(* two bytes, messages of one and of three, and one that does not decode.   *)
M(kind, len) == [kind |-> kind, len |-> len]
MCFrames == {M("announce", 2), M("other", 1), M("other", 3), M("bad", 2)}

Reading == INSTANCE Wire WITH Messages <- Frames, DIALLED <- BOOLEAN, GENUINE <- BOOLEAN

-----------------------------------------------------------------------------
(* Messages of every type: as a node writes them, with the reasons of a     *)
(* later version, and with lists empty or too long.                         *)
V(t, v) == [t |-> t, v |-> v]
U(n) == V("uint", n)
Text == V("text", "t")
List(shape, n) == V("list", [i \in 1 .. n |-> <<shape, i>>])
Said(type, f) == [type |-> type, f |-> f]

OfferOf(mints, free) ==
    Said("Offer", <<List("text", mints), Text, List("uint", 2), U(3),
                    V("bool", free), U(4), U(5)>>)

MCSamples == {
    Said("Accept", <<V("bytes", 9)>>), Said("ChannelReady", <<V("bytes32", 1)>>),
    Said("Disconnect", <<U(2)>>), Said("Disconnect", <<U(99)>>),
    Said("RolloverInit", <<V("bytes32", 1), V("bytes", 9)>>),
    Said("RolloverReady", <<V("bytes32", 1), V("bytes32", 2)>>),
    Said("CloseAck", <<V("bytes32", 1), U(6)>>),
    Said("Balance", <<U(1), V("wide", 2), U(3)>>),
    Said("Reject", <<U(1), U(2), Text>>), Said("Reject", <<U(1), U(77), V("null", 0)>>),
    Said("TopUpReject", <<List("refused", 0), U(5), U(4)>>),
    Said("TopUpReject", <<List("refused", 3), U(5), U(60)>>),
    Said("TopUpReject", <<List("refused", 2), U(5), U(60)>>),
    Said("Announce", <<U(1), V("bytes33", 1), Text, U(4)>>),
    Said("ChannelClose", <<V("bytes32", 1), U(6), V("bytes64", 2), U(1)>>),
    Said("ChannelClose", <<V("bytes32", 1), U(6), V("bytes64", 2), U(9)>>),
    OfferOf(0, FALSE), OfferOf(2, FALSE), OfferOf(1, TRUE)}
    \cup {Said("TopUp", <<List("update", n), U(7), U(8)>>) : n \in 0 .. 3}
    \cup {Said("Funding",
            [k \in 0 .. 12 |-> CASE k = 0       -> V("bytes64", 1)
                                 [] k \in {1, 2} -> Text
                                 [] k = 5       -> V("id", 3)
                                 [] k \in {9, 10} -> V("bytes33", k)
                                 [] k = 12      -> List("output", 1)
                                 [] OTHER       -> U(k)])}

Written == INSTANCE Codec WITH None <- Null, gone <- omitted

ASSUME PartsAssumption ==
    Mesh!FipsAssumption /\ Reading!WireAssumption /\ Written!CodecAssumption

-----------------------------------------------------------------------------
Off == "off"
ExternalOff ==
    /\ node = Off /\ sess = Off /\ started = Off /\ inb = Off /\ enf = Off
    /\ carried = Off /\ was = Off /\ gone = Off /\ spare = Off
MeshOff ==
    /\ core = Off /\ calls = Off /\ mesh = Off /\ fresh = Off /\ policy = Off
    /\ default = Off /\ moved = Off /\ decisions = Off /\ left = Off
WireOff ==
    /\ genuine = Off /\ sent = Off /\ stream = Off /\ fin = Off /\ buf = Off
    /\ phase = Off /\ told = Off
CodecOff ==
    msg = Off /\ pairs = Off /\ omitted = Off /\ spoiled = Off /\ edits = Off

MCInit ==
    \/ part = "enforcer" /\ Init /\ MeshOff /\ WireOff /\ CodecOff
    \/ part = "mesh" /\ ExternalOff /\ Mesh!Init /\ WireOff /\ CodecOff
    \/ part = "wire" /\ ExternalOff /\ MeshOff /\ Reading!Init /\ CodecOff
    \/ part = "codec" /\ ExternalOff /\ MeshOff /\ WireOff /\ Written!Init

ExternalNext == part = "enforcer" /\ Next /\ UNCHANGED <<part, meshVars, wireVars, codecVars>>
MeshNext     == part = "mesh" /\ Mesh!Next /\ UNCHANGED <<part, vars, wireVars, codecVars>>
WireNext     == part = "wire" /\ Reading!Next /\ UNCHANGED <<part, vars, meshVars, codecVars>>
CodecNext    == part = "codec" /\ Written!Next /\ UNCHANGED <<part, vars, meshVars, wireVars>>
MCNext == ExternalNext \/ MeshNext \/ WireNext \/ CodecNext

\* The fairness of External, where there is an enforcer.
MCFairness ==
    /\ WF_vars(part = "enforcer" /\ Connect)
    /\ WF_vars(part = "enforcer" /\ HelloArrives)
    /\ WF_vars(part = "enforcer" /\ NoHelloCame)
    /\ WF_vars(part = "enforcer" /\ NodeReads)
    /\ WF_vars(part = "enforcer" /\ SessionEnds)
    /\ WF_vars(part = "enforcer" /\ EnforcerReads)

MCSpec == MCInit /\ [][MCNext]_<<part, vars, meshVars, wireVars, codecVars>> /\ MCFairness

-----------------------------------------------------------------------------
(* The properties of each part. *)

\* Once everything is read, the enforcer has what the node has, and was never
\* sent what its hello refuses (session, send and drop_link of external.rs); and
\* FIPS does what core decided, and never more on the way from one decision to
\* the next (set_access, set_shaping_rate and remove of fips.rs).
EnforcerInSync ==
    /\ part = "enforcer" => TypeOK /\ InSync /\ OnlyAcceptable
    /\ part = "mesh" => Mesh!TypeOK /\ Mesh!InForce /\ Mesh!NeverMore

\* No payer is charged for a unit twice, or for one not carried for it, as
\* counts are carried from connection to connection (read_loop, drop_link) or
\* start over (refresh_counters of fips.rs with Meter::observe).
CarriedIsCharged ==
    /\ part = "enforcer" => ChargedOnce
    /\ part = "mesh" => Mesh!ChargedOnce

\* Of two payers that claim one address, the one that held it before a
\* connection broke holds it after (the order of session's snapshot).
HolderStays == part = "enforcer" /\ ~spare.returns => SameHolder

Wanted ==
    part = "enforcer" /\ enf.up /\ CheckHello(enf.says) = "ok" /\ sess # "stopped" /\ node.link = 0

\* An enforcer that fits is connected in the end, after an outage, a refusal
\* or an outbox that overflowed, for as long as it stays (maintain).
EnforcerReached == Wanted ~> ~Wanted

\* The node is told that a peer is there, its messages, in order and each
\* once, and that it is gone, however TCP cut the bytes (read_announce,
\* read_loop and next_with).
MessagesInOrder ==
    part = "wire" => Reading!TypeOK /\ Reading!HandedInOrder /\ Reading!ToldInOrder

\* What one version writes another reads, or refuses: what is left out means
\* its default, which never makes an Offer free; a reason of a later version is
\* still a refusal; and no list is longer, or emptier, than core can take
\* (decode of codec.rs).
MessagesUnderstood ==
    part = "codec" =>
       /\ Written!Understood /\ Written!NeverFreeByOmission
       /\ Written!LaterReasons /\ Written!Bounded
=============================================================================
