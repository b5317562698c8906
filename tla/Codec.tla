-------------------------------- MODULE Codec --------------------------------
(***************************************************************************)
(* The messages on the wire (tollgate-protocol/src/codec.rs) and the blob a*)
(* channel's funding travels as (tollgate-net/src/channel/spilman/         *)
(* funding.rs): each a CBOR map from small keys to typed values.  A message*)
(* is written by one node and read by another of perhaps another version,  *)
(* which may know more keys or fewer, write them in another order, or not  *)
(* keep to the types.                                                      *)
(***************************************************************************)
EXTENDS Naturals, Sequences, SequencesExt, FiniteSetsExt

CONSTANTS
    Samples,               \* the messages written
    Unknown,               \* keys no version of ours knows
    MAX_CHANNEL_UPDATES,
    MAX_EDITS,             \* bound: differences between what we write and what is read
    None

VARIABLES
    msg,       \* what was to be said
    pairs,     \* the map as it arrives, in order
    gone,      \* keys left out of it
    spoiled,   \* keys with a value of another type
    edits

vars == <<msg, pairs, gone, spoiled, edits>>

-----------------------------------------------------------------------------
(* the keys of each message *)

\* A CBOR value: its type, with the length of a fixed one, and its value; an
\* integer that takes more than 32 bits is "wide".
Value(t, v) == [t |-> t, v |-> v]
Uint(n) == Value("uint", n)

Need(kind) == [kind |-> kind, need |-> TRUE, default |-> None]
May(kind, d) == [kind |-> kind, need |-> FALSE, default |-> d]
Other == 255     \* ReasonCode::Other
Normal == 0      \* CloseReason::Normal

Announce     == <<Need("u8"), Need("bytes33"), Need("text"), May("u32", Uint(0))>>
Offer        == <<Need("mints"), Need("text"), Need("windows"), May("u16", Uint(1)),
                  May("bool", Value("bool", FALSE)), May("uint", Uint(0)), May("uint", Uint(0))>>
Accept       == <<May("bytes", Value("bytes", 0))>>
ChannelReady == <<Need("bytes32")>>
TopUp        == <<Need("updates"), Need("uint"), May("uint", Uint(0))>>
TopUpReject  == <<Need("refused"), Need("uint"), May("reason", Uint(Other))>>
RolloverInit == <<Need("bytes32"), Need("bytes")>>
RolloverReady == <<Need("bytes32"), Need("bytes32")>>
ChannelClose == <<Need("bytes32"), Need("uint"), Need("bytes64"), May("close", Uint(Normal))>>
CloseAck     == <<Need("bytes32"), Need("uint")>>
Reject       == <<Need("u8"), May("reason", Uint(Other)), May("note", Value("null", 0))>>
Disconnect   == <<May("reason", Uint(Other))>>
Balance      == <<Need("uint"), Need("uint"), Need("uint")>>

\* The message types by tag.
MsgType == [Announce |-> Announce, Offer |-> Offer, Accept |-> Accept,
            ChannelReady |-> ChannelReady, TopUp |-> TopUp, TopUpReject |-> TopUpReject,
            RolloverInit |-> RolloverInit, RolloverReady |-> RolloverReady,
            ChannelClose |-> ChannelClose, CloseAck |-> CloseAck, Reject |-> Reject,
            Disconnect |-> Disconnect, Balance |-> Balance]

\* The funding blob: its keys start at 0, and none is a tag.
Funding ==
    [k \in 0 .. 12 |->
       Need(CASE k = 0        -> "bytes64"
              [] k \in {1, 2} -> "text"
              [] k = 5        -> "id"
              [] k \in {9, 10} -> "bytes33"
              [] k = 12       -> "outputs"
              [] OTHER        -> "uint")]

KeysOf(type) == IF type = "Funding" THEN Funding ELSE MsgType[type]

\* An array of entries of one shape.
Lists(v, shape) == v.t = "list" /\ v.v \in Seq({shape} \X Nat)

\* Whether a value is one of a kind of field.
Of(kind, v) ==
    CASE kind = "uint"    -> v.t \in {"uint", "wide"}
      [] kind = "u32"     -> v.t = "uint"
      [] kind = "u16"     -> v.t = "uint" /\ v.v <= 65535
      [] kind \in {"u8", "reason", "close"} -> v.t = "uint" /\ v.v <= 255
      [] kind = "mints"   -> Lists(v, "text")
      [] kind = "updates" -> Lists(v, "update")
      [] kind = "refused" -> Lists(v, "refused")
      [] kind = "outputs" -> Lists(v, "output")
      [] kind = "windows" -> Lists(v, "uint") /\ Len(v.v) = 2
      [] kind = "note"    -> v.t = "text" \/ (v.t = "null" /\ v.v = 0)
      [] kind = "bytes"   -> v.t \in {"bytes", "bytes32", "bytes33", "bytes64"}
      [] OTHER            -> v.t = kind

\* A message as a node holds it: each key with a value of its kind.
IsMessage(m) ==
    /\ m.type \in DOMAIN MsgType \cup {"Funding"}
    /\ DOMAIN m.f = DOMAIN KeysOf(m.type)
    /\ \A k \in DOMAIN m.f :
          m.f[k] = Value(m.f[k].t, m.f[k].v) /\ Of(KeysOf(m.type)[k].kind, m.f[k])

CodecAssumption ==
    /\ \A m \in Samples : IsMessage(m)
    /\ Unknown \subseteq 14 .. 255 /\ MAX_CHANNEL_UPDATES \in Nat /\ MAX_EDITS \in Nat

-----------------------------------------------------------------------------
(* writing *)

Tag(type) == IF type = "Funding" THEN <<>> ELSE << <<0, Value("tag", type)>> >>

\* The keys of a message in order, from its first.
InOrder(f) ==
    LET first == Min(DOMAIN f) IN
    [i \in 1 .. Max(DOMAIN f) - first + 1 |-> <<first + i - 1, f[first + i - 1]>>]

\* encode: the tag, then each key in order; an Offer that charges leaves out
\* key 5.
Encode(m) ==
    Tag(m.type)
    \o IF m.type = "Offer" /\ m.f[5].v = FALSE THEN RemoveAt(InOrder(m.f), 5) ELSE InOrder(m.f)

-----------------------------------------------------------------------------
(* reading *)

Error == [type |-> "error", f |-> <<>>]

\* Whether the decoder's call for a kind of field takes a value.
Reads(kind, v) ==
    Of(kind, v) /\ (kind \in {"updates", "refused"} => Len(v.v) <= MAX_CHANNEL_UPDATES)

\* ReasonCode::from_u8 and CloseReason::from_u8: a code we do not know is not
\* an error.
Reason(n) == IF n \in 1 .. 10 THEN n ELSE Other
CloseReason(n) == IF n \in 1 .. 2 THEN n ELSE Normal
Read(kind, v) ==
    CASE kind = "reason" -> Uint(Reason(v.v))
      [] kind = "close"  -> Uint(CloseReason(v.v))
      [] OTHER           -> v

At(ps, k) == {i \in DOMAIN ps : ps[i][1] = k}

\* Where a field's value comes from, if anywhere: a null note is no note.
Given(keys, ps, k) ==
    {i \in At(ps, k) : ~(keys[k].kind = "note" /\ ps[i][2].t = "null")}

\* Mutant: an unknown key is an error.
WrongUnknown(keys, ps) ==
    \/ \E i \in DOMAIN ps : ps[i][1] # 0 /\ ps[i][1] \notin DOMAIN keys
    \/ \E i \in DOMAIN ps : ps[i][1] \in DOMAIN keys /\ ~Reads(keys[ps[i][1]].kind, ps[i][2])
    \/ \E k \in DOMAIN keys : keys[k].need /\ At(ps, k) = {}

\* One of the decode_* functions, and the funding's decode: every known key
\* must hold what it should and what is needed must be there; unknown keys
\* are skipped, what is absent takes its default.
Wrong(keys, ps) ==
    \/ \E i \in DOMAIN ps : ps[i][1] \in DOMAIN keys /\ ~Reads(keys[ps[i][1]].kind, ps[i][2])
    \/ \E k \in DOMAIN keys : keys[k].need /\ At(ps, k) = {}
Fields(keys, ps) ==
    [k \in DOMAIN keys |->
        IF Given(keys, ps, k) = {} THEN keys[k].default
        ELSE Read(keys[k].kind, ps[Max(Given(keys, ps, k))][2])]

\* decode: scan_type finds the tag wherever it is; an Offer of no mints and a
\* TopUp of no updates are refused.
Decode(ps) ==
    IF At(ps, 0) = {} THEN Error
    ELSE LET tag == ps[Min(At(ps, 0))][2]
             f == Fields(MsgType[tag.v], ps) IN
         IF \/ tag.t # "tag" \/ tag.v \notin DOMAIN MsgType
            \/ Wrong(MsgType[tag.v], ps)
            \/ tag.v \in {"Offer", "TopUp"} /\ f[1].v = <<>>
         THEN Error ELSE [type |-> tag.v, f |-> f]

DecodeFunding(ps) ==
    IF Wrong(Funding, ps) THEN Error ELSE [type |-> "Funding", f |-> Fields(Funding, ps)]

Decoded == IF msg.type = "Funding" THEN DecodeFunding(pairs) ELSE Decode(pairs)

-----------------------------------------------------------------------------
(* what another version, or a faulty one, makes of it *)

Init ==
    /\ msg \in Samples /\ pairs = Encode(msg)
    /\ gone = {} /\ spoiled = {} /\ edits = 0

Edit == edits < MAX_EDITS /\ edits' = edits + 1 /\ UNCHANGED msg

\* A later version adds a key.
Extend(i, k) ==
    /\ Edit /\ pairs' = InsertAt(pairs, i, <<k, Value("text", "later")>>)
    /\ UNCHANGED <<gone, spoiled>>

\* An earlier one, or a frugal one, leaves one out.
Omit(i) ==
    /\ Edit /\ pairs[i][1] \notin Unknown
    /\ pairs' = RemoveAt(pairs, i)
    /\ gone' = gone \cup {pairs[i][1]} /\ UNCHANGED spoiled

\* Keys in another order.
Move(i) ==
    /\ Edit /\ pairs' = [pairs EXCEPT ![i] = pairs[i + 1], ![i + 1] = pairs[i]]
    /\ UNCHANGED <<gone, spoiled>>

\* A value of a type the key does not have, or a message of a later version.
Spoil(i) ==
    /\ Edit /\ pairs[i][1] \notin Unknown
    /\ \E v \in {Value("map", 0)} \cup IF pairs[i][2].t = "tag" THEN {Value("tag", "Later")} ELSE {} :
          pairs' = [pairs EXCEPT ![i] = <<@[1], v>>]
    /\ spoiled' = spoiled \cup {pairs[i][1]} /\ UNCHANGED gone

Next ==
    \/ \E i \in 1 .. Len(pairs) + 1, k \in Unknown : Extend(i, k)
    \/ \E i \in 1 .. Len(pairs) : Omit(i) \/ Spoil(i)
    \/ \E i \in 1 .. Len(pairs) - 1 : Move(i)

Spec == Init /\ [][Next]_vars

-----------------------------------------------------------------------------
(* properties *)

\* Codes a later version may send.
Known(kind, v) ==
    CASE kind = "reason" -> v.v \in 1 .. 10 \cup {Other}
      [] kind = "close"  -> v.v \in {0, 1, 2}
      [] OTHER           -> TRUE

\* A message of the shape its type has, as our own encoder is given it.
WellFormed(m) ==
    /\ m.type \in DOMAIN MsgType \cup {"Funding"}
    /\ m.type = "Offer" => Len(m.f[1].v) >= 1
    /\ m.type = "TopUp" => Len(m.f[1].v) \in 1 .. MAX_CHANNEL_UPDATES
    /\ m.type = "TopUpReject" => Len(m.f[1].v) <= MAX_CHANNEL_UPDATES

\* What is written is what is read, whatever the order of the keys and
\* whatever keys another version adds; a key that may be absent means its
\* default, one that may not or has another type makes an error, never a
\* message with something made up in it (decode_*).
Understood ==
    WellFormed(msg) =>
    LET keys == KeysOf(msg.type)
        tag == IF msg.type = "Funding" THEN {} ELSE {0}
        lost == \/ gone \cap tag # {} \/ spoiled \ gone # {}
                \/ \E k \in DOMAIN keys \cap gone : keys[k].need IN
    IF lost THEN Decoded = Error
    ELSE /\ Decoded # Error /\ Decoded.type = msg.type
         /\ \A k \in DOMAIN keys \ gone :
               Known(keys[k].kind, msg.f[k]) => Decoded.f[k] = msg.f[k]
         /\ \A k \in DOMAIN keys \cap gone : Decoded.f[k] = keys[k].default

\* A provider that leaves the weight or the charge out of its Offer charges,
\* and both directions alike: leaving something out never makes it free.
NeverFreeByOmission ==
    msg.type = "Offer" /\ Decoded # Error =>
       /\ 4 \in gone => Decoded.f[4].v > 0
       /\ 5 \in gone => ~Decoded.f[5].v

\* Core is never handed an Offer with no mint, a purchase of nothing, or more
\* signatures to check than the limit (EmptyMintList, NoChannelUpdates,
\* TooManyChannelUpdates), whoever wrote it.
Bounded ==
    Decoded # Error =>
       /\ Decoded.type = "Offer" => Len(Decoded.f[1].v) >= 1 /\ Len(Decoded.f[3].v) = 2
       /\ Decoded.type = "TopUp" => Len(Decoded.f[1].v) \in 1 .. MAX_CHANNEL_UPDATES
       /\ Decoded.type = "TopUpReject" => Len(Decoded.f[1].v) <= MAX_CHANNEL_UPDATES

\* A reason this version does not know is still a refusal it can act on
\* (ReasonCode::from_u8): read as Other, never as an error or another reason.
LaterReasons ==
    WellFormed(msg) /\ gone = {} /\ spoiled = {} =>
       \A k \in DOMAIN KeysOf(msg.type) :
          LET kind == KeysOf(msg.type)[k].kind IN
          ~Known(kind, msg.f[k]) =>
             /\ Decoded # Error
             /\ Decoded.f[k] = Uint(IF kind = "reason" THEN Other ELSE Normal)
=============================================================================
