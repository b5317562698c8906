-------------------------------- MODULE Wire --------------------------------
(***************************************************************************)
(* One control-plane connection (tollgate-net/src/wire.rs) and its framing *)
(* (tollgate-protocol/src/frame.rs), in the direction a peer writes and we *)
(* read: the peer's writer frames each message of its outbox, TCP cuts the *)
(* bytes as it likes, and we read until an Announce says who is calling,   *)
(* then hand every message to the node until the connection ends.          *)
(***************************************************************************)
EXTENDS Naturals, Sequences, SequencesExt

CONSTANTS
    Messages,   \* records: kind "announce", "other" or "bad" (does not decode), len in bytes
    DIALLED,    \* whether the connection may be one we dialled
    GENUINE,    \* whether its address may be that of the key announced
    BASE,       \* what one byte of the length prefix can say; 256
    CHUNK,      \* the most one read returns
    MAX_SENT    \* bound: messages written

WireAssumption ==
    /\ \A m \in Messages : m.kind \in {"announce", "other", "bad"} /\ m.len \in Nat \ {0}
    /\ DIALLED \subseteq BOOLEAN /\ GENUINE \subseteq BOOLEAN
    /\ BASE \in Nat \ {0} /\ CHUNK \in Nat \ {0} /\ MAX_SENT \in Nat

MAX_FRAME_LEN == BASE * BASE - 1

VARIABLES
    genuine,    \* what verify finds
    sent,       \* what the peer's node put on the connection
    stream,     \* bytes written and not read
    fin,        \* the peer has stopped writing
    buf,        \* the FrameReader's
    phase,      \* "announce": in read_announce; "up": in read_loop; "refused" or "down"
    told        \* the Wire events the node got

vars == <<genuine, sent, stream, fin, buf, phase, told>>

\* The bytes of a message: each known by its message and its place in it.
Body(m) == [i \in 1 .. m.len |-> [of |-> m, at |-> i]]
Prefix(n) == [of |-> "prefix", at |-> n % BASE]
Byte(b) == b.at % BASE

TypeOK ==
    /\ sent \in Seq(Messages) /\ Len(sent) <= MAX_SENT
    /\ fin \in BOOLEAN /\ genuine \in BOOLEAN
    /\ Len(buf) <= MAX_FRAME_LEN + 1
    /\ phase \in {"announce", "up", "refused", "down"}

Up == [event |-> "PeerUp"]
Down == [event |-> "PeerDown"]
Arrived(m) == [event |-> "Message", msg |-> m]
ArrivedAll(ms) == [i \in DOMAIN ms |-> Arrived(ms[i])]

\* Dialled: run() starts with an empty reader.  Accepted: read_announce does.
\* run() refuses a peer whose address is not its key's.
Init ==
    /\ genuine \in GENUINE
    /\ sent = <<>> /\ stream = <<>> /\ fin = FALSE /\ buf = <<>>
    /\ \/ TRUE \in DIALLED /\ phase = "up" /\ told = <<Up>>
       \/ TRUE \in DIALLED /\ ~genuine /\ phase = "refused" /\ told = <<>>
       \/ FALSE \in DIALLED /\ phase = "announce" /\ told = <<>>

-----------------------------------------------------------------------------
(* framing *)

\* encode_frame: the length as two bytes, the lower first, and the message.
EncodeFrame(m) == <<Prefix(m.len), Prefix(m.len \div BASE)>> \o Body(m)

Bad == [kind |-> "bad", len |-> 0]

\* decode: a message, or one that is not.
Decode(bytes) ==
    LET those == {m \in Messages : m.kind # "bad" /\ Body(m) = bytes} IN
    IF those = {} THEN Bad ELSE CHOOSE m \in those : TRUE

\* next_with: whether a frame is there whole, and its length.
FrameLen(b) == Byte(b[1]) + BASE * Byte(b[2])
Whole(b) == Len(b) >= 2 /\ Len(b) >= 2 + FrameLen(b)

\* next_message until it returns None: every message whole in b, in order, and
\* what is left; from[i] is what comes after i bytes.
Pull(b) ==
    LET from[i \in 0 .. Len(b)] ==
          LET rest == SubSeq(b, i + 1, Len(b)) IN
          IF ~Whole(rest) THEN [msgs |-> <<>>, rest |-> rest]
          ELSE LET more == from[i + 2 + FrameLen(rest)] IN
               [more EXCEPT !.msgs = <<Decode(SubSeq(rest, 3, 2 + FrameLen(rest)))>> \o @]
    IN from[0]

Good(ms) == SelectSeq(ms, LAMBDA m : m.kind # "bad")

-----------------------------------------------------------------------------
(* the peer *)

Write(m) ==
    /\ ~fin /\ Len(sent) < MAX_SENT
    /\ sent' = Append(sent, m)
    /\ stream' = stream \o EncodeFrame(m)
    /\ UNCHANGED <<genuine, fin, buf, phase, told>>

\* The peer's writer ends, between two messages.
Stop ==
    /\ ~fin /\ fin' = TRUE
    /\ UNCHANGED <<genuine, sent, stream, buf, phase, told>>

-----------------------------------------------------------------------------
(* our reader *)

\* The stream ended: read returned nothing.
Ended == fin /\ stream = <<>>

\* Mutant: the bytes read behind the Announce are thrown away.
ReadAnnounceNewReader(n) ==
    /\ phase = "announce"
    /\ LET got == Pull(buf \o SubSeq(stream, 1, n)) IN
       /\ stream' = SubSeq(stream, n + 1, Len(stream))
       /\ \/ got.msgs = <<>> /\ buf' = got.rest /\ UNCHANGED <<phase, told>>
          \/ /\ got.msgs # <<>> /\ Good(got.msgs) = got.msgs /\ got.msgs[1].kind = "announce"
             /\ buf' = <<>> /\ phase' = "up" /\ told' = <<Up>> \o ArrivedAll(got.msgs)
          \/ /\ got.msgs # <<>> /\ ~(Good(got.msgs) = got.msgs /\ got.msgs[1].kind = "announce")
             /\ phase' = "refused" /\ UNCHANGED <<buf, told>>
    /\ UNCHANGED <<genuine, sent, fin>>

\* read_announce, and the start of run: the first message must be an
\* Announce, nothing read with it may fail to decode, its key must be its
\* address's, and all that was read goes to the node behind the PeerUp.
ReadAnnounce(n) ==
    /\ phase = "announce"
    /\ LET got == Pull(buf \o SubSeq(stream, 1, n))
           fits == Good(got.msgs) = got.msgs /\ got.msgs[1].kind = "announce" /\ genuine IN
       /\ stream' = SubSeq(stream, n + 1, Len(stream))
       /\ \/ got.msgs = <<>> /\ buf' = got.rest /\ UNCHANGED <<phase, told>>
          \/ /\ got.msgs # <<>> /\ fits
             /\ buf' = got.rest /\ phase' = "up"
             /\ told' = <<Up>> \o ArrivedAll(got.msgs)
          \/ got.msgs # <<>> /\ ~fits /\ phase' = "refused" /\ UNCHANGED <<buf, told>>
    /\ UNCHANGED <<genuine, sent, fin>>

\* read_loop: what decodes goes to the node, what does not is passed over.
\* A reader holding more than two frames' worth would end the connection.
ReadLoop(n) ==
    /\ phase = "up"
    /\ LET got == Pull(buf \o SubSeq(stream, 1, n))
           over == Len(got.rest) > 2 * MAX_FRAME_LEN IN
       /\ stream' = SubSeq(stream, n + 1, Len(stream))
       /\ buf' = got.rest
       /\ phase' = IF over THEN "down" ELSE "up"
       /\ told' = told \o ArrivedAll(Good(got.msgs)) \o (IF over THEN <<Down>> ELSE <<>>)
    /\ UNCHANGED <<genuine, sent, fin>>

\* The peer is gone: the node hears of it if it ever heard of the peer.
Eof ==
    /\ Ended /\ phase \in {"announce", "up"}
    /\ phase' = IF phase = "up" THEN "down" ELSE "refused"
    /\ told' = IF phase = "up" THEN Append(told, Down) ELSE told
    /\ UNCHANGED <<genuine, sent, stream, fin, buf>>

Reads == 1 .. (IF Len(stream) < CHUNK THEN Len(stream) ELSE CHUNK)

Next ==
    \/ \E m \in Messages : Write(m)
    \/ \E n \in Reads : ReadAnnounce(n) \/ ReadLoop(n)
    \/ Stop \/ Eof

Spec == Init /\ [][Next]_vars

-----------------------------------------------------------------------------
(* properties *)

Handed == LET ms == SelectSeq(told, LAMBDA e : e.event = "Message") IN [i \in DOMAIN ms |-> ms[i].msg]

\* The node gets the messages the peer wrote, in order and each once, however
\* the bytes were cut and wherever the reader stood when it was identified:
\* all of them once all bytes are read, but for those that do not decode.
HandedInOrder ==
    /\ IsPrefix(Handed, Good(sent))
    /\ phase \in {"up", "down"} /\ stream = <<>> => Handed = Good(sent)

\* What the node hears of a connection is its PeerUp, its messages, and its
\* PeerDown: messages of a peer it knows nothing of, or after its end, never.
ToldInOrder ==
    /\ told # <<>> => told[1] = Up
    /\ \A i \in DOMAIN told : told[i] = Up => i = 1
    /\ \A i \in DOMAIN told : told[i] = Down => i = Len(told)
    /\ (phase = "down") <=> (told # <<>> /\ told[Len(told)] = Down)
=============================================================================
