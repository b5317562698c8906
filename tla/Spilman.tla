------------------------------- MODULE Spilman -------------------------------
(***************************************************************************)
(* Cashu Spilman channels from one node to another                         *)
(* (tollgate-net/src/channel/spilman.rs and spilman/proceeds.rs), both ends*)
(* running the same backend: the payer funds channels and signs balances,  *)
(* the payee verifies the funding, keeps the balances core accepted, closes*)
(* each channel at the mint that issued its vouchers and burns or deposits *)
(* what it was paid, and the payer takes back the change.  The mints,      *)
(* merchantd and cdk-spilman itself are external.  A channel is named here *)
(* by the call that funded it; its id is a hash of its terms.              *)
(***************************************************************************)
EXTENDS Naturals, FiniteSets

CONSTANTS
    Channels,
    Urls,          \* mint URLs, <<the mint, whether a slash ends the URL>>
    OWN,           \* mint_url of the payee
    ACCEPTED,      \* accepted_mints of the payee
    BURNED,        \* burned_mints of the payee
    BURNS,         \* external: the mints that offer a burn
    CAPACITY,
    TTL,           \* ttl_seconds, the same at both ends
    Allowances,    \* bounds on what happens in a behaviour
    None

Allowance ==
    [channels : SUBSET Channels,                        \* channels funded
     urls     : SUBSET Urls,                            \* at these mints
     losable  : SUBSET {"swap", "burn", "deposit"},     \* calls whose answers may be lost
     now      : Nat,                                    \* when the clock stops
     faults   : Nat,                                    \* calls that fail or lose their answers
     restarts : Nat]                                    \* of the payee

ASSUME SpilmanAssumption ==
    /\ None \notin Urls
    /\ CAPACITY \in Nat \ {0} /\ TTL \in Nat
    /\ Allowances \subseteq Allowance

Amounts == 1 .. CAPACITY
Sides == {"payer", "payee"}

VARIABLES
    now,            \* now_seconds, at both ends
    last_expiry,    \* of the payer
    fund,           \* how far each call of the payer's fund() is
    signed,         \* the balances the payer signed on each channel
    verdict,        \* what the payee's verify() said of each funding
    fetched,        \* the mints the payee asked for a keyset
    server,         \* the payee's record of each channel
    accepted,       \* the balance core last accepted on each channel
    atmint,         \* external: each channel's funding, at its mint
    coins,          \* external: what became of each side's share of a close
    job,            \* where each side's settle() of a channel is
    result,         \* what it last returned
    disposed,
    faults,         \* so far
    restarts,
    spare           \* the behaviour's Allowance

vars == <<now, last_expiry, fund, signed, verdict, fetched, server, accepted,
          atmint, coins, job, result, disposed, faults, restarts, spare>>
fundVars == <<last_expiry, fund, verdict, fetched>>
payVars == <<signed, accepted>>
settleVars == <<coins, job, result, disposed>>

NoRecord == [state |-> "none", balance |-> 0]

TypeOK ==
    /\ now \in 0 .. spare.now
    /\ last_expiry \in Nat
    /\ fund \in [Channels -> [at : {"idle", "bought", "opening", "open", "failed"},
                              url : Urls \cup {None},
                              called : Nat, setup : Nat, expiry : Nat]]
    /\ signed \in [Channels -> SUBSET Amounts]
    /\ verdict \in [Channels -> {"none", "mint", "keyset", "expiry", "ok"}]
    /\ fetched \subseteq Urls
    /\ server \in [Channels -> [state : {"none", "open", "closed"}, balance : 0 .. CAPACITY]]
    /\ accepted \in [Channels -> 0 .. CAPACITY]
    /\ atmint \in [Channels -> [state : {"locked", "closed", "refunded"}, paid : 0 .. CAPACITY]]
    /\ coins \in [Sides -> [Channels -> {"locked", "out", "burned", "dropped", "deposited"}]]
    /\ job \in [Sides -> [Channels -> {"idle", "closing", "disposing"}]]
    /\ result \in [Sides -> [Channels -> {"none", "ok", "again", "cannot"}]]
    /\ disposed \in [Sides -> SUBSET Channels]
    /\ faults \in 0 .. spare.faults /\ restarts \in 0 .. spare.restarts

Init ==
    /\ now = 0 /\ last_expiry = 0
    /\ fund = [c \in Channels |-> [at |-> "idle", url |-> None,
                               called |-> 0, setup |-> 0, expiry |-> 0]]
    /\ signed = [c \in Channels |-> {}]
    /\ verdict = [c \in Channels |-> "none"]
    /\ fetched = {}
    /\ server = [c \in Channels |-> NoRecord]
    /\ accepted = [c \in Channels |-> 0]
    /\ atmint = [c \in Channels |-> [state |-> "locked", paid |-> 0]]
    /\ coins = [s \in Sides |-> [c \in Channels |-> "locked"]]
    /\ job = [s \in Sides |-> [c \in Channels |-> "idle"]]
    /\ result = [s \in Sides |-> [c \in Channels |-> "none"]]
    /\ disposed = [s \in Sides |-> {}]
    /\ faults = 0 /\ restarts = 0 /\ spare \in Allowances

Fault == faults < spare.faults /\ faults' = faults + 1
Lost(call) == call \in spare.losable /\ Fault

-----------------------------------------------------------------------------
(* helpers *)

\* settlement_for: the same mint, whatever slash ends its URL.
SameMint(u, v) == u[1] = v[1]
MintIs(c, v) == SameMint(fund[c].url, v)

\* min_expiry_seconds: the room a peer's channel must arrive with.
MinExpiry == TTL \div 2

\* unique_expiry: what fetch_update leaves in last_expiry and the caller gets.
Later(x, y) == IF x > y THEN x ELSE y
UniqueExpiry(wanted) == Later(wanted, last_expiry + 1)

\* The terms the channel's id is a hash of.  The payee, the unit and the
\* capacity are the same for all of them.
ChannelIdOf(f) == <<f.url, f.setup, f.expiry>>

-----------------------------------------------------------------------------
(* fund and verify *)

\* The keyset and the vouchers for a channel: got, or the call failed.
Fund(c, u) ==
    /\ fund[c].at = "idle"
    /\ \/ /\ fund' = [fund EXCEPT ![c].at = "bought", ![c].url = u, ![c].called = now]
          /\ UNCHANGED faults
       \/ /\ Fault
          /\ fund' = [fund EXCEPT ![c].at = "failed", ![c].url = u]
    /\ UNCHANGED <<now, last_expiry, verdict, fetched, payVars, server, atmint, settleVars, restarts>>

\* open takes its expiry before it locks the client, so calls of two threads
\* may take theirs in one order and open in the other.
TakeExpiry(c) ==
    /\ fund[c].at = "bought"
    /\ LET at == UniqueExpiry(now + TTL) IN
          /\ last_expiry' = at
          /\ fund' = [fund EXCEPT ![c].at = "opening", ![c].expiry = at]
    /\ UNCHANGED <<now, verdict, fetched, payVars, server, atmint, settleVars, faults, restarts>>

\* open_channel_from_token: refused if the client holds a channel of that id.
Open(c) ==
    /\ fund[c].at = "opening"
    /\ LET f == [fund[c] EXCEPT !.setup = now, !.at = "open"] IN
       fund' = [fund EXCEPT ![c] =
                  IF \E d \in Channels : fund[d].at = "open" /\ ChannelIdOf(fund[d]) = ChannelIdOf(f)
                  THEN [f EXCEPT !.at = "failed"] ELSE f]
    /\ UNCHANGED <<now, last_expiry, verdict, fetched, payVars, server, atmint, settleVars, faults, restarts>>

\* cache_keyset takes keysets from accepted mints only.
Takes(c) == fund[c].url \in ACCEPTED

\* verify: the mint must be accepted before anything is
\* fetched from it; fund_channel refuses an expiry too soon.
Verify(c) ==
    /\ fund[c].at = "open" /\ verdict[c] = "none"
    /\ \/ /\ ~Takes(c)                                       \* MintNotAccepted
          /\ verdict' = [verdict EXCEPT ![c] = "mint"]
          /\ UNCHANGED <<fetched, server, faults>>
       \/ /\ Takes(c)
          /\ fetched' = fetched \cup {fund[c].url}
          /\ \/ /\ Fault
                /\ verdict' = [verdict EXCEPT ![c] = "keyset"]
                /\ UNCHANGED server
             \/ /\ fund[c].expiry < now + MinExpiry
                /\ verdict' = [verdict EXCEPT ![c] = "expiry"]
                /\ UNCHANGED <<server, faults>>
             \/ /\ fund[c].expiry >= now + MinExpiry
                /\ verdict' = [verdict EXCEPT ![c] = "ok"]
                /\ server' = [server EXCEPT ![c] = [state |-> "open", balance |-> 0]]
                /\ UNCHANGED faults
    /\ UNCHANGED <<now, last_expiry, fund, payVars, atmint, settleVars, restarts>>

-----------------------------------------------------------------------------
(* updates *)

\* Core lets a channel go in the step that asks for its settlement.
Released(c) == job["payee"][c] # "idle" \/ result["payee"][c] # "none"

SignUpdate(c, n) ==
    /\ verdict[c] = "ok" /\ \A m \in signed[c] : n > m
    /\ signed' = [signed EXCEPT ![c] = @ \cup {n}]
    /\ UNCHANGED <<now, fundVars, server, accepted, atmint, settleVars, faults, restarts>>

\* verify_update: the channel is open and the signature is the funder's over
\* a balance that fits; nothing is recorded.
VerifyUpdate(c, n) == server[c].state = "open" /\ n \in signed[c]

\* record_update: the receiver only ever moves a balance forward.
RecordUpdate(c, n) ==
    IF VerifyUpdate(c, n) /\ n > server[c].balance
    THEN [server[c] EXCEPT !.balance = n] ELSE server[c]

\* A TopUp of several updates, honoured or refused as a whole: every update
\* verifies, core accepts the purchase, and only then is each recorded.  A
\* purchase refused changes nothing.
Honoured(ups, accept) ==
    accept /\ \A c \in DOMAIN ups : VerifyUpdate(c, ups[c]) /\ ~Released(c) /\ ups[c] > accepted[c]

\* Mutant: each update is recorded as it verifies.
TopUpKeepsVerified(ups, accept) ==
    /\ server' = [c \in Channels |->
                    IF c \in DOMAIN ups /\ VerifyUpdate(c, ups[c]) /\ ~Released(c)
                    THEN RecordUpdate(c, ups[c]) ELSE server[c]]
    /\ accepted' = [c \in Channels |->
                      IF c \in DOMAIN ups /\ Honoured(ups, accept) THEN ups[c] ELSE accepted[c]]
    /\ UNCHANGED <<now, fundVars, signed, atmint, settleVars, faults, restarts>>

TopUp(ups, accept) ==
    /\ Honoured(ups, accept)
    /\ server' = [c \in Channels |-> IF c \in DOMAIN ups THEN RecordUpdate(c, ups[c]) ELSE server[c]]
    /\ accepted' = [c \in Channels |-> IF c \in DOMAIN ups THEN ups[c] ELSE accepted[c]]
    /\ UNCHANGED <<now, fundVars, signed, atmint, settleVars, faults, restarts>>

-----------------------------------------------------------------------------
(* settle *)

\* settle() returns.
Return(s, c, r) ==
    /\ job' = [job EXCEPT ![s][c] = "idle"]
    /\ result' = [result EXCEPT ![s][c] = r]

\* Mutant: a channel that is not closed yet is left.
SettleClosedOnly(c) ==
    /\ verdict[c] = "ok" /\ job["payee"][c] = "idle" /\ result["payee"][c] # "cannot"
    /\ IF server[c].state = "closed" /\ c \notin disposed["payee"]
       THEN job' = [job EXCEPT !["payee"][c] = "disposing"] /\ UNCHANGED result
       ELSE Return("payee", c, "ok")
    /\ UNCHANGED <<now, fundVars, payVars, server, atmint, coins, disposed, faults, restarts>>

\* settle() of a channel a peer funded, asked for by core or tried again.  A
\* close with no balance to claim is refused before it reaches the mint.
Settle(c) ==
    /\ verdict[c] = "ok" /\ job["payee"][c] = "idle" /\ result["payee"][c] # "cannot"
    /\ \/ /\ server[c].state = "none" /\ Return("payee", c, "cannot")
       \/ /\ server[c].state = "open" /\ server[c].balance = 0 /\ Return("payee", c, "cannot")
       \/ /\ server[c].state = "open" /\ server[c].balance > 0
          /\ job' = [job EXCEPT !["payee"][c] = "closing"] /\ UNCHANGED result
       \/ /\ server[c].state = "closed" /\ c \notin disposed["payee"]
          /\ job' = [job EXCEPT !["payee"][c] = "disposing"] /\ UNCHANGED result
       \/ /\ server[c].state = "closed" /\ c \in disposed["payee"] /\ Return("payee", c, "ok")
    /\ UNCHANGED <<now, fundVars, payVars, server, atmint, coins, disposed, faults, restarts>>

\* close_error_is_permanent: the mint rejects the proofs (10xxx, 11xxx), here
\* because they are spent.  What fails otherwise may pass.
ProofError(c) == atmint[c].state # "locked"

\* The closing swap at the mint.  Spending the funding makes both shares.
Close(c) ==
    /\ job["payee"][c] = "closing"
    /\ \/ /\ Fault                                            \* unreachable
          /\ Return("payee", c, "again")
          /\ UNCHANGED <<server, atmint, coins>>
       \/ /\ atmint[c].state = "locked"
          /\ atmint' = [atmint EXCEPT ![c] = [state |-> "closed", paid |-> server[c].balance]]
          /\ coins' = [s \in Sides |-> [coins[s] EXCEPT ![c] = "out"]]
          /\ \/ /\ server' = [server EXCEPT ![c].state = "closed"]
                /\ job' = [job EXCEPT !["payee"][c] = "disposing"]
                /\ UNCHANGED <<result, faults>>
             \/ Lost("swap") /\ Return("payee", c, "again") /\ UNCHANGED server
       \/ /\ atmint[c].state = "closed"                       \* the same swap again, answered again
          /\ server' = [server EXCEPT ![c].state = "closed"]
          /\ job' = [job EXCEPT !["payee"][c] = "disposing"]
          /\ UNCHANGED <<result, atmint, coins, faults>>
       \/ /\ ProofError(c)
          /\ Return("payee", c, "cannot")
          /\ UNCHANGED <<server, atmint, coins, faults>>
    /\ UNCHANGED <<now, fundVars, payVars, disposed, restarts>>
\* Whether what c paid is burned: our own always, another's as configured.
ToBurn(c) == MintIs(c, OWN) \/ \E u \in BURNED : MintIs(c, u)

Dispose(s, c) ==
    /\ Return(s, c, "ok")
    /\ disposed' = [disposed EXCEPT ![s] = @ \cup {c}]

\* proceeds::burn, at mintd or at the mint.  A mint with no burn is answered
\* by dropping the vouchers; one already spent counts as burned.
Burn(c) ==
    /\ job["payee"][c] = "disposing" /\ ToBurn(c)
    /\ \/ /\ \A u \in BURNS : ~MintIs(c, u)
          /\ coins' = [coins EXCEPT !["payee"][c] = "dropped"]
          /\ Dispose("payee", c) /\ UNCHANGED faults
       \/ /\ \E u \in BURNS : MintIs(c, u)
          /\ \/ /\ coins' = [coins EXCEPT !["payee"][c] = "burned"]
                /\ Dispose("payee", c) /\ UNCHANGED faults
             \/ /\ coins' = [coins EXCEPT !["payee"][c] = "burned"]
                /\ Lost("burn") /\ Return("payee", c, "again") /\ UNCHANGED disposed
             \/ /\ Fault /\ Return("payee", c, "again") /\ UNCHANGED <<coins, disposed>>
    /\ UNCHANGED <<now, fundVars, payVars, server, atmint, restarts>>

\* Funding::deposit at merchantd, which receives a token only if it is not
\* spent: a side's share of a close, taken in.
Deposit(s, c) ==
    \/ /\ coins[s][c] = "out"
       /\ coins' = [coins EXCEPT ![s][c] = "deposited"]
       /\ \/ Dispose(s, c) /\ UNCHANGED faults
          \/ Lost("deposit") /\ Return(s, c, "again") /\ UNCHANGED disposed
    \/ /\ coins[s][c] = "deposited"
       /\ Return(s, c, "again") /\ UNCHANGED <<coins, disposed, faults>>
    \/ Fault /\ Return(s, c, "again") /\ UNCHANGED <<coins, disposed>>

Keep(c) ==
    /\ job["payee"][c] = "disposing" /\ ~ToBurn(c)
    /\ Deposit("payee", c)
    /\ UNCHANGED <<now, fundVars, payVars, server, atmint, restarts>>

\* settle() of a channel we funded: reclaim_change restores the change, which
\* is there once the payee closed.
Reclaim(c) ==
    /\ verdict[c] = "ok" /\ job["payer"][c] = "idle"
    /\ \/ /\ c \in disposed["payer"] /\ Return("payer", c, "ok")
          /\ UNCHANGED <<disposed, faults>>
       \/ /\ c \notin disposed["payer"]
          /\ \/ /\ \/ atmint[c].state = "locked" /\ UNCHANGED faults       \* not closed yet
                   \/ Fault
                /\ Return("payer", c, "again") /\ UNCHANGED disposed
             \/ /\ atmint[c].state = "closed" /\ atmint[c].paid < CAPACITY
                /\ job' = [job EXCEPT !["payer"][c] = "disposing"]
                /\ UNCHANGED <<result, disposed, faults>>
             \/ /\ \/ atmint[c].state = "closed" /\ atmint[c].paid = CAPACITY
                   \/ atmint[c].state = "refunded"                         \* spent, and no change
                /\ Dispose("payer", c) /\ UNCHANGED faults
    /\ UNCHANGED <<now, fundVars, payVars, server, atmint, coins, restarts>>

KeepChange(c) ==
    /\ job["payer"][c] = "disposing"
    /\ Deposit("payer", c)
    /\ UNCHANGED <<now, fundVars, payVars, server, atmint, restarts>>

-----------------------------------------------------------------------------
(* the world *)

Tick ==
    /\ now < spare.now /\ now' = now + 1
    /\ UNCHANGED <<fundVars, payVars, server, atmint, settleVars, faults, restarts>>

\* The refund path, open from the expiry on.  The funder's to take: this
\* backend does not.
Refund(c) ==
    /\ fund[c].at = "open" /\ now >= fund[c].expiry /\ atmint[c].state = "locked"
    /\ atmint' = [atmint EXCEPT ![c].state = "refunded"]
    /\ UNCHANGED <<now, fundVars, payVars, server, settleVars, faults, restarts>>

\* The payee stops and starts: channels are kept in memory
\* (StorageConfig::Memory), and so is what was disposed of.
Restart ==
    /\ restarts < spare.restarts /\ restarts' = restarts + 1
    /\ server' = [c \in Channels |-> NoRecord]
    /\ disposed' = [disposed EXCEPT !["payee"] = {}]
    /\ job' = [job EXCEPT !["payee"] = [c \in Channels |-> "idle"]]
    /\ result' = [result EXCEPT !["payee"] = [c \in Channels |-> "none"]]
    /\ UNCHANGED <<now, fundVars, payVars, atmint, coins, faults>>

Purchases == UNION {[D -> Amounts] : D \in (SUBSET spare.channels) \ {{}}}

Next ==
    /\ \/ \E c \in spare.channels, u \in spare.urls : Fund(c, u)
       \/ \E c \in spare.channels :
             \/ TakeExpiry(c) \/ Open(c) \/ Verify(c)
             \/ Settle(c) \/ Close(c) \/ Burn(c) \/ Keep(c)
             \/ Reclaim(c) \/ KeepChange(c) \/ Refund(c)
       \/ \E c \in spare.channels, n \in Amounts : SignUpdate(c, n)
       \/ \E ups \in Purchases, accept \in BOOLEAN : TopUp(ups, accept)
       \/ Tick \/ Restart
    /\ UNCHANGED spare

Spec == Init /\ [][Next]_vars

\* Core asks for the settlement of every channel it is paid on before its
\* expiry, the settler tries one that failed again until it ends
\* (Settler.tla), and a call at a mint or at merchantd returns: it has a
\* timeout.
FairSpec ==
    /\ Spec
    /\ \A c \in Channels :
          /\ WF_vars(Settle(c) /\ UNCHANGED spare)
          /\ WF_vars((Close(c) \/ Burn(c) \/ Keep(c)) /\ UNCHANGED spare)
          /\ WF_vars((Reclaim(c) \/ KeepChange(c)) /\ UNCHANGED spare)

-----------------------------------------------------------------------------
(* properties *)

\* unique_expiry: channels funded in the same second by threads that overtake
\* each other get ids of their own, so none is refused as one that exists and
\* no two share one.
DistinctIds ==
    \A c, d \in Channels :
       c # d /\ fund[c].at = "open" /\ fund[d].at \in {"open", "failed"} /\ fund[d].expiry > 0
       => ChannelIdOf(fund[c]) # ChannelIdOf(fund[d])

\* A channel closes at the last balance core accepted, whatever other
\* purchases were refused and whatever was signed for them (verify_update
\* keeps nothing, record_update comes before the settlement); and unless it
\* does, settle gives up only where no retry could help, never while the
\* funding is there to claim (close_error_is_permanent).
ClosesAtAccepted ==
    \A c \in Channels :
       /\ atmint[c].state = "closed" => atmint[c].paid = accepted[c]
       /\ (spare.restarts = 0 /\ result["payee"][c] = "cannot")
             => atmint[c].state # "locked" \/ accepted[c] = 0

\* A settlement counts as done only once what the channel paid went where the
\* configuration sends it, the payee's own vouchers and the change included:
\* disposed is set after the call that disposes, never before.
DisposedOf ==
    /\ \A c \in disposed["payee"] :
          coins["payee"][c] = IF ~ToBurn(c) THEN "deposited"
                              ELSE IF \E u \in BURNS : MintIs(c, u) THEN "burned" ELSE "dropped"
    /\ \A c \in disposed["payer"] :
          atmint[c].paid < CAPACITY /\ atmint[c].state = "closed" => coins["payer"][c] = "deposited"

\* Channels are told apart, though funded in one second by threads that
\* overtake each other; each closes at what core accepted on it, whatever else
\* was signed; and no attempt, retried or cut off, disposes of paper otherwise
\* than its mint is configured for (unique_expiry; verify_update and
\* record_update; settle and dispose).
ChannelsSound == TypeOK /\ DistinctIds /\ ClosesAtAccepted /\ DisposedOf

\* Nothing is lost that this backend does not make up for: what it holds in
\* memory, and the answer to a deposit.
Recoverable == spare.restarts = 0 /\ "deposit" \notin spare.losable

\* Every step of a settlement is made up for if it fails or its answer is
\* lost: the settlement ends, what was earned is claimed before the funder may
\* take it back, and what is left comes back to the payer (settle, close,
\* dispose and reclaim_change).
Settled ==
    \A c \in Channels :
       /\ (Recoverable /\ verdict[c] = "ok") ~> result["payee"][c] \in {"ok", "cannot"}
       /\ (Recoverable /\ accepted[c] > 0) ~> (atmint[c].state # "locked" \/ now >= fund[c].expiry)
       /\ (Recoverable /\ atmint[c].state = "closed" /\ atmint[c].paid < CAPACITY)
             ~> coins["payer"][c] = "deposited"
=============================================================================
