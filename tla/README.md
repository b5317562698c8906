# A TLA+ model of TollGate

TollGate nodes sell each other network capacity. A payer funds payment channels
toward a provider, signs rising totals on them (TopUps), and each increase buys
a *budget*: units it may move before a deadline, optionally with a reserved
rate. Around that lie the parts that carry it out: a node's event loop, the
enforcers that gate and count traffic, the channel backend that settles at a
mint, and merchantd, which sells and holds ecash. This directory models those
parts of `crates/`, checks them with TLC and proves the core of them with TLAPS.

Paths below are relative to `src/crates/`.

## 1. The system

### Inventory

| part | state | operations | interacts with |
|---|---|---|---|
| grant (`tollgate-core/src/grant`) | per payer: channels with ratchet and failures, `authorized`, `consumed`, `deadline`, reserved rate, the second being drawn | apply, draw, pause, expire, restart, restore, open/close channel; `evaluate_topup` | called by sessions |
| sessions, provider side (`session/core.rs`, `session/state.rs`) | `peers`, `parked`, `overrides`; per session phase, access, applied rate, last seen | one handler per event and message; tick; shutdown; forget | events from the node, actions to it |
| sessions, buyer side (`buyer/`) | channels active, next and pending, funding requests, own count of the budget, the purchase to undo | poll, record, record_reject, rollover, funding answers and timeouts | same session record; the peer's provider side over the link |
| node (`tollgate-net/src/node.rs`) | links with connection ids, budget keys, deferred fundings | the event loop: wire events, answers of workers, the timer, shutdown | core, enforcer, backend, settler, budget store |
| budget store (`budgets.rs`) | remaining and deadline per payer key, in memory and in a file | get, put, prune, open | node |
| settler (`settle.rs`) | settlements in flight, shutdown deadline | settle with retries, begin_shutdown, drain | node, backend |
| channel backend (`channel/`) | the receiver's and the client's record of each channel, the last expiry used, what has been disposed of | fund, verify, sign, verify_update, record_update, settle | node's worker threads, a mint, merchantd |
| enforcers (`enforcer/`) | per peer: level, rate, counters, and what the kernel, FIPS or another process holds for it | register, set_access, set_shaping_rate, counters, remove, selling | kernel, FIPS, an external process |
| wire, protocol (`wire.rs`, `tollgate-protocol`) | a connection's buffer and phase | framing, identification by the Announce, encoding and decoding by key | node |
| wallet (`wallet.rs`) | paper per mint, top-up quotes | fund, spend, split, deposit, top_up, collect, claim, recover | mints, merchantd |
| market, merchant, pricing | prices, rates, the price table, the mint's cached ceiling | swap, set_price, reprice, keep_fetching | wallet, mintd, rate sources |
| mint, control, configuration, data plane, binaries | not modelled, see section 6 | | |

### What is hard

The event loop takes one event at a time and carries out every action core
answers with before the next, so a handler is atomic. What interleaves is
outside it: messages of several peers; connections that end, return, or replace
one whose end has not been noticed; fundings made and verified on other threads
and answered to whatever session exists by then; the clock, with deadlines of
budgets, refund paths, grace periods, requests and silence; a shutdown or a
crash between any two events, which leaves only files and what other programs
hold; calls to the kernel, FIPS, a mint or merchantd that fail, or do their work
and lose their answer; HTTP requests that are tasks of their own. The numbers
saturate at 64 bits. `PROJECT.json` lists each hazard at its line with the
property that would show it going wrong.

What makes the parts correct:

- *grant*: a budget is never overdrawn; a reservation ends with its budget and
  its session; a step costs no more than what moved or was reserved.
- *sessions*: budgets grow only by payment and shrink only by use or expiry;
  reservations together fit the capacity; the gate and the shaper follow the
  budget; every channel given up is settled, once, before its refund path
  opens; nothing is paid on an unverified channel.
- *buyer*: signs only on confirmed channels it still has, keeps up with the
  provider's total unless it takes one channel for another, stops before the
  provider settles, and ends up able to pay.
- *node and store*: the gate, the held fundings and the budget belong to the
  connection and the payer that is there; a crash never costs the payer.
- *settler*: one task per channel, retried in time and not for ever.
- *enforcers*: what core decided is what is done; each unit is charged to one
  payer, once; nothing of a payer is left behind.
- *backend and merchantd*: a channel closes at what core accepted; what it paid
  goes where the configuration sends it; paper is credited once; a sale is paid
  for in full, once, and every payment taken ends as a sale, a refund or a debt.
- *wire and codec*: messages are handed over in order and each once; another
  version's message means what it said or is refused.

## 2. The modules

| module | models |
|---|---|
| `Limits` | `grant/limits.rs`, `time.rs`: saturating arithmetic, rates and units, the power-of-two ceiling, the second of the draw rule |
| `Grant` | `grant/state.rs`, `grant/core.rs`: the grant as a record and its operations as operators; the decision on a purchase |
| `Provider` | the provider half of `Sessions`, with the node's links, enforcer entries, budget store and the totals of the channel backend |
| `Buyer` | `buyer/state.rs`, `buyer/core.rs`: the buyer as a record and its operations as operators |
| `Peering` | one buyer and one provider, each with its session, over a link, with the host's funding and verifying in between |
| `Account` | the abstract account the two ends implement |
| `Budgets`, `Host` | `budgets.rs`; what `node.rs` keeps of one peer: connections, the gate, held fundings, the budget key, core's session and parked session |
| `Funding` | the funding requests of the buyer and the tasks and backoff of the host that answer them |
| `Settler` | `settle.rs` and `wind_down` |
| `KeepAlive` | the keepalive of one node and the stale check of the other |
| `External` | `enforcer/external.rs` and the enforcer at the other end of its socket |
| `Ip` | `enforcer/ip.rs` and the kernel's sets, maps, marks, filters and classes |
| `Fips` | `enforcer/fips.rs` with `meter.rs`, and the FIPS daemon |
| `Spilman` | `channel/spilman.rs`, `proceeds.rs`, at both ends of a channel |
| `Send`, `Wallet` | `wallet.rs` |
| `Market`, `Merchant` | `market.rs`; `merchant.rs` and `pricing.rs` |
| `Wire` | `wire.rs` and `frame.rs` |
| `Codec` | `codec.rs`, `types.rs`, `message.rs` and the funding blob |
| `Sums` | sums over a set, which `Provider`, `Peering` and `Wallet` use |
| `SumProofs` | what a sum over any finite set does when one term changes |
| `GrantProofs`, `ProviderProofs` | the proofs of the provider |
| `PeeringProofs` | the proofs of the buyer's operators and of the two ends together |
| `SpilmanProofs` | the proofs of the channel backend |
| `NodeProofs` | the proofs of what the node keeps of a peer, and of its settlements, fundings and keepalives (`Host`, `Settler`, `Funding`, `KeepAlive`) |
| `MerchantdProofs` | the proofs of merchantd (`Wallet`, `Market`) |
| `LinksProofs` | the proofs of an external enforcer's connection, FIPS' and the protocol's (`External`, `Fips`, `Codec`) |

`Provider` and `Buyer` extend `Grant`, which extends `Limits`. `Peering` extends
`Buyer` and instantiates `Account`. `Host` extends `Budgets`; `Wallet` and
`Market` extend `Send`.

The parts that do not share state with each other are checked together by one MC
module each: `MCNode` (`Host`, `Settler`, `Funding`, `KeepAlive`), `MCLinks`
(`External`, `Fips`, `Wire`, `Codec`), `MCMerchantd` (`Wallet`, `Market`,
`Merchant`); `MCForward` has `Ip` alone. A variable says which part a behaviour is of;
the variables of the others are `Off`. This is a way of running several models
at once and not a composition: no part reads another's variables.

An *Allowance* is a record of how much of what may go wrong, or be asked for, a
behaviour has: faults, crashes, calls, units, revisions. Its initial state
chooses one of a set of Allowances, kept in `spare`, and the guards use it up. A
run so checks several combinations of a few of each instead of the product of
all.

## 3. How the models correspond to the code

Operators and actions carry the names of the functions they model, in TLA+'s
capitals. Each action is a whole handler, with the refresh, save, settlement or
retry it ends in. `PROJECT.json` gives the lines of every definition.

### Provider

A payer is in `peers` or in `parked`, never both, so `sess[p]` is one record
with a `place`. Its fields are those of `PeerSession` that the provider half
reads, plus `linked`: the host holds a link and the enforcer an entry for the
peer. Of the phases only `Closing` is read by this half (`closing`). Most
handlers are chains of operators on an *outcome*: the session, the budget kept
in the store, and the channels handed to the settler. Outcomes are put in place
by `Commit`.

| action | code |
|---|---|
| `PeerUp`, `PeerUpBlocked` | `Wire::PeerUp`, then `on_connected` |
| `PeerDown` | `Wire::PeerDown`, then `on_disconnected` |
| `RecvDisconnect` | Disconnect received, an Announce of another version or unit |
| `RecvOffer`, `OutgoingFunded` | the two places where the buying half refreshes the session or sets its phase (`on_offer`, `on_outgoing_funded`) |
| `RecvAccept`, `RecvEmptyAccept`, `RecvRolloverInit` | `on_accept`, RolloverInit |
| `FundingVerified`, `FundingRejected` | the worker's answer (`on_incoming_verified`, `reject`) |
| `RecvTopUp`, `RecvBadSignature` | the node's checks, then `on_topup` or `on_unverified_topup` |
| `RecvChannelClose` | ChannelClose and CloseAck |
| `RecvOther` | any other message: only `last_seen` |
| `SetPeerPolicy` | `set_peer_policy` |
| `Elapse`, `Tick` | the timer, then `on_tick`: every meter read, core's tick for every session, parked sessions |
| `Shutdown`, `Crash` | `wind_down`; the process dying |

Abstractions and assumptions:

- A channel's capacity, expiry and funder come with its funding and are constant
  functions. `MIN_EXPIRY` is the shortest expiry the backend takes
  (`channel/spilman.rs:66`); `2 * LEAD <= MIN_EXPIRY` follows from the startup
  check of `tollgate-net/src/config.rs:315` and `config.rs:266` of core.
- A payer sends the funding of a channel once. A connection neither repeats nor
  reorders messages; what a payer says on a replaced connection is dropped by
  the node (`Host` checks that).
- A worker's check of a funding and the event loop's reading of the answer are
  one moment of the clock. The answer may come at any later step, to any later
  session.
- Signatures are abstract: a TopUp either verifies on every channel, all funded
  by this payer, or fails on one.
- Refusing a TopUp because it is too soon, or because the enforcer does not
  sell, changes nothing and is not a step. A tick's reading may find the peer
  not carried.
- The timer fires before time passes again: the model has a tick per unit of
  time. Events may come before or after it.
- The store and its file are one value here; failed writes are in `Host`.
- A crash forgets core's channel state; the backend's record stays.
- An operator's override is kept over a restart, as the configuration it comes
  from is. The node sets policies only at startup; `SetPeerPolicy` while it runs
  is what core's interface allows, and is enabled by `Overrides` in one run.
- `Buying` says whether the node buys at all. An Offer that affirms nothing may
  come at any time of a session, where the code refreshes only on the first.
- `Overlap` says whether a payer that ended a session may be back before the end
  of its old connection has reached the node.

### Buyer, Peering and Account

`b` is the `Buyer`, `bs` what the session record says of buying, `g` the
provider's grant for this payer. `toB` and `toP` are the messages in flight,
`requests` the fundings the payer's host is making, `verifying` those the
provider's is checking. `BuyerReceives` and `ProviderReceives` are the handlers
of each message; `Ticks` the two timers; `HostStep` a funding made, refused or
verified; `Environment` what goes wrong: a message dropped by a full outbox, a
link cut with everything in flight, either end's notice of it, a process dying,
terms and policies revised.

`Account` has four numbers: signed, credited, left and saved. `Peering`
implements it with the totals signed on all channels, the totals the provider
recorded, what its grant (or the store, without a session) holds, and what the
store holds. The mapping is a function of the state: no history variable. It
says that whatever is lost, repeated or restarted, credit never exceeds what was
signed, and what is left grows only by credit, or returns to what was saved.

Left out: Announce, Reject, the refusal of a from-payer weight, Disconnect and
`upload_rate` (a session that ends is a cut, one that never buys is
`NotBuying`). Whether a payer's return is in time for its parked session is
nondeterministic. Both ends take up a connection in one step. The notice a
provider sends when a budget is spent is left out: the buyer's own count does
not depend on it. Other payers' reservations are an input, `Availables`.

### Host and Budgets

`conns` are the connections of one peer's key, each up, ended or heard to have
ended; `link` the one the node answers; `gated` what the enforcer has; `fundings`
those in the worker, held or done; `session` and `parked` core's; `budget_key`,
`records`, `file` and `dirty` the store's. `ByAddress` is identity by address,
with `forget`. Deadlines are kept in wall-clock time (`unix`) and core's clock
starts at zero with the node (`started`).

A `DropPeer` takes the link and not the connection, which is read until its end.
While there is no link nothing is "replaced", and core acts on a message of any
session it has, an ending one too (`Hears`): a purchase is recorded, a funding
is verified or, during an outage, held for no link (`late`), and a verified one
or the opening Offer of a resumed session (`resumed`) makes an ending session
live again. Left out: blocked peers, jumps of the wall clock. Whether silence or
the grace period is over is nondeterministic, and so is whether the peer had
affirmed the channel of a session that resumed.

### Funding, Settler, KeepAlive

`Funding`: requests with ids, the host's tasks, the failures in a row and the
backoff before core hears of one, the timeout that makes core ask again.
`Settler`: each task of `Job::run` is attempting, sleeping, woken or gone.
Timers fire when due; the requests a shutdown itself makes take no time; an
attempt may take any time. `KeepAlive` counts ages, not times, on one direction
of a link.

### The enforcers

`External`: `node` is the shared state, `sess` the phase of `maintain`, `enf`
the enforcer at the other end. The outbox and the socket behind it are one
queue, one of the two counters is modelled, and the demand the node reports is
left out. Which of two payers that claim an address has it is the enforcer's
choice until the other is told of the conflict; a snapshot is sent in the order
the node registered its payers. `carried` and `was` say what was really moved.

`Ip`: `elems`, `marks`, `filters`, `classes` and `counters` are the kernel's.
A refresh may find any tables, so reading them is not modelled. The commands that
may fail are those of `gate`, where an allowance says so: the IPv4 one, after
which the verdict is not recorded, or any of the IPv6 ones, after which it is.
`missed` remembers the IPv6 elements a failed command left as they were, for the
properties only. The additions of a refresh can fail in the module and in no
run; the commands of `register`, of `remove`, of a refresh's removals and of tc
never do. `Tenants` and `Clashes` say whether two payers may
share an address and whether two links may claim one IPv6 address. Payers
registered by an IPv6 address are left out.

`Fips`: `policy`, `default` and the counts are the daemon's, which is external:
it counts under a policy until that is cleared and forgets everything when it is
started again. Traffic of peers with no policy is not counted. The calls core's
decisions lead to are executed one after another, and each may fail.

### Spilman, Wallet, Market, Merchant

`Spilman`: cdk-spilman, the mints and merchantd are external. Both ends have the
same TTL, all channels one capacity. A call may fail or do its work and lose its
answer; a swap asked for again is answered again or refused, as mints differ.
Only the payee restarts. The refund path after expiry is cdk's.

`Wallet`: cdk's coin selection and storage are external. A claim's call to the
mint is one step; merchantd may be killed before or after it. `Market`: a
request is at one of its awaits (`sale[s].at`); the price, mintd's ceiling and
the cache of it change in between. `LostAnswers` says whether the mint's answer
to the second call of `issue` can be lost after it signed. `Merchant`: the locks
are modelled as the code takes them, so a table may be computed from rates that
are old when it is put in place.

### Wire and Codec

`Wire`: the length prefix counts to base 2 instead of 256, so `MAX_FRAME_LEN` is
3, with messages at the limit. Bytes are abstract, TCP hands over any part of
what was sent. One connection, one direction.

`Codec`: a message is a map from keys to typed values. A writer of another
version may leave out keys, add unknown ones, reorder, use wide numbers or the
wrong type (`edits`). Known keys are not repeated. Numbers that do not fit 32
bits are one value, `wide`.

## 4. The properties and the runs

| property | says |
|---|---|
| `TypeOK` | widths, and the failure count below its limit |
| `BudgetSound` | never overdrawn; no reservation without a budget; only a live session reserves or draws |
| `RecordedIsGranted` | the backend holds what was granted on each recognised channel |
| `PaidAfterVerified` | nothing is recognised or recorded before the funding verified |
| `SettledOnce` | each channel is handed over at most once, and not paid on after |
| `RefundSafe` | no channel is recognised when its refund path opens |
| `DiskCovers` | the store covers the live budget of a charged payer |
| `NoFreeBudget` | a budget grows only by what is paid |
| `BudgetKept` | a step costs at most what moved and what the reservation owes |
| `GateFollowsBudget` | a live budget is never gated; the shaper never lets a budget be overrun in a tick |
| `ClosedIsSettled` | a channel core stops recognising is handed over in the same step |
| `ReservedFits` | the rates of all connected payers fit `max_rate` |
| `SignedOnConfirmed` | the payer signs on no channel whose funding is still being checked, nor on one handed back |
| `OneFunding` | while a funding request is open no channel awaits confirmation, so what comes back displaces none |
| `KeepsUp` | only taking one channel for another puts the payer behind the total the provider has taken |
| `SignedBeforeSettling` | nothing is signed on a channel once the provider is due to settle it |
| `ImplementsAccount` | refinement: `Peering` implements `Account` |
| `EventuallyPaying` | the payer ends up on a channel the provider takes payment on, unless all channels there are have been used up |
| `HostSound` | the gate is that of the connection in use; a funding held back came on it, or behind a drop; the budget is the payer's, its deadline where it was bought to last; the file is behind only while writes fail |
| `HeldEnds` | a funding held back is verified or let go once the enforcer sells |
| `SettledByOne` | a channel is claimed exactly while one task settles it |
| `RetriesInTime` | no settlement is tried past its deadline or given up while waiting to be tried; a mint that is down is not asked again at once |
| `SettlementEnds` | a settlement with a deadline ends |
| `WaitsForAnswer` | core never waits on a request the host has answered |
| `NeverTakenForGone` | keepalives come in time, one of them lost |
| `EnforcerInSync` | with everything read an external enforcer has what the node has, and it is never sent what its hello refuses; FIPS does what core decided, and never more on the way |
| `CarriedIsCharged` | no unit is charged twice, or to a payer it was not carried for, over reconnections and counters that start over |
| `HolderStays` | of two claimants to an address the holder before a reconnection is the holder after |
| `EnforcerReached` | an enforcer that fits is connected in the end |
| `MessagesInOrder` | the node is told of the peer, its messages in order and once, and its end |
| `MessagesUnderstood` | across versions, a message means what it said or is refused; an Offer is never free by omission |
| `DecisionInForce` | what core decided is what the kernel does; after a failed command IPv4 is as recorded, and an IPv6 element is wrong only until the next command on it |
| `ChargedToOne` | what is carried is charged once, to the right payer, as addresses and counters move |
| `ShapedAndCleared` | a payer is shaped to its own rate and leaves nothing behind but what a failed command did |
| `PaperSound` | a top-up is credited once, and by a claim at the latest; a payment is split within what it brought |
| `SaleSound` | what is signed was paid in full, once; a refund costs nobody else and nothing signed is refunded |
| `PaymentEnds` | a paid top-up is minted, a swap ends as a refusal, a sale, a refund or a debt |
| `TableSettles` | with prices and rates left alone the table comes to be the one they give |
| `ChannelsSound` | channels have distinct ids, close at what core accepted, and what they paid goes where the configuration sends it |
| `Settled` | a channel handed over is closed and disposed of in the end |

Those named for several things are conjunctions of the modules' own invariants,
which state each by itself. Runs that pass:

- **provider** (`MCProvider.cfg`): one payer, two channels of capacity 2, one of
  them expiring at 3, windows and seconds of 2, a grace of 1, rates 0 and 2, the
  clock to 3, one ChannelClose. Purchases on one channel, on both, twice on one,
  and past its capacity. Small enough to be exhaustive, and long enough for a
  budget and a channel to expire, a second to complete or be split, a held
  session to be resumed or given up, a channel to be filled and a failure count
  to reach its limit of 2.
- **admission** (`MCAdmission.cfg`): two payers with a channel each and a
  capacity of 2 for reservations of 2, or one of them with its policy changed at
  any moment (`Bound`); replaced connections with `Overlap`, no grace, a node
  that also buys, and a width of 3, so that `authorized`, rates and the clock
  saturate. The payers are symmetric together with their channels.
- **dealings** (`MCDealings.cfg`): three channels, the first of 3 units and
  expiring at 3, the others of 8 and alike (the symmetry), so that a payer that
  pays per use or reserves fills one and rolls over to the next; a margin of 2
  on a clock to 2; capacity for a reservation or none. Each behaviour has one of
  a lost message, a cut, a failed funding, a revision, a policy change
  (`OneOfEach`).
- **paying** (`MCPaying.cfg`, fair): one failed funding and one cut together,
  large channels, one policy.
- **node** (`MCNode.cfg`): three connections from two addresses, two fundings
  with a limit of one held, a purchase of two units with a crash, or an outage;
  two settlements of two channels, doubling to a cap, with a shutdown;
  three funding requests with an outage; a stale timeout of 9 with delays to 1.
- **links** (`MCLinks.cfg`): two payers, two addresses, an outbox of one, with
  one or two faults and hellos that fit, lack delegation, or are of another
  version or unit; FIPS with two payers and three decisions, or one with
  restarts, failing requests and a killed node; three messages of a wire; two
  edits of any of the messages.
- **forward** (`MCForward.cfg`): two payers at two addresses with two MACs that
  change places, or one with two IPv6 addresses of which one is followed, whose
  gate works, or has two commands fail for IPv4, or two for IPv6.
- **merchantd** (`MCMerchantd.cfg`): two top-ups with two faults, two splits
  beside a funding; two sales with two tokens, one fault and one change; two
  operators' changes and two rate moves.
- **spilman** (`MCSpilman.cfg`, fair): one channel in four kinds of mint with two
  faults and a restart; two channels funded in one second.

`CHECK_DEADLOCK FALSE` stands in the runs whose behaviours end when their
allowance is used up and there is nothing more to do; in the others every state
has a next. The bounds are small, and chosen so that the hazards of the list
happen within them; every action fires, and each property is broken by a mutant of the code
listed in `PROJECT.json` (the operators marked *Mutant* in the modules).

### Fairness

- `Peering`: both event loops take what has arrived and their ticks, as each is
  a `select` that polls every source; workers answer what they were given, in
  any order; a connection that can be made is made again; time passes. Nothing
  is assumed of any particular message, which may be lost while the allowance
  lasts.
- `Host`: the interval ticks; an enforcer that stopped selling sells again.
- `Settler`: the runtime runs the timers and wakeups; an attempt ends, as
  calls to a mint time out (`MINT_REQUEST_TIMEOUT`, `channel/spilman.rs:87`) and
  those of `proceeds.rs` end with their connection. Only `SettlementEnds` needs
  this last.
- `External`: `maintain` tries again after `RECONNECT`, the session's `select`
  polls reader, writer and end; the enforcer reads its socket.
- `Wallet`, `Market`, `Merchant`: a request is a task the server runs, and each
  call ends by an answer or the client's timeout; a top-up's task is polled; the
  fetching task runs. `Fetch` is strongly fair: a source that answers again and
  again is heard, as each round asks all of them.
- `Spilman`: the settler tries again, and a call ends. `Settled`
  claims nothing where a deposit's answer may be lost or the payee restarts (see
  below).

### Where the code and its comments part

Runs that show it:

- **return** (`MCReturn.cfg`, `NoFreeBudget` with `Overlap`): a payer buys,
  draws, says Disconnect and is back before the end of its old connection. The
  node reads its budget from the store (`node.rs:412`), then core saves the
  ended session's budget (`session/core.rs:561`), too late: the new session
  starts from the budget of the last purchase, and what was drawn is given back.
- **stranded** (`MCStranded.cfg`, `NothingStranded`): a RolloverReady arrives
  between a purchase and its refusal; `record_reject` (`buyer/state.rs:867`)
  restores the replacement as it was before, so the confirmed channel is
  forgotten with what was funded in it. A replacement that is put back can
  likewise be displaced by one asked for meanwhile.
- **renamed** (`MCRenamed.cfg`, `BuyerNotBehind`): `on_channel_ready`
  (`session/core.rs:705`) takes a ChannelReady for any channel but the one in
  use as the confirmation of the one pending, and `confirmed`
  (`buyer/state.rs:637`) renames that. A payer that died, came back with nothing
  and announced a new channel takes the ChannelReady of the channel the provider
  kept for it: it goes on with a total of zero on a channel where more has been
  taken, and its purchases are refused. That this is the only way to fall behind
  is `KeepsUp`.

Met while modelling, in the modules as the code has them, and not claimed by any
run. Some show with other constants, named in brackets:

- `session/core.rs:764`: ChannelClose hands a channel to the settler, and core
  still recognises it, so it is handed over again later [`SettledOnce` with
  `MAX_CLOSES = 1`].
- `node.rs:385` and `core.rs:687`: after a `DropPeer` the connection is still
  heard, so in an outage a funding behind the drop is held with no link. A new
  connection that comes up before the end of the old one finds no link to
  replace and leaves it there: it is verified into the next session, where
  `node.rs:380` has what was held go "the way it would have had the old one ended
  first".
- `ip.rs:1271`: a payer that runs out while its IPv6 gate cannot be set keeps its
  IPv6 until the next change of verdict, and an address it loses meanwhile stays
  allowed after the payer is gone.
- `session/core.rs:995`: a rollover's funding that verifies after a Disconnect
  sets the phase back to Established, so the end of the connection parks the
  session instead of settling it.
- `session/core.rs:518`: with a policy changed while running (the node sets
  policies only at startup), a payer carried free that buys, is charged again
  and meets a crash has no record of the purchase.
- `session/core.rs:1310`: a nearly full channel is replaced even while the
  provider does not charge, though 898 says no channel is opened then.
- `node.rs:848`: "Dropping is safe for the only message that repeats" does not
  cover a TopUp that drains its channel: the buyer moves on, and no later TopUp
  names that total.
- `config.rs:250`: "two can be lost before the peer gives up": the third
  keepalive is sent no sooner than the whole timeout after the last message
  heard, and arrives later [`MAX_LOST <- 2`]. A revised Offer that is lost while
  other messages flow is not repeated, as it is the keepalive that repeats it.
- `external.rs:632`: a count sent for an earlier registration on the same
  connection is taken for the new one's. `external.rs:665`: a Conflict about an
  earlier address marks a payer that has moved. `external.rs:545`: payers vouched
  for one subject are bound again in the order they registered, not the order
  they came to hold it.
- `market.rs:262`: the ceiling is cached for a minute, so a sale mintd will
  refuse may be deposited first. `market.rs:526`: any error of `issue` is taken
  to mean nothing was signed [`LostAnswers <- TRUE`, `SaleSound`].
- `merchant.rs:221`: a table from older rates can replace one from newer, until
  the next change or fetch. `bin/merchantd.rs:58`: the currencies to fetch are
  fixed at startup, so a price set later in another gets no rate.
- `wallet.rs:709`: two fundings at once count the same balance; the second to
  spend fails though it minted its shortfall.
- `ip.rs:1172`: `remove` leaves the named counters, so a payer that returns is
  read at its old totals. `ip.rs:380`: class 9999 is the default class, and from
  10000 on tc refuses the number. `ip.rs:465`: after an addition that failed, a
  route that goes back leaves the removed elements missing. `ip.rs:1193`: two
  payers at one address share its set elements [`Tenants = TRUE`].
  `ip.rs:669`: an IPv6 address claimed by two links leaves elements behind
  [`Clashes = TRUE`].
- `channel/spilman.rs:627`: a deposit whose answer was lost is tried again with a
  spent token and refused until the channel's expiry; `burn` takes that answer
  for done. `spilman.rs:186`: channels are kept in memory, where
  `docs/design/core/tollgate-payment-channels.md:327` has backups on disk.
- `frame.rs:31`: the limit of a frame's length is a `debug_assert`.
  `wire.rs:163`: a message that does not decode ends the connection if it came
  in one read with the Announce and is passed over otherwise.
- `fips.rs:186`: a request that failed is not made again on the next tick
  (line 55 says it is). `fips.rs:98`: policies of an earlier run of the node are
  not cleared, so their counts are charged to the next session.

Of the buyer, a replacement that is confirmed only after it is itself about to be
settled is still signed on; that takes a channel whose life is shorter than its
funding took, and `SignedBeforeSettling` leaves it out.

## 5. The proofs

Each theorem holds for every set of payers, channels, tasks and messages and
every value of the other constants within the assumptions the modules state.
`Spec` is that of the module whose name the proofs have; `MCSpec` is that of
the MC module which puts several parts side by side, so a theorem about it is
one about each of them.

| theorem | states | where |
|---|---|---|
| `TypeCorrect` | `Spec => []TypeOK` | `ProviderProofs` |
| `BudgetsSound` | `Spec => []BudgetSound` | |
| `BackendAgrees` | `Spec => []RecordedIsGranted` | |
| `NothingPaidUnverified` | `Spec => []PaidAfterVerified` | |
| `NothingPaidIsLost` | `Spec => ClosedIsSettled` | |
| `AdmissionFits` | `Spec => []ReservedFits` | |
| `GateFollows` | `Spec => []GateFollowsBudget` | |
| `RefundsSafe` | `Spec => []RefundSafe`, where the lead is not zero and the clock does not saturate | |
| `SettlesOnce` | `Spec => []SettledOnce`, where no payer sends a ChannelClose | |
| `CrashCostsNothing` | `Spec => []DiskCovers`, on an accountable node | |
| `NothingForFree` | `Spec => NoFreeBudget`, on an accountable node | |
| `NothingIsForfeit` | `Spec => BudgetKept`, on an accountable node whose counts do not saturate | |
| `FundsOneAtATime` | `Spec => []OneFunding` | `PeeringProofs` |
| `SignsOnConfirmedOnly` | `Spec => []SignedOnConfirmed` | |
| `TwoEndsKeepAccount` | `Spec => ImplementsAccount`, the refinement | |
| `ChannelsStaySound` | `Spec => []ChannelsSound` | `SpilmanProofs` |
| `HostAgreesWithCore` | `Spec => []AgreesWithCore` | `NodeProofs` |
| `HostIsSound` | `MCSpec => []HostSound` | |
| `SettledByOneOnly` | `MCSpec => []SettledByOne` | |
| `RetriesAreInTime` | `MCSpec => RetriesInTime` | |
| `WaitsForAnswers` | `MCSpec => []WaitsForAnswer` | |
| `NotTakenForGone` | `MCSpec => []NeverTakenForGone`, where the peer's patience outlasts what may be lost | |
| `SalesAreSound` | `MCSpec => []SaleSound`, where no answer of the mint is lost once it signed | `MerchantdProofs` |
| `PaperIsSound` | `MCSpec => []PaperSound` | |
| `LinksInSync` | `MCSpec => []EnforcerInSync` | `LinksProofs` |
| `ChargedForCarried` | `MCSpec => []CarriedIsCharged`, where nothing is carried for payers that leave and come back | |
| `ReadsWhatIsWritten` | `MCSpec => []MessagesUnderstood` | |

The hypotheses are where the code stops promising the property, and runs show
it. A ChannelClose hands a channel over that core still recognises, so
`SettlesOnce` needs `MAX_CLOSES = 0`. `Accountable` is no payer carried free and
no `Overlap`: with `Overlap` the run **return** violates `NoFreeBudget`, and a
payer carried free that is charged again has no record of what it bought
meanwhile. A saturated clock stands still, so `RefundsSafe` needs
`MAX_NOW < U64_MAX`, which a node's milliseconds satisfy. `NothingIsForfeit` needs
`Countable`: that, a window that lasts (`config.rs:765` refuses a shortest one of
0), and channels of one payer that together hold no more than a count does, as
what a purchase adds to a saturated budget is lost. `NotTakenForGone` needs
`(MAX_LOST + 1) * (Interval - 1 + PERIOD) + LATENCY <= STALE_TIMEOUT`: an
interval, and the tick on which its end is noticed, for each keepalive lost in a
row and the one that arrives, and the time that one takes; the code's interval
of a third of the timeout so covers one lost message and not two.
`SalesAreSound` needs `~LostAnswers`, as `market.rs:526` takes any error for an
answer. `ChargedForCarried` needs `a.returns => a.units = 0` of every Allowance:
a count on its way from before a payer was removed is taken for one of the new
registration (`external.rs:632`). Of FIPS, `CarriedIsCharged` excludes a policy
that could not be cleared and a node that was killed (`fips.rs:98`).

### Provider

`IInv` is the conjunction of `TypeOK`, `BudgetSound`, `RecordedIsGranted`,
`PaidAfterVerified`, `GateFollowsBudget`, `ReservedFits` and four parts that no
run states by themselves: a recognised channel is in its owner's session
(`OpenInSession`), a linked payer is in `peers` and not closing
(`LinkedInPeers`), and on an accountable node nobody is carried free
(`Overridden`) and what is kept covers what is live for as long, or is the
budget held (`Covered`). Hardly any of them is inductive by itself. The types
bound every sum; that a channel starts with nothing recorded when its funding
verifies needs `PaidAfterVerified`; that an accepted purchase keeps the recorded
total below capacity needs that the ratchet and the record agree; that a
returning payer fits the capacity needs that it reserves nothing while parked.

The argument follows the code. `GrantProofs` shows of each grant operator that
it keeps a grant well-formed and sound and what it does to the ratchets and the
budget. In `ProviderProofs` an outcome is *sound*, and one outcome *follows*
another when it recognises no further channel, keeps the ratchets and settles
what it drops. Each operator on outcomes has a lemma that its result is sound
and follows its argument, following is transitive, committing such outcomes
preserves the invariant, and each action has a lemma that it commits one.
Actions that open a channel, ratchet it or announce it have their own argument
for the books. Besides the invariant each action is shown to satisfy
`StepSettles`: what closes is settled, what opens was verified in time, nothing
is handed over that is not held, nothing is given for nothing. From
these follow the action properties and, with one further inductive invariant
each, `RefundSafe` and `SettledOnce`.

`BudgetKept` is the other side of `NoFreeBudget`: what a step may take. A
reservation draws its budget when a second has passed, or for the part of one
when it is paused, so a step may cost what is owed for the second being drawn,
and what is still owed afterwards it has not cost yet. `Spares` says this of two outcomes, held
plus owed against held plus owed, and composes along the chain of a handler as
following does; a meter reading adds what moved. Two facts it rests on are in
none of the other invariants and make up `Frugal`: the second being drawn began
no more than a second ago while the payer is metered, as every step of the clock
is followed by a tick that reads the meters, so a reading never closes two
seconds at once; and what a payer was authorized, in its session or on disk, is
no more than it has paid, so with `Countable` a purchase never saturates the
budget it adds to. `Frugal` was first checked as an invariant of the run
**provider**.

Reservations, payments and accounts are sums over a set. `SumProofs` proves that
a sum over a finite set changes by what one term changes, and that it is
monotone, by a least counterexample among the subsets instead of an induction
with an operator as parameter.

### The two ends

`PeeringInv` is `Typed`, `Announced`, `UsableOnly` and `Backed`. A channel is
*usable* once its funding is neither on its way nor being checked and it has not
been handed back. A usable channel stays so; only usable ones are held by the
buyer, named to it, recognised by the provider or signed on; an announced one is
not usable yet. So a channel is recognised at most once, with nothing recorded
on it, which is what makes the grant's ratchet the recorded total (`Backed`) for
as long as the channel is open, over restarts of either end. A TopUp under way
carries no more than has been signed, so credit never passes signatures.
`PeeringProofs` shows of each operator of the buyer that it keeps the buyer
well-formed and asks for nothing while a channel awaits confirmation; each action
has a lemma that it keeps `PeeringInv` and is a step of `Account` or one that
`Account` does not see.

### The node around a peer

`NodeProofs` proves of `Host`, over any number of connections, what `HostSound`
checks of it in the run **node**. `IInv` has three parts. `WireInv`: the gate
follows the connection in use, and so does a funding held back unless it came
behind a drop; what such a connection says can therefore be held with no link,
and nothing else is. `CoreInv`: a peer that comes back finds one session at most,
live, ending or parked; and what core holds was bought by the payer whose key it
is held under (`Bought`), also when it was bought behind a drop. `StoreInv`:
so was every record in memory and on disk (`Filed`), which is what a restart
reads and `get` hands back; and pruning both to one time gives the same, now and
therefore later (`Prunes`), unless the last write failed.

### Settlement

`NodeProofs`: a claimed channel has one task and every task's channel is claimed;
a waiting task wakes by the deadline it was asked for with, and
by that of a shutdown it has heard of; one it has not heard of is still to come
(`InTime`). Drain's deadline lies past the shutdown's (`Closing`), because no
time passes between the two calls of `wind_down`.

`SpilmanProofs`: expiries are handed out once (`Expiries`), so ids differ
whichever order calls open in. The payee's record is the balance core accepted
until it is forgotten, and once the mint has closed a channel core has let it
go, or no open record is left (`Record`): so a close lost and tried again, or
refused, finds the same balance. What was disposed of was no longer locked
(`Proceeds`), so no later close makes coins of it again.

### Fundings and keepalives

`FundInv`: requests core has made and not heard of are under way at the host, and
no more calls failed in a row than came back. `WaitInv`: while core waits, the
last request is under way or there was an outage, and the failure of the last
call reaches core no sooner than the first wait after it.

`KeepInv` bounds the age of what was last heard (`unheard`): by one interval and
one tick for each message lost in a row and the time since the last was sent; or,
with a message in flight, by those and the age of that message.

### merchantd

`SaleInv` follows a request from await to await: the token's worth is what the
price said when it was computed, whatever the price is by now (`PaidFor`); from
when it is taken its token is spent, for no other request; what is signed is
sold; what is refunded and its fee stay within what cleared. That a price rounded
up covers what was asked for is arithmetic on `PriceOf` (`PriceIsFull`).

`PaperInv` relates the payments, the quotes and the claim. `MoneySound`: of each
payment what was spent and what is left is what came in, and each piece made is
worth something and no more than `Most`. `QuotesSound`: what a quote issued and
did not credit is still reserved and in nobody's hands, and a quote is in hand
exactly while its task mints it. `ClaimSound`: while no call failed since a claim
began, what was due is credited, in its task's hands, or still listed, paid and
free, so a claim that ends so has left nothing.

### The links

`ExternalInv`: of every payer the *last* thing on its way to the enforcer about
its binding, its level or its removal, or, with none on its way, what the
enforcer holds, is what the node has (`Agreed`), on the connection in use; a
fresh connection's snapshot makes this true at once, and the others follow one
message at a time. `AllCharged`: the count the node has, and each count on its
way, is within the enforcer's own, and that within what was carried; the total of
earlier connections is added once, when one ends (`drop_link`).

`MeshInv`: the calls still to be executed lead from what the node has done to
what core decided, so with none left both agree, and each is between the two;
FIPS' policy obeys the node's entry, or is missing after a restart, when nothing
is carried. Of the counters: some amount covers what was drawn, and in each
direction the last reading, the node's, FIPS' own and what was carried are in
order since the counter last started over.

`CodecInv`: of the pairs that arrive each key of the message's type is there
once, unless it was left out (or was the one an Offer need not write), with what
was written, unless it was spoiled (`CarriedOver`). Every edit keeps this: a key
added is unknown, and a spoiled value is of no type a field takes, as kinds and
types are disjoint. From it follow what the decoder finds under each key (`AtIs`),
when it refuses (`WrongIs`), and each field (`FieldsAre`).

### Assumptions

`WidthAssumption`, `SecondAssumption`, `LeadingBitAssumption` (every number
within the width has a leading bit), `ChannelAssumption`, `PolicyAssumption`
(`window_range_valid`), `ProviderAssumption`, `BuyerAssumption`,
`PeeringAssumption`, `SpilmanAssumption`, `HostAssumption`, `BudgetsAssumption`,
`NoneAssumption`, `ExternalAssumption`, `WalletAssumption`, `SendAssumption`.
`PartsAssumption` of an MC module collects those of the modules it instantiates:
of `Settler`, `Funding` and `KeepAlive` in `MCNode`, of `Market` and `Merchant`
in `MCMerchantd`, of `Fips`, `Wire` and `Codec` in `MCLinks`, the last saying
that the messages written have the fields of their type. TLC evaluates all of
them in the runs of those modules.

### Only model-checked

- Liveness (`EventuallyPaying`, `HeldEnds`, `SettlementEnds`, `EnforcerReached`,
  `PaymentEnds`, `TableSettles`, `Settled`): out of the prover's reach.
- `KeepsUp`: which total the buyer returns to depends on which of its purchases
  are under way and in which order they will be refused; its invariant relates
  the queue, the purchase to undo and the ratchet.
- `SignedBeforeSettling`: it depends on a replacement expiring no earlier than
  the channel it replaces, as channels funded later do, which the constants of
  `Peering` do not say.
- `HolderStays`: it holds of two claimants and not of three, of whom one that was
  refused may be bound before the holder registers again.
- `MessagesInOrder`: `Pull` takes frames out of the bytes read by recursion, and
  that the frames of a sequence of messages come out as that sequence is an
  induction over it.
- `DecisionInForce`, `ChargedToOne`, `ShapedAndCleared`: a refresh of `Ip` folds
  over the payers in any order, and each is an induction over that order.
- `Merchant`'s `TableSettles` is liveness; nothing else is claimed of it.

## 6. What is not modelled

- The mint: cdk's, behind an HTTP server, with its database. `Wallet`, `Market`
  and `Spilman` see it as calls that succeed, fail or lose their answer.
- Configuration: parsing and checks at startup; what they guarantee is assumed
  of the constants.
- The data plane and the speed test: packet I/O and measurement.
- The control interface, a read-only snapshot, and the binaries: arguments and
  terminal displays.
- The loopback enforcer (a token bucket for development) and the local channel
  backend, which moves nothing.
- The enforcer's codec beyond the messages `External` uses; listening, dialing,
  the mesh-address check of a peer's key; the market's own HTTP client.
