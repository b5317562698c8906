--------------------------- MODULE SpilmanProofs ---------------------------
(***************************************************************************)
(* That the channel backend keeps ChannelsSound, for any number of         *)
(* channels, mints, faults and restarts.                                   *)
(***************************************************************************)
EXTENDS Spilman, TLAPS

\* Expiries are handed out once: no two calls of fund() have one in common, and
\* none has one that last_expiry has not passed (unique_expiry).  A call knows its
\* mint from its start, and a channel is verified only when it is open.
Expiries ==
    \A c \in Channels :
       /\ fund[c].at \in {"idle", "bought"} => fund[c].expiry = 0
       /\ fund[c].at \in {"opening", "open"} => fund[c].expiry > 0
       /\ fund[c].at # "idle" => fund[c].url \in Urls
       /\ fund[c].expiry <= last_expiry
       /\ verdict[c] # "none" => fund[c].at = "open"
       /\ \A d \in Channels : c # d /\ fund[c].expiry > 0 => fund[c].expiry # fund[d].expiry

\* What the payee has of a channel: nothing before it is verified, and then the
\* balance core accepted, until a restart forgets it.  A channel that is being
\* closed is open, and one whose proceeds are disposed of was closed; once the
\* mint has closed it core has let it go, or the payee has no open record.
Record(c) ==
    /\ verdict[c] # "ok" =>
          /\ accepted[c] = 0 /\ server[c].state = "none"
          /\ job["payee"][c] = "idle" /\ atmint[c].state # "closed"
    /\ server[c].state # "none" => server[c].balance = accepted[c]
    /\ spare.restarts = 0 /\ verdict[c] = "ok" => server[c].state # "none"
    /\ job["payee"][c] = "closing" => server[c].state = "open"
    /\ job["payee"][c] = "disposing" => server[c].state = "closed"
    /\ server[c].state = "closed" => atmint[c].state = "closed"
    /\ atmint[c].state = "closed" => server[c].state # "open" \/ Released(c)

\* ClosesAtAccepted, of one channel.
Claimed(c) ==
    /\ atmint[c].state = "closed" => atmint[c].paid = accepted[c]
    /\ (spare.restarts = 0 /\ result["payee"][c] = "cannot")
          => atmint[c].state # "locked" \/ accepted[c] = 0

\* DisposedOf, of one channel.  Change is disposed of after the close that made
\* it, and what has been disposed of was no longer locked, so no later close
\* brings it back.
Proceeds(c) ==
    /\ job["payer"][c] = "disposing" => atmint[c].state = "closed"
    /\ \A s \in Sides : c \in disposed[s] => atmint[c].state # "locked"
    /\ c \in disposed["payee"] =>
          /\ verdict[c] = "ok"
          /\ coins["payee"][c] = IF ~ToBurn(c) THEN "deposited"
                                 ELSE IF \E u \in BURNS : MintIs(c, u) THEN "burned" ELSE "dropped"
    /\ c \in disposed["payer"] /\ atmint[c].paid < CAPACITY /\ atmint[c].state = "closed"
          => coins["payer"][c] = "deposited"

Settling(c) == Record(c) /\ Claimed(c) /\ Proceeds(c)

IInv ==
    /\ spare \in Allowances /\ TypeOK /\ Expiries
    /\ \A c \in Channels : Settling(c)

\* A step leaves alone what Settling says of a channel.
Leaves(c) ==
    /\ verdict[c] = "ok" => fund'[c].url = fund[c].url
    /\ verdict'[c] = verdict[c] /\ accepted'[c] = accepted[c]
    /\ server'[c] = server[c] /\ atmint'[c] = atmint[c]
    /\ \A s \in Sides :
          /\ job'[s][c] = job[s][c] /\ result'[s][c] = result[s][c]
          /\ coins'[s][c] = coins[s][c] /\ (c \in disposed'[s] <=> c \in disposed[s])

FundCall ==
    [at : {"idle", "bought", "opening", "open", "failed"},
     url : Urls \cup {None}, called : Nat, setup : Nat, expiry : Nat]

-----------------------------------------------------------------------------
(* Init and the parts of a state. *)

(* The invariant holds when both ends start. *)
LEMMA InitIInv == Init => IInv
<1> SUFFICES ASSUME Init PROVE IInv
  OBVIOUS
<1>1. spare \in Allowances /\ spare \in Allowance
  BY SpilmanAssumption DEF Init
<1>2. TypeOK
  BY <1>1, SpilmanAssumption DEF Init, TypeOK, NoRecord, Sides, Allowance
<1>3. Expiries
  BY DEF Init, Expiries
<1>4. ASSUME NEW c \in Channels PROVE Settling(c)
  BY DEF Init, Settling, Record, NoRecord, Sides, Claimed, Proceeds
<1> QED BY <1>1, <1>2, <1>3, <1>4 DEF IInv

(* What an Allowance bounds. *)
LEMMA AllowanceType ==
    ASSUME spare \in Allowances
    PROVE  /\ spare.now \in Nat /\ spare.faults \in Nat /\ spare.restarts \in Nat
           /\ spare.channels \subseteq Channels /\ spare.urls \subseteq Urls
  BY SpilmanAssumption DEF Allowance

(* What is said of a channel stays true where it is left alone. *)
LEMMA LeftAlone ==
    ASSUME NEW c \in Channels, Settling(c), Leaves(c), UNCHANGED spare
    PROVE  Settling(c)'
<1>1. Record(c)'
  BY DEF Settling, Record, Released, Leaves, Sides
<1>2. Claimed(c)'
  BY DEF Settling, Claimed, Leaves, Sides
<1>3. CASE c \in disposed["payee"]
  <2>1. fund'[c].url = fund[c].url
    BY <1>3 DEF Settling, Proceeds, Leaves
  <2>2. ToBurn(c)' = ToBurn(c) /\ \A u : MintIs(c, u)' = MintIs(c, u)
    BY <2>1 DEF ToBurn, MintIs
  <2>3. Proceeds(c)'
    BY <2>2 DEF Settling, Proceeds, Leaves, Sides
  <2> QED BY <1>1, <1>2, <2>3 DEF Settling
<1>4. CASE c \notin disposed["payee"]
  <2>1. Proceeds(c)'
    BY <1>4 DEF Settling, Proceeds, Leaves, Sides
  <2> QED BY <1>1, <1>2, <2>1 DEF Settling
<1> QED BY <1>3, <1>4

-----------------------------------------------------------------------------
(* fund and verify. *)

(* Buying the vouchers gives no expiry yet. *)
LEMMA FundKeeps ==
    ASSUME IInv, NEW c \in Channels, NEW u \in Urls, Fund(c, u), UNCHANGED spare
    PROVE  IInv'
<1> USE DEF fundVars, payVars, settleVars
<1>0. spare \in Allowances /\ TypeOK /\ Expiries
  BY DEF IInv
<1>1. fund \in [Channels -> FundCall] /\ now \in Nat
  BY <1>0, AllowanceType DEF TypeOK, FundCall
<1>a. \E f \in FundCall :
          /\ fund' = [fund EXCEPT ![c] = f]
          /\ f.at \in {"bought", "failed"} /\ f.expiry = fund[c].expiry /\ f.url \in Urls
  <2> DEFINE f == [fund[c] EXCEPT !.at = "bought", !.url = u, !.called = now]
             h == [fund[c] EXCEPT !.at = "failed", !.url = u]
  <2>1. f \in FundCall /\ f.at = "bought" /\ f.expiry = fund[c].expiry /\ f.url \in Urls
    BY <1>1 DEF FundCall
  <2>2. h \in FundCall /\ h.at = "failed" /\ h.expiry = fund[c].expiry /\ h.url \in Urls
    BY <1>1 DEF FundCall
  <2>3. fund' = [fund EXCEPT ![c] = f] \/ fund' = [fund EXCEPT ![c] = h]
    BY <1>1 DEF Fund, FundCall
  <2> QED BY <2>1, <2>2, <2>3
<1>b. PICK f \in FundCall :
          /\ fund' = [fund EXCEPT ![c] = f]
          /\ f.at \in {"bought", "failed"} /\ f.expiry = fund[c].expiry /\ f.url \in Urls
  BY <1>a
<1>2. TypeOK'
  <2>1. faults' \in 0 .. spare'.faults
    BY <1>0, AllowanceType DEF Fund, TypeOK, Fault
  <2>2. fund' \in [Channels -> FundCall]
    BY <1>1, <1>b
  <2> QED BY <1>0, <2>1, <2>2 DEF Fund, TypeOK, FundCall
<1>3. Expiries'
  BY <1>0, <1>1, <1>b DEF Expiries, Fund
<1>4. ASSUME NEW d \in Channels PROVE Leaves(d)
  BY <1>0, <1>1, <1>b DEF Expiries, Fund, Leaves
<1> QED BY <1>0, <1>2, <1>3, <1>4, LeftAlone DEF IInv, Fund

(* The expiry taken is past every one taken before. *)
LEMMA TakeExpiryKeeps ==
    ASSUME IInv, NEW c \in Channels, TakeExpiry(c), UNCHANGED spare
    PROVE  IInv'
<1> USE DEF fundVars, payVars, settleVars
<1>0. spare \in Allowances /\ TypeOK /\ Expiries
  BY DEF IInv
<1> DEFINE at == UniqueExpiry(now + TTL)
<1>1. fund \in [Channels -> FundCall]
  BY <1>0 DEF TypeOK, FundCall
<1>2. at \in Nat /\ at > last_expiry
  BY <1>0, AllowanceType, SpilmanAssumption DEF UniqueExpiry, Later, TypeOK
<1> DEFINE f == [fund[c] EXCEPT !.at = "opening", !.expiry = at]
<1>3. last_expiry' = at /\ fund' = [fund EXCEPT ![c] = f]
  BY <1>1 DEF TakeExpiry, FundCall
<1> HIDE DEF at
<1>4. f \in FundCall /\ f.at = "opening" /\ f.expiry = at /\ f.url = fund[c].url
  BY <1>1, <1>2 DEF FundCall
<1> HIDE DEF f
<1>5. TypeOK'
  <2>1. fund' \in [Channels -> FundCall]
    BY <1>1, <1>3, <1>4
  <2> QED BY <1>0, <1>2, <1>3, <2>1 DEF TakeExpiry, TypeOK, FundCall
<1>6. Expiries'
  <2>1. \A d \in Channels : fund[d].expiry \in Nat /\ fund[d].expiry < at /\ last_expiry \in Nat
    BY <1>0, <1>2 DEF TypeOK, Expiries
  <2>2. verdict[c] = "none"
    BY <1>0 DEF Expiries, TakeExpiry
  <2> QED BY <1>0, <1>1, <1>2, <1>3, <1>4, <2>1, <2>2 DEF Expiries, TakeExpiry
<1>7. ASSUME NEW d \in Channels PROVE Leaves(d)
  BY <1>1, <1>3, <1>4 DEF TakeExpiry, Leaves
<1> QED BY <1>0, <1>5, <1>6, <1>7, LeftAlone DEF IInv, TakeExpiry

(* Opening leaves the expiry as it was taken. *)
LEMMA OpenKeeps ==
    ASSUME IInv, NEW c \in Channels, Open(c), UNCHANGED spare
    PROVE  IInv'
<1> USE DEF fundVars, payVars, settleVars
<1>0. spare \in Allowances /\ TypeOK /\ Expiries
  BY DEF IInv
<1>1. fund \in [Channels -> FundCall] /\ now \in Nat
  BY <1>0, AllowanceType DEF TypeOK, FundCall
<1>a. \E f \in FundCall :
          /\ fund' = [fund EXCEPT ![c] = f]
          /\ f.at \in {"open", "failed"} /\ f.expiry = fund[c].expiry /\ f.url = fund[c].url
  <2> DEFINE f == [fund[c] EXCEPT !.setup = now, !.at = "open"]
             h == [f EXCEPT !.at = "failed"]
  <2>1. f \in FundCall /\ f.at = "open" /\ f.expiry = fund[c].expiry /\ f.url = fund[c].url
    BY <1>1 DEF FundCall
  <2>2. fund' = [fund EXCEPT ![c] = f] \/ fund' = [fund EXCEPT ![c] = h]
    BY <1>1 DEF Open, FundCall
  <2>3. h \in FundCall /\ h.at = "failed" /\ h.expiry = fund[c].expiry /\ h.url = fund[c].url
    <3> HIDE DEF f
    <3> QED BY <2>1 DEF FundCall
  <2> QED BY <2>1, <2>2, <2>3
<1>2. PICK f \in FundCall :
          /\ fund' = [fund EXCEPT ![c] = f]
          /\ f.at \in {"open", "failed"} /\ f.expiry = fund[c].expiry /\ f.url = fund[c].url
  BY <1>a
<1>3. TypeOK'
  <2>1. fund' \in [Channels -> FundCall]
    BY <1>1, <1>2
  <2> QED BY <1>0, <2>1 DEF Open, TypeOK, FundCall
<1>4. Expiries'
  BY <1>0, <1>1, <1>2 DEF Expiries, Open
<1>5. ASSUME NEW d \in Channels PROVE Leaves(d)
  BY <1>1, <1>2 DEF Open, Leaves
<1> QED BY <1>0, <1>3, <1>4, <1>5, LeftAlone DEF IInv, Open

(* Verifying makes the record, of a channel core has accepted nothing on. *)
LEMMA VerifyKeeps ==
    ASSUME IInv, NEW c \in Channels, Verify(c), UNCHANGED spare
    PROVE  IInv'
<1> USE DEF fundVars, payVars, settleVars
<1>0. spare \in Allowances /\ TypeOK /\ Expiries /\ \A d \in Channels : Settling(d)
  BY DEF IInv
<1>1. TypeOK'
  <2>1. faults' \in 0 .. spare'.faults
    BY <1>0, AllowanceType DEF Verify, TypeOK, Fault
  <2>2. fetched' \subseteq Urls
    BY <1>0 DEF Verify, Expiries, TypeOK
  <2>3. server' \in [Channels -> [state : {"none", "open", "closed"}, balance : 0 .. CAPACITY]]
    <3>1. [state |-> "open", balance |-> 0] \in [state : {"none", "open", "closed"}, balance : 0 .. CAPACITY]
      BY SpilmanAssumption
    <3>2. server' = server \/ server' = [server EXCEPT ![c] = [state |-> "open", balance |-> 0]]
      BY DEF Verify
    <3> QED BY <1>0, <3>1, <3>2 DEF TypeOK
  <2>4. verdict' \in [Channels -> {"none", "mint", "keyset", "expiry", "ok"}]
    <3>1. \E v \in {"none", "mint", "keyset", "expiry", "ok"} : verdict' = [verdict EXCEPT ![c] = v]
      BY DEF Verify
    <3> QED BY <1>0, <3>1 DEF TypeOK
  <2> QED BY <1>0, <2>1, <2>2, <2>3, <2>4 DEF Verify, TypeOK
<1>2. /\ \A d \in Channels : d # c => verdict'[d] = verdict[d] /\ server'[d] = server[d]
      /\ verdict[c] = "none" /\ fund[c].at = "open"
      /\ \/ verdict'[c] # "ok" /\ server'[c] = server[c]
         \/ verdict'[c] = "ok" /\ server'[c] = [state |-> "open", balance |-> 0]
  BY <1>0 DEF Verify, TypeOK
<1>3. Expiries'
  BY <1>0, <1>2 DEF Expiries, Verify
<1>4. ASSUME NEW d \in Channels, d # c PROVE Settling(d)'
  BY <1>0, <1>2, <1>4, LeftAlone DEF Leaves, Verify
<1>5. Settling(c)'
  <2>1. Settling(c) /\ c \notin disposed["payee"]
    BY <1>0, <1>2 DEF Settling, Proceeds
  <2>2. Record(c)'
    BY <1>2, <2>1 DEF Settling, Record, Released, Verify
  <2>3. Claimed(c)' /\ Proceeds(c)'
    BY <2>1 DEF Settling, Claimed, Proceeds, Verify
  <2> QED BY <2>2, <2>3 DEF Settling
<1> QED BY <1>0, <1>1, <1>3, <1>4, <1>5 DEF IInv

-----------------------------------------------------------------------------
(* Updates. *)

(* A signature changes nothing at the payee. *)
LEMMA SignUpdateKeeps ==
    ASSUME IInv, NEW c \in Channels, NEW n \in Amounts, SignUpdate(c, n), UNCHANGED spare
    PROVE  IInv'
<1> USE DEF fundVars, payVars, settleVars
<1>0. spare \in Allowances /\ TypeOK /\ Expiries
  BY DEF IInv
<1>1. TypeOK'
  BY <1>0 DEF SignUpdate, TypeOK
<1>2. Expiries'
  BY <1>0 DEF SignUpdate, Expiries
<1>3. ASSUME NEW d \in Channels PROVE Leaves(d)
  BY DEF SignUpdate, Leaves
<1> QED BY <1>0, <1>1, <1>2, <1>3, LeftAlone DEF IInv

(* An honoured purchase takes each record to what core accepted; none of its *)
(* channels has been let go.                                                 *)
LEMMA TopUpKeeps ==
    ASSUME IInv, NEW ups \in Purchases, NEW accept \in BOOLEAN, TopUp(ups, accept),
           UNCHANGED spare
    PROVE  IInv'
<1> USE DEF fundVars, payVars, settleVars
<1>0. spare \in Allowances /\ TypeOK /\ Expiries /\ \A d \in Channels : Settling(d)
  BY DEF IInv
<1>1. PICK D \in SUBSET spare.channels : ups \in [D -> Amounts]
  BY DEF Purchases
<1>2. DOMAIN ups = D /\ D \subseteq Channels /\ \A c \in D : ups[c] \in 1 .. CAPACITY
  BY <1>0, <1>1, AllowanceType DEF Amounts
<1>3. \A c \in D : /\ server[c].state = "open" /\ ~Released(c) /\ ups[c] > accepted[c]
                   /\ server[c].balance = accepted[c] /\ accepted[c] \in 0 .. CAPACITY
  BY <1>0, <1>2 DEF TopUp, Honoured, VerifyUpdate, Settling, Record, TypeOK
<1>4. \A c \in D : /\ RecordUpdate(c, ups[c]) = [server[c] EXCEPT !.balance = ups[c]]
                   /\ server'[c] = RecordUpdate(c, ups[c])
                   /\ accepted'[c] = ups[c]
  BY <1>2, <1>3 DEF TopUp, Honoured, RecordUpdate
<1>5. \A c \in D : server'[c].state = "open" /\ server'[c].balance = ups[c]
  BY <1>0, <1>2, <1>3, <1>4 DEF TypeOK
<1>6. \A c \in Channels \ D : server'[c] = server[c] /\ accepted'[c] = accepted[c]
  BY <1>2 DEF TopUp
<1>7. TypeOK'
  <2>1. \A c \in Channels : server'[c] \in [state : {"none", "open", "closed"}, balance : 0 .. CAPACITY]
    <3>1. ASSUME NEW c \in D
          PROVE  [server[c] EXCEPT !.balance = ups[c]]
                    \in [state : {"none", "open", "closed"}, balance : 0 .. CAPACITY]
      <4>1. /\ server[c] \in [state : {"none", "open", "closed"}, balance : 0 .. CAPACITY]
            /\ ups[c] \in 0 .. CAPACITY
        BY <1>0, <1>2, <3>1 DEF TypeOK
      <4> HIDE DEF TypeOK
      <4> QED BY <4>1
    <3>2. \A c \in D : server'[c] = [server[c] EXCEPT !.balance = ups[c]]
      BY <1>4
    <3>3. \A c \in Channels \ D :
             server'[c] \in [state : {"none", "open", "closed"}, balance : 0 .. CAPACITY]
      BY <1>0, <1>6 DEF TypeOK
    <3>4. \A c \in D : server'[c] \in [state : {"none", "open", "closed"}, balance : 0 .. CAPACITY]
      BY <3>1, <3>2
    <3> QED BY <3>3, <3>4
  <2>2. server' \in [Channels -> [state : {"none", "open", "closed"}, balance : 0 .. CAPACITY]]
    BY <2>1 DEF TopUp
  <2>3. accepted' \in [Channels -> 0 .. CAPACITY]
    BY <1>0, <1>2 DEF TopUp, TypeOK
  <2> QED BY <1>0, <2>2, <2>3 DEF TopUp, TypeOK
<1>8. Expiries'
  BY <1>0 DEF Expiries, TopUp
<1>9. ASSUME NEW d \in Channels \ D PROVE Settling(d)'
  BY <1>0, <1>6, <1>9, LeftAlone DEF Leaves, TopUp
<1>10. ASSUME NEW d \in D PROVE Settling(d)'
  <2>1. Settling(d) /\ atmint[d].state # "closed" /\ result["payee"][d] = "none"
    BY <1>0, <1>2, <1>3, <1>10 DEF Settling, Record, Released
  <2>2. verdict[d] = "ok"
    BY <1>3, <2>1, <1>10 DEF Settling, Record
  <2>3. Record(d)'
    <3>1. /\ server[d].state = "open" /\ job["payee"][d] = "idle" /\ d \in Channels
          /\ server'[d].state = "open" /\ server'[d].balance = accepted'[d]
      BY <1>2, <1>3, <1>4, <1>5, <1>10 DEF Released
    <3>2. UNCHANGED <<verdict, job, result, atmint, spare>>
      BY DEF TopUp
    <3> QED BY <2>1, <2>2, <3>1, <3>2 DEF Record
  <2>4. Claimed(d)'
    BY <2>1 DEF Claimed, TopUp
  <2>5. Proceeds(d)'
    BY <2>1 DEF Settling, Proceeds, TopUp, ToBurn, MintIs
  <2> QED BY <2>3, <2>4, <2>5 DEF Settling
<1> QED BY <1>0, <1>7, <1>8, <1>9, <1>10 DEF IInv

-----------------------------------------------------------------------------
(* Settlement. *)

(* A table of both sides' channels changed at one place. *)
LEMMA AtOnePlace ==
    ASSUME NEW S, NEW f \in [Sides -> [Channels -> S]],
           NEW s \in Sides, NEW c \in Channels, NEW x \in S,
           NEW h, h = [f EXCEPT ![s][c] = x]
    PROVE  /\ h \in [Sides -> [Channels -> S]] /\ h[s][c] = x
           /\ \A t \in Sides, d \in Channels : t # s \/ d # c => h[t][d] = f[t][d]
  OBVIOUS

\* The types of what a settlement changes.
JobTypes ==
    /\ job \in [Sides -> [Channels -> {"idle", "closing", "disposing"}]]
    /\ result \in [Sides -> [Channels -> {"none", "ok", "again", "cannot"}]]
    /\ coins \in [Sides -> [Channels -> {"locked", "out", "burned", "dropped", "deposited"}]]
    /\ disposed \in [Sides -> SUBSET Channels]
    /\ server \in [Channels -> [state : {"none", "open", "closed"}, balance : 0 .. CAPACITY]]
    /\ atmint \in [Channels -> [state : {"locked", "closed", "refunded"}, paid : 0 .. CAPACITY]]
    /\ faults \in 0 .. spare.faults

\* A step of one channel's settlement.
StepOf(c) ==
    /\ UNCHANGED <<now, last_expiry, fund, signed, verdict, fetched, accepted, restarts, spare>>
    /\ JobTypes'
    /\ \A d \in Channels : d # c => Leaves(d)

(* Such a step keeps the invariant if it keeps what is said of its channel. *)
LEMMA StepKeeps ==
    ASSUME IInv, NEW c \in Channels, StepOf(c), Settling(c)'
    PROVE  IInv'
<1>1. TypeOK'
  BY DEF IInv, TypeOK, StepOf, JobTypes
<1>2. Expiries'
  BY DEF IInv, Expiries, StepOf
<1>3. \A d \in Channels : Settling(d)'
  BY LeftAlone DEF IInv, StepOf
<1> QED BY <1>1, <1>2, <1>3 DEF IInv, StepOf

(* What settle() does when it returns. *)
LEMMA ReturnDoes ==
    ASSUME JobTypes, NEW s \in Sides, NEW c \in Channels,
           NEW r \in {"none", "ok", "again", "cannot"}, Return(s, c, r)
    PROVE  /\ job' \in [Sides -> [Channels -> {"idle", "closing", "disposing"}]]
           /\ result' \in [Sides -> [Channels -> {"none", "ok", "again", "cannot"}]]
           /\ job'[s][c] = "idle" /\ result'[s][c] = r
           /\ \A t \in Sides, d \in Channels :
                 t # s \/ d # c => job'[t][d] = job[t][d] /\ result'[t][d] = result[t][d]
<1>1. job \in [Sides -> [Channels -> {"idle", "closing", "disposing"}]]
      /\ job' = [job EXCEPT ![s][c] = "idle"]
  BY DEF JobTypes, Return
<1>2. result \in [Sides -> [Channels -> {"none", "ok", "again", "cannot"}]]
      /\ result' = [result EXCEPT ![s][c] = r]
  BY DEF JobTypes, Return
<1>3. /\ job' \in [Sides -> [Channels -> {"idle", "closing", "disposing"}]]
      /\ job'[s][c] = "idle"
      /\ \A t \in Sides, d \in Channels : t # s \/ d # c => job'[t][d] = job[t][d]
  BY <1>1, AtOnePlace
<1>4. /\ result' \in [Sides -> [Channels -> {"none", "ok", "again", "cannot"}]]
      /\ result'[s][c] = r
      /\ \A t \in Sides, d \in Channels : t # s \/ d # c => result'[t][d] = result[t][d]
  BY <1>2, AtOnePlace
<1> QED BY <1>3, <1>4

(* A job that goes on. *)
LEMMA JobGoesOn ==
    ASSUME JobTypes, NEW s \in Sides, NEW c \in Channels,
           NEW x \in {"idle", "closing", "disposing"},
           job' = [job EXCEPT ![s][c] = x], UNCHANGED result
    PROVE  /\ job' \in [Sides -> [Channels -> {"idle", "closing", "disposing"}]]
           /\ result' \in [Sides -> [Channels -> {"none", "ok", "again", "cannot"}]]
           /\ job'[s][c] = x /\ result'[s][c] = result[s][c]
           /\ \A t \in Sides, d \in Channels :
                 t # s \/ d # c => job'[t][d] = job[t][d] /\ result'[t][d] = result[t][d]
<1>1. job \in [Sides -> [Channels -> {"idle", "closing", "disposing"}]]
      /\ result \in [Sides -> [Channels -> {"none", "ok", "again", "cannot"}]]
  BY DEF JobTypes
<1>2. /\ job' \in [Sides -> [Channels -> {"idle", "closing", "disposing"}]]
      /\ job'[s][c] = x
      /\ \A t \in Sides, d \in Channels : t # s \/ d # c => job'[t][d] = job[t][d]
  BY <1>1, AtOnePlace
<1> QED BY <1>1, <1>2

(* The settlement of a channel a peer funded begins: it is given up only     *)
(* where nothing was accepted, or the record is lost.                        *)
LEMMA SettleKeeps ==
    ASSUME IInv, NEW c \in Channels, Settle(c), UNCHANGED spare
    PROVE  IInv'
<1> USE DEF fundVars, payVars, settleVars
<1>0. JobTypes /\ Settling(c) /\ "payee" \in Sides
  BY DEF IInv, TypeOK, JobTypes, Sides
<1>1. \/ /\ server[c].state = "none" /\ Return("payee", c, "cannot")
      \/ /\ server[c].state = "open" /\ server[c].balance = 0 /\ Return("payee", c, "cannot")
      \/ /\ server[c].state = "open"
         /\ job' = [job EXCEPT !["payee"][c] = "closing"] /\ UNCHANGED result
      \/ /\ server[c].state = "closed"
         /\ job' = [job EXCEPT !["payee"][c] = "disposing"] /\ UNCHANGED result
      \/ /\ server[c].state = "closed" /\ Return("payee", c, "ok")
  BY DEF Settle
<1>2. UNCHANGED <<now, last_expiry, fund, signed, verdict, fetched, accepted, server, atmint,
                  coins, disposed, faults, restarts, spare>> /\ verdict[c] = "ok"
  BY DEF Settle
<1>3. /\ job' \in [Sides -> [Channels -> {"idle", "closing", "disposing"}]]
      /\ result' \in [Sides -> [Channels -> {"none", "ok", "again", "cannot"}]]
      /\ \A t \in Sides, d \in Channels :
            t # "payee" \/ d # c => job'[t][d] = job[t][d] /\ result'[t][d] = result[t][d]
  BY <1>0, <1>1, ReturnDoes, JobGoesOn
<1>4. \/ /\ server[c].state = "none" \/ (server[c].state = "open" /\ server[c].balance = 0)
         /\ job'["payee"][c] = "idle" /\ result'["payee"][c] = "cannot"
      \/ /\ server[c].state = "open" /\ job'["payee"][c] = "closing"
         /\ result'["payee"][c] = result["payee"][c]
      \/ /\ server[c].state = "closed" /\ job'["payee"][c] = "disposing"
         /\ result'["payee"][c] = result["payee"][c]
      \/ /\ server[c].state = "closed" /\ job'["payee"][c] = "idle" /\ result'["payee"][c] = "ok"
  BY <1>0, <1>1, ReturnDoes, JobGoesOn
<1>5. StepOf(c)
  BY <1>0, <1>2, <1>3 DEF StepOf, JobTypes, Leaves
<1>6. Settling(c)'
  <2>1. Record(c)'
    BY <1>0, <1>2, <1>4 DEF Settling, Record, Released
  <2>2. Claimed(c)'
    BY <1>0, <1>2, <1>4 DEF Settling, Record, Claimed
  <2>3. "payer" \in Sides /\ job'["payer"][c] = job["payer"][c]
    BY <1>3 DEF Sides
  <2>4. Proceeds(c)'
    BY <1>0, <1>2, <2>3 DEF Settling, Proceeds, ToBurn, MintIs
  <2> QED BY <2>1, <2>2, <2>4 DEF Settling
<1> QED BY <1>5, <1>6, StepKeeps

(* A fault stays within the allowance. *)
LEMMA FaultCounted ==
    ASSUME IInv, UNCHANGED spare, UNCHANGED faults \/ Fault
    PROVE  faults' \in 0 .. spare'.faults
  BY AllowanceType DEF IInv, TypeOK, Fault

(* The closing swap pays the balance on record, which core accepted; once    *)
(* the mint refuses it the funding is spent.                                 *)
LEMMA CloseKeeps ==
    ASSUME IInv, NEW c \in Channels, Close(c), UNCHANGED spare
    PROVE  IInv'
<1> USE DEF fundVars, payVars, settleVars
<1>0. JobTypes /\ Settling(c) /\ "payee" \in Sides /\ "payer" \in Sides
  BY DEF IInv, TypeOK, JobTypes, Sides
<1>1. /\ UNCHANGED <<now, last_expiry, fund, signed, verdict, fetched, accepted, disposed,
                     restarts, spare>>
      /\ job["payee"][c] = "closing" /\ faults' \in 0 .. spare'.faults
  BY FaultCounted DEF Close, Lost
<1>2. server[c].state = "open" /\ server[c].balance = accepted[c] /\ verdict[c] = "ok"
      /\ server[c].balance \in 0 .. CAPACITY
  BY <1>0, <1>1 DEF Settling, Record, JobTypes
<1> DEFINE shut == [server[c] EXCEPT !.state = "closed"]
           spent == [state |-> "closed", paid |-> server[c].balance]
<1>3. /\ shut \in [state : {"none", "open", "closed"}, balance : 0 .. CAPACITY]
      /\ shut.state = "closed" /\ shut.balance = server[c].balance
      /\ spent \in [state : {"locked", "closed", "refunded"}, paid : 0 .. CAPACITY]
      /\ spent.state = "closed" /\ spent.paid = accepted[c]
  BY <1>0, <1>2 DEF JobTypes
<1>4. \/ /\ Return("payee", c, "again") /\ UNCHANGED <<server, atmint, coins>>
      \/ /\ atmint[c].state = "locked" /\ atmint' = [atmint EXCEPT ![c] = spent]
         /\ coins' = [s \in Sides |-> [coins[s] EXCEPT ![c] = "out"]]
         /\ server' = [server EXCEPT ![c] = shut]
         /\ job' = [job EXCEPT !["payee"][c] = "disposing"] /\ UNCHANGED result
      \/ /\ atmint[c].state = "locked" /\ atmint' = [atmint EXCEPT ![c] = spent]
         /\ coins' = [s \in Sides |-> [coins[s] EXCEPT ![c] = "out"]]
         /\ Return("payee", c, "again") /\ UNCHANGED server
      \/ /\ atmint[c].state = "closed"
         /\ server' = [server EXCEPT ![c] = shut]
         /\ job' = [job EXCEPT !["payee"][c] = "disposing"]
         /\ UNCHANGED <<result, atmint, coins>>
      \/ /\ atmint[c].state # "locked" /\ Return("payee", c, "cannot")
         /\ UNCHANGED <<server, atmint, coins>>
  BY <1>0 DEF Close, ProofError, JobTypes
<1> HIDE DEF shut, spent
<1>5. /\ job' \in [Sides -> [Channels -> {"idle", "closing", "disposing"}]]
      /\ result' \in [Sides -> [Channels -> {"none", "ok", "again", "cannot"}]]
      /\ \A t \in Sides, d \in Channels :
            t # "payee" \/ d # c => job'[t][d] = job[t][d] /\ result'[t][d] = result[t][d]
  BY <1>0, <1>4, ReturnDoes, JobGoesOn
<1>6. /\ server' \in [Channels -> [state : {"none", "open", "closed"}, balance : 0 .. CAPACITY]]
      /\ \A d \in Channels : d # c => server'[d] = server[d]
  <2>1. server' = server \/ server' = [server EXCEPT ![c] = shut]
    BY <1>4
  <2>2. server \in [Channels -> [state : {"none", "open", "closed"}, balance : 0 .. CAPACITY]]
    BY <1>0 DEF JobTypes
  <2> QED BY <1>3, <2>1, <2>2
<1>7. /\ atmint' \in [Channels -> [state : {"locked", "closed", "refunded"}, paid : 0 .. CAPACITY]]
      /\ \A d \in Channels : d # c => atmint'[d] = atmint[d]
  <2>1. atmint' = atmint \/ atmint' = [atmint EXCEPT ![c] = spent]
    BY <1>4
  <2>2. atmint \in [Channels -> [state : {"locked", "closed", "refunded"}, paid : 0 .. CAPACITY]]
    BY <1>0 DEF JobTypes
  <2> QED BY <1>3, <2>1, <2>2
<1>8. /\ coins' \in [Sides -> [Channels -> {"locked", "out", "burned", "dropped", "deposited"}]]
      /\ \A s \in Sides, d \in Channels : d # c => coins'[s][d] = coins[s][d]
  <2>1. coins' = coins \/ coins' = [s \in Sides |-> [coins[s] EXCEPT ![c] = "out"]]
    BY <1>4
  <2>2. coins \in [Sides -> [Channels -> {"locked", "out", "burned", "dropped", "deposited"}]]
    BY <1>0 DEF JobTypes
  <2>3. CASE coins' = coins
    BY <2>2, <2>3
  <2>4. CASE coins' = [s \in Sides |-> [coins[s] EXCEPT ![c] = "out"]]
    BY <2>2, <2>4
  <2> QED BY <2>1, <2>3, <2>4
<1>9. StepOf(c)
  <2>1. JobTypes'
    BY <1>0, <1>1, <1>5, <1>6, <1>7, <1>8 DEF JobTypes
  <2> QED BY <1>1, <1>5, <1>6, <1>7, <1>8, <2>1 DEF StepOf, Leaves
<1>10. \/ /\ atmint'[c] = atmint[c] /\ server'[c] = server[c] /\ coins' = coins
          /\ job'["payee"][c] = "idle" /\ result'["payee"][c] = "again"
       \/ /\ atmint[c].state = "locked" /\ atmint'[c] = spent /\ server'[c] = shut
          /\ job'["payee"][c] = "disposing" /\ result'["payee"][c] = result["payee"][c]
       \/ /\ atmint[c].state = "locked" /\ atmint'[c] = spent /\ server'[c] = server[c]
          /\ job'["payee"][c] = "idle" /\ result'["payee"][c] = "again"
       \/ /\ atmint[c].state = "closed" /\ atmint'[c] = atmint[c] /\ server'[c] = shut
          /\ job'["payee"][c] = "disposing" /\ result'["payee"][c] = result["payee"][c]
          /\ coins' = coins
       \/ /\ atmint[c].state # "locked" /\ atmint'[c] = atmint[c] /\ server'[c] = server[c]
          /\ job'["payee"][c] = "idle" /\ result'["payee"][c] = "cannot" /\ coins' = coins
  <2>1. server \in [Channels -> [state : {"none", "open", "closed"}, balance : 0 .. CAPACITY]]
        /\ atmint \in [Channels -> [state : {"locked", "closed", "refunded"}, paid : 0 .. CAPACITY]]
    BY <1>0 DEF JobTypes
  <2> QED BY <1>0, <1>4, <2>1, ReturnDoes, JobGoesOn
<1>11. Settling(c)'
  <2>1. Record(c)'
    BY <1>0, <1>1, <1>2, <1>3, <1>10 DEF Settling, Record, Released
  <2>2. Claimed(c)'
    BY <1>0, <1>1, <1>3, <1>10 DEF Settling, Record, Claimed
  <2>3. job'["payer"][c] = job["payer"][c]
    BY <1>0, <1>5
  <2>4. CASE atmint[c].state = "locked"
    <3>1. \A s \in Sides : c \notin disposed[s]
      BY <1>0, <2>4 DEF Settling, Proceeds
    <3>2. Proceeds(c)'
      BY <1>0, <1>1, <2>3, <2>4, <3>1 DEF Settling, Proceeds, Sides
    <3> QED BY <2>1, <2>2, <3>2 DEF Settling
  <2>5. CASE atmint[c].state # "locked"
    <3>1. atmint'[c] = atmint[c] /\ coins' = coins
      BY <1>10, <2>5
    <3>2. Proceeds(c)'
      BY <1>0, <1>1, <2>3, <3>1 DEF Settling, Proceeds, ToBurn, MintIs
    <3> QED BY <2>1, <2>2, <3>2 DEF Settling
  <2> QED BY <2>4, <2>5
<1> QED BY <1>9, <1>11, StepKeeps

(* What disposing of a share does. *)
LEMMA DisposeDoes ==
    ASSUME JobTypes, NEW s \in Sides, NEW c \in Channels,
           \/ disposed' = [disposed EXCEPT ![s] = @ \cup {c}]
           \/ UNCHANGED disposed
    PROVE  /\ disposed' \in [Sides -> SUBSET Channels]
           /\ \A t \in Sides, d \in Channels :
                 t # s \/ d # c => (d \in disposed'[t] <=> d \in disposed[t])
           /\ disposed' # disposed => c \in disposed'[s]
<1>1. disposed \in [Sides -> SUBSET Channels]
  BY DEF JobTypes
<1> QED BY <1>1

(* A step that disposes of what one side has of a channel, or tries to: it   *)
(* counts as disposed of only if it went where it belongs.                   *)
LEMMA DisposingKeeps ==
    ASSUME IInv, NEW s \in Sides, NEW c \in Channels,
           NEW x \in {"locked", "out", "burned", "dropped", "deposited"},
           NEW r \in {"ok", "again"},
           UNCHANGED <<now, last_expiry, fund, signed, verdict, fetched, accepted, server, atmint,
                       restarts, spare>>,
           faults' \in 0 .. spare'.faults,
           verdict[c] = "ok", UNCHANGED disposed \/ atmint[c].state # "locked",
           Return(s, c, r),
           coins' = [coins EXCEPT ![s][c] = x] \/ UNCHANGED coins,
           disposed' = [disposed EXCEPT ![s] = @ \cup {c}] \/ UNCHANGED disposed,
           s = "payee" /\ c \in disposed'[s] =>
              coins'[s][c] = IF ~ToBurn(c) THEN "deposited"
                             ELSE IF \E u \in BURNS : MintIs(c, u) THEN "burned" ELSE "dropped",
           s = "payer" /\ c \in disposed'[s] /\ atmint[c].paid < CAPACITY
                       /\ atmint[c].state = "closed" => coins'[s][c] = "deposited"
    PROVE  IInv'
<1>0. JobTypes /\ Settling(c) /\ "payee" \in Sides /\ "payer" \in Sides
  BY DEF IInv, TypeOK, JobTypes, Sides
<1>1. /\ coins' \in [Sides -> [Channels -> {"locked", "out", "burned", "dropped", "deposited"}]]
      /\ \A t \in Sides, d \in Channels : t # s \/ d # c => coins'[t][d] = coins[t][d]
  <2>1. coins \in [Sides -> [Channels -> {"locked", "out", "burned", "dropped", "deposited"}]]
    BY <1>0 DEF JobTypes
  <2>2. CASE coins' = [coins EXCEPT ![s][c] = x]
    BY <2>1, <2>2, AtOnePlace
  <2>3. CASE UNCHANGED coins
    BY <2>1, <2>3
  <2> QED BY <2>2, <2>3
<1>2. /\ job' \in [Sides -> [Channels -> {"idle", "closing", "disposing"}]]
      /\ result' \in [Sides -> [Channels -> {"none", "ok", "again", "cannot"}]]
      /\ job'[s][c] = "idle" /\ result'[s][c] = r
      /\ \A t \in Sides, d \in Channels :
            t # s \/ d # c => job'[t][d] = job[t][d] /\ result'[t][d] = result[t][d]
  BY <1>0, ReturnDoes
<1>3. /\ disposed' \in [Sides -> SUBSET Channels]
      /\ \A t \in Sides, d \in Channels :
            t # s \/ d # c => (d \in disposed'[t] <=> d \in disposed[t])
  BY <1>0, DisposeDoes
<1>4. StepOf(c)
  <2>1. JobTypes'
    BY <1>0, <1>1, <1>2, <1>3 DEF JobTypes
  <2> QED BY <1>1, <1>2, <1>3, <2>1 DEF StepOf, Leaves
<1>5. Record(c)'
  <2>1. CASE s = "payee"
    BY <1>0, <1>2, <2>1 DEF Settling, Record, Released
  <2>2. CASE s = "payer"
    <3>1. job'["payee"][c] = job["payee"][c] /\ result'["payee"][c] = result["payee"][c]
      BY <1>0, <1>2, <2>2
    <3> QED BY <1>0, <3>1 DEF Settling, Record, Released
  <2> QED BY <2>1, <2>2 DEF Sides
<1>6. Claimed(c)'
  <2>1. result'["payee"][c] = "cannot" => result["payee"][c] = "cannot"
    BY <1>0, <1>2 DEF Sides
  <2> QED BY <1>0, <2>1 DEF Settling, Claimed
<1>7. Proceeds(c)'
  <2>1. job'["payer"][c] = "disposing" => atmint[c].state = "closed"
    BY <1>0, <1>2 DEF Settling, Proceeds
  <2>2. CASE s = "payee"
    <3>1. coins'["payer"][c] = coins["payer"][c] /\ (c \in disposed'["payer"] <=> c \in disposed["payer"])
      BY <1>0, <1>1, <1>3, <2>2
    <3> QED BY <1>0, <2>1, <2>2, <3>1 DEF Settling, Proceeds, ToBurn, MintIs
  <2>3. CASE s = "payer"
    <3>1. coins'["payee"][c] = coins["payee"][c] /\ (c \in disposed'["payee"] <=> c \in disposed["payee"])
      BY <1>0, <1>1, <1>3, <2>3
    <3> QED BY <1>0, <2>1, <2>3, <3>1 DEF Settling, Proceeds, ToBurn, MintIs
  <2> QED BY <2>2, <2>3 DEF Sides
<1> QED BY <1>4, <1>5, <1>6, <1>7, StepKeeps DEF Settling

(* Where the proceeds of a channel are being disposed of it has been closed. *)
LEMMA DisposingIsClosed ==
    ASSUME IInv, NEW c \in Channels, NEW s \in Sides, job[s][c] = "disposing"
    PROVE  verdict[c] = "ok" /\ atmint[c].state = "closed"
  BY DEF IInv, Settling, Record, Proceeds, Sides

(* What one side's coins become. *)
LEMMA CoinsBecome ==
    ASSUME IInv, NEW s \in Sides, NEW c \in Channels,
           NEW x \in {"locked", "out", "burned", "dropped", "deposited"},
           coins' = [coins EXCEPT ![s][c] = x]
    PROVE  coins'[s][c] = x
<1>1. coins \in [Sides -> [Channels -> {"locked", "out", "burned", "dropped", "deposited"}]]
  BY DEF IInv, TypeOK
<1> QED BY <1>1, AtOnePlace

(* What the payee burns was its to burn. *)
LEMMA BurnKeeps ==
    ASSUME IInv, NEW c \in Channels, Burn(c), UNCHANGED spare
    PROVE  IInv'
<1> USE DEF fundVars, payVars
<1> DEFINE burns == \E u \in BURNS : MintIs(c, u)
           rest == UNCHANGED <<now, last_expiry, fund, signed, verdict, fetched, accepted, server,
                               atmint, restarts, spare>>
<1>0. "payee" \in Sides /\ rest /\ ToBurn(c) /\ faults' \in 0 .. spare'.faults
  BY FaultCounted DEF Burn, Sides, Lost
<1>1. verdict[c] = "ok" /\ atmint[c].state # "locked"
  BY <1>0, DisposingIsClosed DEF Burn
<1>2. \/ /\ ~burns /\ coins' = [coins EXCEPT !["payee"][c] = "dropped"]
         /\ Return("payee", c, "ok") /\ disposed' = [disposed EXCEPT !["payee"] = @ \cup {c}]
      \/ /\ burns /\ coins' = [coins EXCEPT !["payee"][c] = "burned"]
         /\ Return("payee", c, "ok") /\ disposed' = [disposed EXCEPT !["payee"] = @ \cup {c}]
      \/ /\ burns /\ coins' = [coins EXCEPT !["payee"][c] = "burned"]
         /\ Return("payee", c, "again") /\ UNCHANGED disposed
      \/ /\ Return("payee", c, "again") /\ UNCHANGED <<coins, disposed>>
  BY DEF Burn, Dispose
<1>3. CASE /\ ~burns /\ coins' = [coins EXCEPT !["payee"][c] = "dropped"]
           /\ Return("payee", c, "ok") /\ disposed' = [disposed EXCEPT !["payee"] = @ \cup {c}]
  <2>1. coins'["payee"][c] = "dropped"
    BY <1>0, <1>3, CoinsBecome
  <2> QED BY <1>0, <1>1, <1>3, <2>1, DisposingKeeps
<1>4. CASE /\ burns /\ coins' = [coins EXCEPT !["payee"][c] = "burned"]
           /\ Return("payee", c, "ok") /\ disposed' = [disposed EXCEPT !["payee"] = @ \cup {c}]
  <2>1. coins'["payee"][c] = "burned"
    BY <1>0, <1>4, CoinsBecome
  <2> QED BY <1>0, <1>1, <1>4, <2>1, DisposingKeeps
<1>5. CASE /\ burns /\ coins' = [coins EXCEPT !["payee"][c] = "burned"]
           /\ Return("payee", c, "again") /\ UNCHANGED disposed
  <2>1. coins'["payee"][c] = "burned"
    BY <1>0, <1>5, CoinsBecome
  <2> QED BY <1>0, <1>1, <1>5, <2>1, DisposingKeeps
<1>6. CASE Return("payee", c, "again") /\ UNCHANGED <<coins, disposed>>
  <2>1. c \in disposed["payee"] =>
           coins["payee"][c] = IF ~ToBurn(c) THEN "deposited" ELSE IF burns THEN "burned" ELSE "dropped"
    BY DEF IInv, Settling, Proceeds
  <2> QED BY <1>0, <1>1, <1>6, <2>1, DisposingKeeps
<1> QED BY <1>2, <1>3, <1>4, <1>5, <1>6

(* What is deposited is a share of a close that was still out. *)
LEMMA DepositKeeps ==
    ASSUME IInv, NEW s \in Sides, NEW c \in Channels, Deposit(s, c),
           UNCHANGED <<now, last_expiry, fund, signed, verdict, fetched, accepted, server, atmint,
                       restarts, spare>>,
           job[s][c] = "disposing", s = "payee" => ~ToBurn(c)
    PROVE  IInv'
<1>0. faults' \in 0 .. spare'.faults
  BY FaultCounted DEF Deposit, Lost
<1>1. verdict[c] = "ok" /\ atmint[c].state # "locked"
  BY DisposingIsClosed
<1>2. \/ /\ coins' = [coins EXCEPT ![s][c] = "deposited"]
         /\ Return(s, c, "ok") /\ disposed' = [disposed EXCEPT ![s] = @ \cup {c}]
      \/ /\ coins' = [coins EXCEPT ![s][c] = "deposited"]
         /\ Return(s, c, "again") /\ UNCHANGED disposed
      \/ /\ Return(s, c, "again") /\ UNCHANGED <<coins, disposed>>
  BY DEF Deposit, Dispose
<1>3. CASE /\ coins' = [coins EXCEPT ![s][c] = "deposited"]
           /\ Return(s, c, "ok") /\ disposed' = [disposed EXCEPT ![s] = @ \cup {c}]
  <2>1. coins'[s][c] = "deposited"
    BY <1>3, CoinsBecome
  <2> QED BY <1>0, <1>1, <1>3, <2>1, DisposingKeeps
<1>4. CASE /\ coins' = [coins EXCEPT ![s][c] = "deposited"]
           /\ Return(s, c, "again") /\ UNCHANGED disposed
  <2>1. coins'[s][c] = "deposited"
    BY <1>4, CoinsBecome
  <2> QED BY <1>0, <1>1, <1>4, <2>1, DisposingKeeps
<1>5. CASE Return(s, c, "again") /\ UNCHANGED <<coins, disposed>>
  <2>1. Proceeds(c)
    BY DEF IInv, Settling
  <2>2. s = "payee" /\ c \in disposed["payee"] =>
           coins["payee"][c] = IF ~ToBurn(c) THEN "deposited"
                               ELSE IF \E u \in BURNS : MintIs(c, u) THEN "burned" ELSE "dropped"
    BY <2>1 DEF Proceeds
  <2>3. s = "payer" /\ c \in disposed["payer"] /\ atmint[c].paid < CAPACITY
                    /\ atmint[c].state = "closed" => coins["payer"][c] = "deposited"
    BY <2>1 DEF Proceeds
  <2> QED BY <1>0, <1>1, <1>5, <2>2, <2>3, DisposingKeeps
<1> QED BY <1>2, <1>3, <1>4, <1>5

(* Keeping what was earned, and the change. *)
LEMMA KeepKeeps ==
    ASSUME IInv, NEW c \in Channels, Keep(c) \/ KeepChange(c), UNCHANGED spare
    PROVE  IInv'
<1>1. "payee" \in Sides /\ "payer" \in Sides
  BY DEF Sides
<1>2. CASE Keep(c)
  BY <1>1, <1>2, DepositKeeps DEF Keep, fundVars, payVars
<1>3. CASE KeepChange(c)
  BY <1>1, <1>3, DepositKeeps DEF KeepChange, fundVars, payVars
<1> QED BY <1>2, <1>3

(* Change is asked for once the mint has closed the channel, and there is    *)
(* none to have if all of it was paid or the funding refunded.               *)
LEMMA ReclaimKeeps ==
    ASSUME IInv, NEW c \in Channels, Reclaim(c), UNCHANGED spare
    PROVE  IInv'
<1> USE DEF fundVars, payVars
<1> DEFINE rest == UNCHANGED <<now, last_expiry, fund, signed, verdict, fetched, accepted, server,
                               atmint, restarts, spare>>
<1>0. "payer" \in Sides /\ rest /\ verdict[c] = "ok" /\ UNCHANGED coins
      /\ faults' \in 0 .. spare'.faults
  BY FaultCounted DEF Reclaim, Sides
<1>1. Proceeds(c) /\ Settling(c) /\ JobTypes
  BY DEF IInv, TypeOK, JobTypes, Settling
<1>2. \/ Return("payer", c, "ok") /\ UNCHANGED disposed
      \/ Return("payer", c, "again") /\ UNCHANGED disposed
      \/ /\ atmint[c].state = "closed" /\ UNCHANGED <<result, disposed>>
         /\ job' = [job EXCEPT !["payer"][c] = "disposing"]
      \/ /\ atmint[c].state = "refunded" \/ (atmint[c].state = "closed" /\ atmint[c].paid = CAPACITY)
         /\ Return("payer", c, "ok") /\ disposed' = [disposed EXCEPT !["payer"] = @ \cup {c}]
  BY DEF Reclaim, Dispose
<1>3. ASSUME NEW r \in {"ok", "again"}, Return("payer", c, r), UNCHANGED disposed
      PROVE  IInv'
  <2>1. c \in disposed["payer"] /\ atmint[c].paid < CAPACITY /\ atmint[c].state = "closed"
           => coins["payer"][c] = "deposited"
    BY <1>1 DEF Proceeds
  <2> QED BY <1>0, <1>3, <2>1, DisposingKeeps
<1>4. CASE /\ atmint[c].state = "closed" /\ UNCHANGED <<result, disposed>>
           /\ job' = [job EXCEPT !["payer"][c] = "disposing"]
  <2>1. /\ job' \in [Sides -> [Channels -> {"idle", "closing", "disposing"}]]
        /\ \A t \in Sides, d \in Channels :
              t # "payer" \/ d # c => job'[t][d] = job[t][d] /\ result'[t][d] = result[t][d]
    BY <1>0, <1>1, <1>4, JobGoesOn
  <2>2. StepOf(c)
    BY <1>0, <1>1, <1>4, <2>1 DEF StepOf, JobTypes, Leaves
  <2>3. job'["payee"][c] = job["payee"][c] /\ result'["payee"][c] = result["payee"][c]
    BY <2>1 DEF Sides
  <2>4. Record(c)' /\ Claimed(c)'
    BY <1>0, <1>1, <2>3 DEF Settling, Record, Released, Claimed
  <2>5. Proceeds(c)'
    BY <1>0, <1>1, <1>4 DEF Proceeds, ToBurn, MintIs
  <2> QED BY <2>2, <2>4, <2>5, StepKeeps DEF Settling
<1>5. CASE /\ atmint[c].state = "refunded" \/ (atmint[c].state = "closed" /\ atmint[c].paid = CAPACITY)
           /\ Return("payer", c, "ok") /\ disposed' = [disposed EXCEPT !["payer"] = @ \cup {c}]
  <2>1. ~(atmint[c].paid < CAPACITY /\ atmint[c].state = "closed") /\ atmint[c].state # "locked"
    BY <1>5, SpilmanAssumption
  <2> QED BY <1>0, <1>5, <2>1, DisposingKeeps
<1> QED BY <1>2, <1>3, <1>4, <1>5

-----------------------------------------------------------------------------
(* The world. *)

(* Time passes. *)
LEMMA TickKeeps ==
    ASSUME IInv, Tick, UNCHANGED spare
    PROVE  IInv'
<1> USE DEF fundVars, payVars, settleVars
<1>1. TypeOK'
  BY AllowanceType DEF IInv, Tick, TypeOK
<1>2. Expiries'
  BY DEF IInv, Tick, Expiries
<1>3. ASSUME NEW d \in Channels PROVE Leaves(d)
  BY DEF Tick, Leaves
<1> QED BY <1>1, <1>2, <1>3, LeftAlone DEF IInv

(* A refund takes only what no close has taken. *)
LEMMA RefundKeeps ==
    ASSUME IInv, NEW c \in Channels, Refund(c), UNCHANGED spare
    PROVE  IInv'
<1> USE DEF fundVars, payVars, settleVars
<1>0. JobTypes /\ Settling(c)
  BY DEF IInv, TypeOK, JobTypes
<1> DEFINE back == [atmint[c] EXCEPT !.state = "refunded"]
<1>1. /\ atmint \in [Channels -> [state : {"locked", "closed", "refunded"}, paid : 0 .. CAPACITY]]
      /\ atmint[c].state = "locked" /\ atmint' = [atmint EXCEPT ![c] = back]
  BY <1>0 DEF Refund, JobTypes
<1>2. /\ back \in [state : {"locked", "closed", "refunded"}, paid : 0 .. CAPACITY]
      /\ back.state = "refunded"
  BY <1>1
<1> HIDE DEF back
<1>3. /\ atmint' \in [Channels -> [state : {"locked", "closed", "refunded"}, paid : 0 .. CAPACITY]]
      /\ atmint'[c] = back /\ \A d \in Channels : d # c => atmint'[d] = atmint[d]
  BY <1>1, <1>2
<1>4. StepOf(c)
  BY <1>0, <1>3 DEF Refund, StepOf, JobTypes, Leaves
<1>5. Record(c)' /\ Claimed(c)'
  BY <1>0, <1>1, <1>2, <1>3 DEF Settling, Record, Released, Claimed, Refund
<1>6. \A s \in Sides : c \notin disposed[s]
  BY <1>0, <1>1 DEF Settling, Proceeds
<1>7. Proceeds(c)'
  BY <1>0, <1>1, <1>6 DEF Settling, Proceeds, Refund, Sides
<1> QED BY <1>4, <1>5, <1>7, StepKeeps DEF Settling

(* A restart forgets every record, so nothing more is paid on any channel or *)
(* said to be disposed of.                                                   *)
LEMMA RestartKeeps ==
    ASSUME IInv, Restart, UNCHANGED spare
    PROVE  IInv'
<1> USE DEF fundVars, payVars
<1>0. JobTypes /\ spare \in Allowances /\ restarts \in 0 .. spare.restarts
  BY DEF IInv, TypeOK, JobTypes
<1>1. restarts' \in 0 .. spare'.restarts /\ spare.restarts # 0
  BY <1>0, AllowanceType DEF Restart
<1>2. server' \in [Channels -> [state : {"none", "open", "closed"}, balance : 0 .. CAPACITY]]
      /\ \A c \in Channels : server'[c].state = "none"
  BY SpilmanAssumption DEF Restart, NoRecord
<1>3. /\ job' \in [Sides -> [Channels -> {"idle", "closing", "disposing"}]]
      /\ \A c \in Channels : job'["payee"][c] = "idle" /\ job'["payer"][c] = job["payer"][c]
  BY <1>0 DEF Restart, JobTypes, Sides
<1>4. /\ result' \in [Sides -> [Channels -> {"none", "ok", "again", "cannot"}]]
      /\ \A c \in Channels : result'["payee"][c] = "none"
  BY <1>0 DEF Restart, JobTypes, Sides
<1>5. /\ disposed' \in [Sides -> SUBSET Channels]
      /\ disposed'["payee"] = {} /\ disposed'["payer"] = disposed["payer"]
  BY <1>0 DEF Restart, JobTypes, Sides
<1>6. TypeOK'
  BY <1>1, <1>2, <1>3, <1>4, <1>5 DEF IInv, TypeOK, Restart
<1>7. Expiries'
  BY DEF IInv, Restart, Expiries
<1>8. ASSUME NEW c \in Channels PROVE Settling(c)'
  <2>1. Settling(c) /\ UNCHANGED <<fund, verdict, accepted, atmint, coins, spare>>
    BY DEF IInv, Restart
  <2>2. Record(c)'
    BY <1>1, <1>2, <1>3, <2>1 DEF Settling, Record
  <2>3. Claimed(c)'
    BY <1>4, <2>1 DEF Settling, Claimed
  <2>4. Proceeds(c)'
    BY <1>3, <1>5, <2>1 DEF Settling, Proceeds, Sides
  <2> QED BY <2>2, <2>3, <2>4 DEF Settling
<1> QED BY <1>0, <1>6, <1>7, <1>8 DEF IInv

-----------------------------------------------------------------------------
(* The theorem. *)

(* The invariant implies what it was made for. *)
LEMMA IInvSound == IInv => ChannelsSound
<1> SUFFICES ASSUME IInv PROVE ChannelsSound
  OBVIOUS
<1>1. TypeOK /\ Expiries /\ \A c \in Channels : Settling(c)
  BY DEF IInv
<1>2. DistinctIds
  BY <1>1 DEF DistinctIds, Expiries, ChannelIdOf
<1>3. ClosesAtAccepted
  BY <1>1 DEF ClosesAtAccepted, Settling, Claimed
<1>4. DisposedOf
  <2>1. disposed["payee"] \subseteq Channels /\ disposed["payer"] \subseteq Channels
    BY <1>1 DEF TypeOK, Sides
  <2> QED BY <1>1, <2>1 DEF DisposedOf, Settling, Proceeds
<1> QED BY <1>1, <1>2, <1>3, <1>4 DEF ChannelsSound

(* Every step keeps it. *)
LEMMA NextIInv == IInv /\ [Next]_vars => IInv'
<1> SUFFICES ASSUME IInv, [Next]_vars PROVE IInv'
  OBVIOUS
<1>0. spare.channels \subseteq Channels /\ spare.urls \subseteq Urls
  BY AllowanceType DEF IInv
<1>1. CASE UNCHANGED vars
  <2>1. TypeOK' /\ Expiries'
    BY <1>1 DEF IInv, TypeOK, Expiries, vars
  <2>2. ASSUME NEW d \in Channels PROVE Leaves(d)
    BY <1>1 DEF Leaves, vars
  <2> QED BY <1>1, <2>1, <2>2, LeftAlone DEF IInv, vars
<1>2. CASE Next
  <2>0. UNCHANGED spare
    BY <1>2 DEF Next
  <2>1. ASSUME NEW c \in spare.channels, NEW u \in spare.urls, Fund(c, u) PROVE IInv'
    BY <1>0, <2>0, <2>1, FundKeeps
  <2>2. ASSUME NEW c \in spare.channels, TakeExpiry(c) \/ Open(c) \/ Verify(c) PROVE IInv'
    BY <1>0, <2>0, <2>2, TakeExpiryKeeps, OpenKeeps, VerifyKeeps
  <2>3. ASSUME NEW c \in spare.channels, Settle(c) \/ Close(c) \/ Burn(c) \/ Keep(c) PROVE IInv'
    BY <1>0, <2>0, <2>3, SettleKeeps, CloseKeeps, BurnKeeps, KeepKeeps
  <2>4. ASSUME NEW c \in spare.channels, Reclaim(c) \/ KeepChange(c) \/ Refund(c) PROVE IInv'
    BY <1>0, <2>0, <2>4, ReclaimKeeps, KeepKeeps, RefundKeeps
  <2>5. ASSUME NEW c \in spare.channels, NEW n \in Amounts, SignUpdate(c, n) PROVE IInv'
    BY <1>0, <2>0, <2>5, SignUpdateKeeps
  <2>6. ASSUME NEW ups \in Purchases, NEW accept \in BOOLEAN, TopUp(ups, accept) PROVE IInv'
    BY <2>0, <2>6, TopUpKeeps
  <2>7. CASE Tick \/ Restart
    BY <2>0, <2>7, TickKeeps, RestartKeeps
  <2> QED BY <1>2, <2>1, <2>2, <2>3, <2>4, <2>5, <2>6, <2>7 DEF Next
<1> QED BY <1>1, <1>2

(* For any channels, mints, faults, lost answers and restarts: channels      *)
(* funded in one second are told apart; each closes at exactly what core     *)
(* accepted, and without a restart is given up only where nothing can be     *)
(* claimed; what counts as disposed of went where the configuration sends it.*)
THEOREM ChannelsStaySound == Spec => []ChannelsSound
<1>1. Init => IInv
  BY InitIInv
<1>2. IInv /\ [Next]_vars => IInv'
  BY NextIInv
<1>3. IInv => ChannelsSound
  BY IInvSound
<1> QED BY <1>1, <1>2, <1>3, PTL DEF Spec
=============================================================================
