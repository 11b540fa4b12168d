----------------------------- MODULE Publisher -----------------------------
(***************************************************************************)
(* The registry publisher (internal/federation/publisher.go, mvc_tx.go,    *)
(* metalet_client.go) and its place in Service: the goroutine that         *)
(* registers this node with a "create" pin and renews the registration     *)
(* with a "modify" pin at every tick of its ticker.                        *)
(*                                                                         *)
(* A publication fetches the wallet's outputs, builds and signs a          *)
(* transaction in a loop that raises the fee, and broadcasts it through    *)
(* the wallet service; each request may fail, and an answer may get lost   *)
(* after the transaction was accepted.  Points in time are represented by  *)
(* the time left until them.                                               *)
(***************************************************************************)
EXTENDS Integers, FiniteSets, FiniteSetsExt

CONSTANTS
    ValidFor,      \* registryValidFor
    RenewInterval, \* registryRenewInterval
    MaxDelay,      \* both requests of a publication together take at most this
    MaxFails,      \* failures in a row that the registration has to survive
    FeeRate, Dust,
    Balances,      \* possible values of the wallet's outputs
    Sizes,         \* possible sizes of the signed transaction
    MaxAttempts,   \* attempts of the fee loop
    MaxCrashes     \* bound on the number of crashes

Lapsed == -1
NoTicker == -1
NoTx == [change |-> 0, fee |-> 0, size |-> 0]

ASSUME PublisherAssumption ==
    /\ ValidFor \in Nat \ {0} /\ RenewInterval \in Nat \ {0} /\ MaxDelay \in Nat
    /\ MaxDelay < RenewInterval
    /\ MaxFails \in Nat /\ MaxCrashes \in Nat
    /\ (MaxFails + 1) * RenewInterval + (MaxFails + 2) * MaxDelay <= ValidFor
    /\ FeeRate \in Nat \ {0} /\ Dust \in Nat \ {0}
    /\ Balances \subseteq Nat /\ Sizes \subseteq Nat \ {0} /\ IsFiniteSet(Sizes)
    /\ MaxAttempts \in Nat

VARIABLES
    stopped,    \* Service.Stop has cancelled the context
    pc,         \* "begin", "wait", "utxos", "build", "broadcast", "sent", "returned"
    age,        \* time since PublishOnce read the clock
    timer,      \* time until the next tick, NoTicker before there is a ticker
    tick,       \* a tick is waiting in the ticker's channel
    balance,    \* inputValue of the transaction being built
    required,   \* requiredFee
    attempt,
    tx,         \* the transaction that has been built
    \* the registry on the chain
    left,       \* time for which this node's newest pin is valid
    \* history
    registered, \* the node has been registered
    fails,      \* publications that failed since the last good one, at most MaxFails + 1
    crashes

loopVars == <<pc, timer, tick>>
buildVars == <<balance, required, attempt, tx>>
history == <<registered, fails>>
publisherVars == <<stopped, loopVars, age, buildVars, left, history, crashes>>

Txs == [change : Int, fee : Nat, size : Nat]

PublisherTypeOK ==
    /\ stopped \in BOOLEAN
    /\ pc \in {"begin", "wait", "utxos", "build", "broadcast", "sent", "returned"}
    /\ age \in 0..MaxDelay /\ timer \in NoTicker..RenewInterval /\ tick \in BOOLEAN
    /\ balance \in Balances \cup {0} /\ required \in Nat /\ attempt \in 0..MaxAttempts
    /\ tx \in Txs
    /\ left \in Lapsed..ValidFor
    /\ registered \in BOOLEAN /\ fails \in 0..(MaxFails + 1) /\ crashes \in 0..MaxCrashes

NoBuild == balance = 0 /\ required = 0 /\ attempt = 0 /\ tx = NoTx

PublisherInit ==
    /\ stopped = FALSE
    /\ pc = "begin" /\ timer = NoTicker /\ tick = FALSE
    /\ age = 0 /\ NoBuild
    /\ left = Lapsed
    /\ registered = FALSE /\ fails = 0 /\ crashes = 0

-----------------------------------------------------------------------------
(* One publication: PublishOnce *)

InCall == pc \in {"utxos", "build", "broadcast", "sent"}

\* PublishOnce returns: the loop waits, the first time with a new ticker.
Return ==
    /\ pc' = "wait"
    /\ timer' = IF timer = NoTicker THEN RenewInterval ELSE timer
    /\ age' = 0
    /\ balance' = 0 /\ required' = 0 /\ attempt' = 0 /\ tx' = NoTx

OneMoreFailure == fails' = IF fails > MaxFails THEN fails ELSE fails + 1

\* Mutant of Fail: the loop gives up after MaxFails + 1 failures.
FailGivesUp ==
    /\ pc' = IF fails < MaxFails THEN "wait" ELSE "returned"
    /\ timer' = IF timer = NoTicker THEN RenewInterval ELSE timer
    /\ age' = 0
    /\ balance' = 0 /\ required' = 0 /\ attempt' = 0 /\ tx' = NoTx
    /\ OneMoreFailure
    /\ UNCHANGED <<stopped, tick, left, registered, crashes>>

\* storePublishError; run ignores the error.
Fail ==
    /\ Return
    /\ OneMoreFailure
    /\ UNCHANGED <<stopped, tick, left, registered, crashes>>

\* The clock is read; run has checked the context before the first publication.
Begin ==
    /\ pc = "begin" /\ ~stopped
    /\ pc' = "utxos"
    /\ UNCHANGED <<stopped, timer, tick, age, buildVars, left, history, crashes>>

\* MVCAddressUTXOs and publisherRegistryUTXOs.  A cancelled context fails.
FetchUTXOs(b) ==
    /\ pc = "utxos" /\ ~stopped
    /\ pc' = "build"
    /\ balance' = b
    /\ UNCHANGED <<stopped, timer, tick, age, required, attempt, tx, left, history, crashes>>

FetchFails == pc = "utxos" /\ Fail

Change == balance - Dust - required

\* Mutant of SignAttempt: the fee is not compared with the size of this attempt.
SignOnce(size) ==
    /\ pc = "build" /\ Change >= Dust /\ attempt < MaxAttempts
    /\ required' = size * FeeRate
    /\ attempt' = attempt + 1
    /\ IF attempt = 1
       THEN pc' = "broadcast" /\ tx' = [change |-> Change, fee |-> required, size |-> size]
       ELSE UNCHANGED <<pc, tx>>
    /\ UNCHANGED <<stopped, timer, tick, age, balance, left, history, crashes>>

\* BuildMVCRegistryTx, one attempt: sign, and compare the fee with the size of
\* the signed transaction, which differs from attempt to attempt.
SignAttempt(size) ==
    /\ pc = "build" /\ Change >= Dust /\ attempt < MaxAttempts
    /\ IF required >= size * FeeRate
       THEN /\ pc' = "broadcast"
            /\ tx' = [change |-> Change, fee |-> required, size |-> size]
            /\ UNCHANGED <<required, attempt>>
       ELSE /\ required' = required + (size * FeeRate - required)
            /\ attempt' = attempt + 1
            /\ UNCHANGED <<pc, tx>>
    /\ UNCHANGED <<stopped, timer, tick, age, balance, left, history, crashes>>

\* The outputs do not cover the fee, or the attempts are used up.
BuildFails == pc = "build" /\ (Change < Dust \/ attempt = MaxAttempts) /\ Fail

\* BroadcastMVC: the request is sent, and then the service accepts or rejects it.
SendBroadcast ==
    /\ pc = "broadcast" /\ ~stopped
    /\ pc' = "sent"
    /\ UNCHANGED <<stopped, timer, tick, age, buildVars, left, history, crashes>>

BroadcastFails == pc \in {"broadcast", "sent"} /\ Fail

\* registryPayload: validUntil was computed when the publication began.
RegistryLeft == ValidFor - age

\* The transaction is accepted, and the answer arrives ...
Accepted ==
    /\ pc = "sent"
    /\ left' = RegistryLeft
    /\ registered' = TRUE
    /\ fails' = 0
    /\ Return
    /\ UNCHANGED <<stopped, tick, crashes>>

\* ... or is lost, which PublishOnce takes for a failure.
AcceptedUnseen ==
    /\ pc = "sent"
    /\ left' = RegistryLeft
    /\ registered' = TRUE
    /\ OneMoreFailure
    /\ Return
    /\ UNCHANGED <<stopped, tick, crashes>>

-----------------------------------------------------------------------------
(* The loop *)

\* Mutant of Renew: the publication begins, and every other tick is ignored.
RenewEverySecond ==
    /\ pc = "wait" /\ tick
    /\ tick' = FALSE
    /\ pc' = IF registered /\ left > ValidFor \div 2 THEN "wait" ELSE "utxos"
    /\ UNCHANGED <<stopped, timer, age, buildVars, left, history, crashes>>

\* select takes the tick, which it may also do when the context is cancelled.
Renew ==
    /\ pc = "wait" /\ tick
    /\ tick' = FALSE
    /\ pc' = "utxos"
    /\ UNCHANGED <<stopped, timer, age, buildVars, left, history, crashes>>

\* The loop sees that the context is cancelled.
Leave ==
    /\ stopped /\ pc \in {"begin", "wait"}
    /\ pc' = "returned" /\ timer' = NoTicker /\ tick' = FALSE
    /\ UNCHANGED <<stopped, age, buildVars, left, history, crashes>>

\* Service.Stop; a request under way may still get through.
Stop ==
    /\ ~stopped
    /\ stopped' = TRUE
    /\ UNCHANGED <<loopVars, age, buildVars, left, history, crashes>>

\* Time passes.  The goroutine takes a tick without delay, requests end after
\* their timeouts, and the channel holds one tick.
Elapse ==
    /\ pc = "wait" /\ tick => stopped
    /\ pc # "begin" \/ stopped
    /\ InCall => age < MaxDelay
    /\ age' = IF InCall THEN age + 1 ELSE age
    /\ left' = IF left = Lapsed THEN Lapsed ELSE left - 1
    /\ timer' = IF timer = NoTicker THEN NoTicker ELSE IF timer = 1 THEN RenewInterval ELSE timer - 1
    /\ tick' = (tick \/ timer = 1)
    /\ UNCHANGED <<stopped, pc, buildVars, history, crashes>>

\* The process dies and starts again at once; what it was publishing is lost.
Crash ==
    /\ ~stopped /\ crashes < MaxCrashes
    /\ crashes' = crashes + 1
    /\ pc' = "begin" /\ timer' = NoTicker /\ tick' = FALSE
    /\ age' = 0
    /\ balance' = 0 /\ required' = 0 /\ attempt' = 0 /\ tx' = NoTx
    /\ IF InCall THEN OneMoreFailure ELSE UNCHANGED fails
    /\ UNCHANGED <<stopped, left, registered>>

LoopStep ==
    \/ Begin \/ Renew \/ Leave
    \/ \E s \in Sizes : SignAttempt(s)
    \/ BuildFails \/ SendBroadcast

WalletStep ==
    \/ \E b \in Balances : FetchUTXOs(b)
    \/ FetchFails \/ BroadcastFails \/ Accepted \/ AcceptedUnseen

PublisherNext == LoopStep \/ WalletStep \/ Elapse \/ Stop \/ Crash

PublisherSpec == PublisherInit /\ [][PublisherNext]_publisherVars

SignSucceeds == \E s \in Sizes : SignAttempt(s) /\ pc' = "broadcast"

\* The goroutine runs, time passes, the fee loop does not use up its attempts in
\* every publication, and the wallet service works again and again: it lists the
\* largest outputs, is reached, and accepts a transaction and answers.
PublisherFairSpec ==
    /\ PublisherSpec
    /\ WF_publisherVars(LoopStep) /\ WF_publisherVars(WalletStep) /\ WF_publisherVars(Elapse)
    /\ SF_publisherVars(FetchUTXOs(Max(Balances)))
    /\ SF_publisherVars(SignSucceeds) /\ SF_publisherVars(SendBroadcast) /\ SF_publisherVars(Accepted)

-----------------------------------------------------------------------------
(* Properties *)

\* "validUntil 24h, allows short offline times": a running node that is registered
\* stays registered through MaxFails failed publications in a row, whatever part
\* of them is due to crashes, lost answers or slow requests.
StaysRegistered ==
    registered /\ fails <= MaxFails /\ ~stopped => left # Lapsed

\* What is broadcast pays the fee rate for its own size and no more than the
\* largest size costs, returns change that is not dust, and spends exactly the
\* inputs.  The loop uses up its attempts only on sizes that grow each time: after
\* n attempts the fee covers n different sizes.
Covered(fee) == {s \in Sizes : s * FeeRate <= fee}
FeeIsPaid ==
    /\ pc \in {"broadcast", "sent"} =>
         /\ tx.fee >= tx.size * FeeRate
         /\ \E s \in Sizes : tx.fee <= s * FeeRate
         /\ tx.change >= Dust
         /\ tx.change + Dust + tx.fee = balance
    /\ pc = "build" => attempt <= Cardinality(Covered(required))

\* After any outage a node that keeps running is registered again.
RegisteredAgain == []<>(left # Lapsed \/ stopped)
=============================================================================
