# Formal model of the finality provider

TLA+ specifications of the Babylon finality provider: the daemon `fpd`, which votes for blocks and
commits public randomness, and the daemon `eotsd`, which keeps the keys and makes the one-time (EOTS)
signatures. Two EOTS signatures at one height on different blocks reveal the provider's private key and
slash its stake, and a vote that is not cast costs rewards and in the end jails the provider. The models
therefore ask two questions throughout: can anything be signed twice, and can a vote be lost?

## The system and its parts

| Part | Source | Module |
|---|---|---|
| EOTS manager, sign store, rollback | `eotsmanager/localmanager.go`, `eotsmanager/store/`, `eotsmanager/service/rpcserver.go`, `eotsmanager/cmd/eotsd/daemon/` | `EotsManager`, promise in `SlashingProtection` |
| Keys: keyring, key names, unlocking, the key commands of `eotsd` | `eotsmanager/localmanager.go`, `eotsmanager/cmd/eotsd/daemon/keys.go`, `keysadd.go`, `unlock.go` | `EotsKeys` |
| Proof of possession, `eotsd pop` | `eotsmanager/cmd/eotsd/daemon/pop.go` | `ProofOfPossession`, `EotsKeys` |
| Authentication of RPC calls with an HMAC | `eotsmanager/client/`, `eotsmanager/service/`, `eotsmanager/config/` | `RpcAuth`, `EotsKeys` |
| Chain poller and its channel | `finality-provider/service/chain_poller.go` | `ChainPoller` |
| Submission loop, finality submitter, provider state | `fp_instance.go`, `finality_submitter.go`, `fp_store_adapter.go`, `store/fpstore.go` | `FinalityVoting` |
| Votes added by hand (`unsafe-add-finality-sig`) | `rpcserver.go`, `fp_test_helper.go`, `cmd/fpd/common/common_cmd.go` | `FinalityVoting` |
| Start height after a restart | `bootstrap.go` | `FinalityVoting` |
| Sending of vote batches | `clientcontroller/babylon/consumer.go` | `FinalityVoting` |
| Monitor of critical errors, unjailing, status sync | `event_loops.go`, `app.go` | `FinalityVoting` |
| Randomness commitment, proof store, its commands | `rand_committer.go`, `store/pub_rand.go`, `fp_test_helper.go`, `cmd/fpd/daemon/` | `RandCommitter` |
| Registration and edits of providers, provider store, start and end of the daemon | `app.go`, `event_loops.go`, `rpcserver.go`, `store/fpstore.go`, `clientcontroller/babylon/babylon.go`, `cmd/fpd/daemon/start.go`, `create_fp.go`, `server.go` | `Registration` |
| Backups, metrics, configuration, logging | | not modelled |

How they interact. The poller queries blocks and puts them on a bounded channel. The submission loop
drains the channel into a batch, drops the blocks without voting power, asks the EOTS manager for
signatures, pairs them with the randomness proofs of the store, and sends one transaction. After the
chain took it, the loop stores `LastVotedHeight`. A second loop commits randomness ahead of the chain.
An error the submitter cannot handle goes over an unbuffered channel to the monitor, which marks a
slashed provider and stops its instance, and ends the process on every other error. A supervisor
restarts the process, and `DetermineStartHeight` decides where voting goes on. Before all this a provider is
registered: an RPC call hands its request to the registration loop, which sends the transaction, and the call
then saves the provider. At the next start the daemon syncs the status of all stored providers and
starts one of them. On the side of `eotsd`, commands put keys into the keyring and their names into the database
that the running daemon owns, and the daemon unlocks and looks up keys through both.

## Modules

**`SlashingProtection`** is the promise of the EOTS manager: a slot (key, chain, height) is bound to at
most one message, and only the bound message is published, unless the operator waived the slot.

**`EotsManager`** follows each gRPC call through its steps: `NewCall`, the lookup and signing under
`lm.mu` (`SignEOTS`, `SignBatchEOTS`), the save (`SaveSignRecord`, `SaveSignRecordsBatch`), and the
response. Crashes, failed writes, lost responses, `UnsafeSignEOTS`, the rollback of records and changes of
key names, keyring and unlocked keys interleave with them. A signature is the record of its key, chain,
height and message, because key and height determine the nonce.

**`ChainPoller`** has the polling goroutine with its backpressure and its 30-second timeout, the drain of
the channel by the submission loop, `SetStartHeight`, `Stop`, cancellation of the context and the reboot.
A block is its height. Lagging nodes are queries that answer with any lower tip.

**`FinalityVoting`** has the provider's state twice, in memory and in the database. `SetStatus` and
`IsJailed` write them in two steps, as the code does, so that the monitor and the unjail handler can come
in between. An unjail request is the transaction, the loop's write and the caller's write; the loop may get an error
although the transaction was included, and the process may end after each step (`UnjailTx` to `UnjailResponse`).
Heights that the loop gives up are kept in two history variables: `skipped` when another block of the height is signed or
the chain has the provider jailed, `stale` when only the local status still says JAILED. The node may report different hashes for one height. The chain is external: it takes a
transaction as a whole or fails it with its first bad message. The EOTS manager and the poller appear by
what their own modules establish. A vote added by hand (`AddFinalitySignature`) is signed and sent next to the
loop, with or without the manager's protection; it does not touch `LastVotedHeight`, but after a restart the loop
goes on behind it. The module refines `SlashingProtection` once more (`KeepsProtection`), this time from the sign
store to the votes in the chain: slots are the heights, and what is published is what the chain includes. A
height is waived when an operator turned the check off for it. **`Subsequences`** has the loops of the code that copy
some elements of a slice in order: `Subsequence(s, I)` is `s` at the indices `I`.

**`RandCommitter`** has the commitment loop in the steps query, decide, store, send, the operator's
commands that commit and recover while the daemon is down, and the RPC that removes proofs while it runs. A Merkle tree is named by the
start height of its commit; a stored proof is the name of its tree.

**`Registration`** follows the create command with the RPC calls `CreateFinalityProvider` and `EditFinalityProvider`: each query,
transaction and database batch is a step. `registrationLoop` takes requests from an unbuffered channel.
A provider already on the chain is adopted (`PutFpFromResponse`). The daemon is started with or without
`--eots-pk`, syncs the statuses one query at a time, starts an instance, waits for a registration or refuses
(`Chosen`), and ends with a signal, an error or a crash at any step. A proof of possession is the address it
signs. Of the instance there are only its votes and its removal after slashing. `doomed` is a history
variable: the providers that were slashed and without power when the daemon was launched.

**`RpcAuth`** has the two interceptors as predicates: what a client attaches to a request, what a server lets
pass, and which keys either side has. **`ProofOfPossession`** has the two signatures of a proof, its export and
its validation. Hashes, signatures and encodings are records of what they are made from, so that two are equal
only when their parts are, and text in the wrong encoding does not decode.

**`EotsKeys`** extends both. A key lives in the keyring (name to key), in a bucket of `eots.db` (key to name), and in
the memory of the daemon once it is unlocked; nothing updates them together. `keys add`, the imports and `pop` are processes
of several steps; `keys delete`, `rename`, `list`, `unlock` and the calls to the daemon are one step. Between two
steps of a process anyone else may change the keyring. The database belongs to one process at a time, because
bbolt locks its file: a command that finds it locked ends with an error.

`MC*` modules add the symmetry sets for TLC. `*Proofs` modules hold the proofs.

## Runs

| Run | Checks | Instance |
|---|---|---|
| `eots_sign` | no double signature, returned signatures are durable, the save never meets a duplicate, records are final, refinement of `SlashingProtection` | 2 concurrent calls, 2 heights, 2 messages, batches of 2 |
| `eots_chains` | a rollback waives only its own chain, with locked keys and unsafe signing; every call returns | 1 call at a time, 2 chains, 2 messages, file backend |
| `poller` | no gap, bounded repetition, no send on a closed channel, `Stop` returns, every block arrives | 5 blocks, channel of 2, ranges of 3, batches of 2 |
| `voting_safe` | no equivocation, nothing at or below the last voted height, no vote lost, refinement of `SlashingProtection` | 2 heights, 2 hashes, a powerless height, 2 crashes, 1 resend or vote by hand, batches of 2 |
| `voting_live` | with jailing, unjailing, slashing and process exits on critical errors: no vote lost, every block with power is voted for or given up for a stated reason, the loop of a slashed provider ends | 2 heights, no crash at other places |
| `registration` | stored providers are registered under the stored address, the stored height never falls, no instance for a provider whose power ended with its slashing, every call ends, a retry adopts a provider that a crash left unsaved | 2 keys, 2 addresses, 2 concurrent calls, 1 vote |
| `rand` | stored proofs match the chain, no overlapping commit, randomness stays ahead of the chain | 2 heights, targets up to 3, 2 per commit, late transactions, all commands |
| `keys` | one owner of `eots.db`, a private key is used only for its own public key, and only for clients with the HMAC key of the daemon; an exported proof of possession validates | 2 keys, 2 names, 3 kinds of records, both backends, 1 key command, 1 `pop` command, 2 Babylon keys, a plain HMAC key and a cloud reference |
| `keys_live` | however often it was interrupted, adding a key again makes the daemon sign with it and `keys list` show it | 2 keys, 2 names, 1 key command, 1 HMAC key |

Why the bounds are enough: a double signature needs two calls and two messages at one slot; a send
timeout inside a range needs a range longer than the channel; a shifted or lost vote needs a batch of two
with one block powerless or resent, and a crash before or after it; overlapping commits need two commits
of more than one height; a registration that goes wrong needs two calls for one key, or a second stored
provider at the start; a key confused with another needs two keys and two names, and one command between whose
steps the keyring changes. `voting_safe` was also checked once with three heights (34.5 million states) and once with
punishments (25 million); both hold and take too long to repeat. `MaxHeight`, `MaxTarget`, `MaxBatch`, `MaxCrashes`, `MaxResends` and `MaxVoted` bound
counters. `Registration` has two more bounds. Babylon changes the power and punishes only the keys in
`Eventful`. Calls overlap only for one key (`MayOverlap`), which the code does not ask for: calls for different keys
meet only at the loop, which works on one at a time, and with `AnyOverlap` the bound is gone and the run too long.
`FinalityVoting` has one unjail request at a time. Descriptions and rates have one value in the run, because no property of it
compares them.

### Where the code and its documentation disagree

Each of these runs checks what a comment or document says, and TLC finds a behaviour of the code that
breaks it. The exact lines are in `PROJECT.json`.

- `voting_randomness`: randomness is paired with blocks by index, counted from the first block; a powerless
  height in the middle of a batch shifts it. The chain refuses the transaction as a whole, and the daemon
  exits and starts over.
- `voting_filtered`: with a limit on message removals, valid votes may never be sent although the batch
  is reported as filtered.
- `voting_unjailed`: the submission loop can overwrite the INACTIVE of an unjail request with the JAILED that it
  learned before. From then on it drops every block as jailed, although the provider is unjailed and has power, until
  a restart syncs the status with the chain.

Some smaller differences are part of the models and have no run of their own. The status SLASHED, "irreversible"
at `docs/finality-provider-operation.md:630`, can be overwritten in the database: `IsJailed` and
`FilterBlocksForVoting` may store what they learned before the monitor, and an unjail request stores INACTIVE
whatever is stored; `SlashedStops` holds all the same, because the monitor ends the loop. When an unjail transaction is
included but its sender gets an error (`UnjailFailed`), or the process ends before the status is written, the
database keeps JAILED; an error leaves the loop dropping blocks until a restart, and a second request is refused because the
chain no longer has the provider jailed. The status sync at the start looks at the power of the latest block first
(`app.go:281`), so that a provider slashed at that block is stored as ACTIVE and started; it learns of
the slashing from its first vote. After a send timeout the
poller sends blocks again, so a batch need not be ascending, as the comment at `finality_submitter.go:177`
expects; the EOTS manager refuses such a batch and the daemon starts over (`SignRefused`). `LastVotedHeight` is
the last block of the batch, voted for or not (`SetLastVotedHeight`). Commits leave a gap when the chain has
caught up with the committed randomness (`StartHeight`), which `docs/fp-core.md:64` excludes. The commit command
without a start height does nothing for a provider without any commit, because it begins at height 0 then
(`CommitPubRand`). An edit fills the fields that it was not given from a query made before its transaction
(`EditQuery`); of two edits in progress the later takes back the fields of the earlier, although
`common_cmd.go:301` says that unchanged fields keep their current values. A daemon with a single stored provider that is
slashed refuses to start (`StartRefused`), so that no other provider can be registered with this database;
`RetryAdopts` is therefore conditional on `CanStart`. A commit transaction that is included after its sender gave up
can meet the proofs of another tree in the store; the recover command restores its own.

Around keys: `keys add` under a new name of a key that the bucket has under another one reports success when it
works on the database (`keys.go:200`, "keyring will handle it"), and the mapping stays, so that the daemon does not find
the key (`MapKept`); `AddingAgainWorks` is therefore conditional on `GoalIsClean`. Through the RPC the same case is an error, because
`errors.Is` (`keys.go:159`) does not recognise an error that came over gRPC. The message at `keys.go:206` speaks of a
different key when the same key is already mapped to this name. A dry run saves the mapping of a name that the
keyring has. `unlock` does not compare the key it finds with the key it was asked for; every later
use does (`getEOTSPrivKey`). A record without a private key makes the daemon panic when its key is asked for
(`KeyCallPanics`, `UnlockPanics`). A cloud reference as HMAC key is an empty key for the client and the
text itself for the server, which then refuses every client (`ProcessHMACKey`), although `docs/hmac-security.md:91` speaks of
such references as usable. Adding a key asks a running daemon to save its name (`SaveEOTSKeyName`), where
`docs/hmac-security.md:25` has no call at all. `keys list` shows one key for each name.

## Fairness

- `EotsManager`: handler goroutines run on (weak fairness); a waiting goroutine gets `lm.mu` (strong
  fairness), as Go's mutex hands itself to a waiter that starves.
- `ChainPoller`: goroutines run on and the submission loop keeps draining.
- `FinalityVoting` and `RandCommitter`: the loops are driven by tickers, and a supervisor restarts the daemon. An
  unjail request whose transaction was included goes on to its writes (`UnjailAnswer`).
- `Registration`: goroutines run on; a call that waits for the loop is served (strong fairness), because a Go
  channel queues its senders. The operator starts the daemon with a provider that is not slashed, and retries
  the registration of a provider that is not stored.
- `EotsKeys`: processes run on. The operator works towards one key under one name: adds it again until it is stored,
  deletes it under other names, starts the daemon, unlocks it, and restarts it when it holds an outdated key.

In all but the first, outages end: from some point on every step is one of `Undisturbed`, the next-state relation
without failing calls. For voting it is also without punishments, for randomness without the operator's
commands, for `Registration` without crashes, signals and starts that name an unusable provider, and for `EotsKeys`
without commands for other keys. The condition is on the steps that are taken, not a ban of the failing actions,
because a failed call and a call with nothing to do may be the same step (`QueryFailed` and `ShouldCommit`), and the
second must stay possible. Beyond what the list says of the operator no fairness is assumed of them, and none of
crashes or of a late transaction.

## Proofs

`EotsManagerProofs` proves for all sets of keys, names, chains, heights, messages and concurrent calls:
`TypeCorrect`, `SlashingSafety` (`NoDoubleSign`), `Durability` (`ReturnedIsRecorded`), `LockSuffices`
(`SaveNeverDuplicate`), `RecordFinality` (`RecordsAreFinal`) and `Refinement` (`ImplementsProtection`). The
inductive invariant adds to these that the calls about to save are exactly the holders of the lock, that
every record names the slot it is stored at, that the slots a call is about to write are still empty and
pairwise different, and that everything a call is about to return is stored or about to be stored. Without the
lock conjunct another call could fill a slot between lookup and save. Double signing then follows:
two signatures of one slot are both the one record of that slot. The proof uses the named assumptions
on the constants, chiefly that `None` is not a value.

`RandCommitterProofs` proves, for all sizes and delays, `TypeCorrect`, `ProofsAgree` (`ProofsMatchCommits`)
and `NeverOverlaps` (`NoOverlapRequested`). Both exempt the commits that were included after their sender gave up,
whose proofs the next attempt may overwrite. The invariant adds that commits are disjoint, that the newest is their maximum,
that what the loop learned from its query still bounds the commits that are not late, and that the tree about
to be sent is the stored one.

`ChainPollerProofs` proves, for all sizes of the chain, the channel, the ranges and the batches, `TypeCorrect`,
`NeverSendsOnClosed` (`NoSendOnClosed`), `NeverAGap` (`NoGap`) and `RepetitionIsBounded` (`RepeatBounded`). The
invariant `PollerInv` has two parts beside the types. `LifeInv` relates the flags of the poller to the life of its goroutine: the
channel is closed only after the goroutine has ended. `StreamInv` describes the stream of heights from the
range being sent over the channel to the batch of the loop: each height is at most one above the one before
it, and goes back by less than a range. `NoGap` speaks only of what has arrived, so it is not inductive without
the blocks that are still on their way.

`RegistrationProofs` proves, for all sets of keys, calls, addresses, fields and values, `TypeCorrect`,
`StoredWereRegistered` (`StoredIsRegistered`), `VotedHeightsNeverFall` (`LastVotedNeverFalls`) and
`SlashedNeverStarts` (`SlashedNotStarted`). A call acts on what it learned some steps ago, so the invariant
`RegInv` says what stays true of it (`CallOK`): a provider it found or registered is on the chain under the address
it holds, and one it updates is stored. `DaemonInv` says that no call and no instance exists before the daemon is
up, and that during sync and start each provider in `doomed` is still slashed and without power (`Ended`), and has its
status written unless the sync has still to look at it. The argument for every step is the same: the chain and the store only grow (`ChainGrows`, `StoreGrows`), and
`CallKept` carries every other call over. The bounds `MayOverlap` and `Eventful` are guards that the proof does not use: the theorems hold with `AnyOverlap` too.

`EotsKeysProofs` proves, for any number of keys, names, processes and HMAC keys, `TypeCorrect`,
`KeyIsAlwaysTheOneAsked`, `AlwaysOnlyWithSameKey` and `ProofsAreAlwaysGood`. Its invariant `KeysInv` relates what
a `pop` process has read and signed so far to the two keyrings, as long as neither has changed under it.

Three modules prove about `FinalityVoting`, for every length of chain, set of hashes, batch size, number of retries,
crashes, resends and votes by hand:

- `FinalityStepsProofs` has the two inductive invariants and the lemmas for the steps that neither filter a batch nor
  take a message out of it.
- `FinalityVotingProofs` has `TypeCorrect`, `NeverEquivocates` (`NoEquivocation`), `VotesAboveLastVoted`
  (`OnlyAboveLastVoted`) and `ProtectionKept` (`KeepsProtection`).
- `FinalityCoverProofs` has `NoBlockPassedOver` (`NoVoteLost`) and `EmptyResponseIsFiltered` (`EmptyMeansFiltered`).

The first invariant, `LoopInv`, says that every message on its way, from the loop or by hand, and every vote in the chain is
for what the sign store holds at its height, unless the check was off there (`SignInv`). `NoEquivocation` speaks only of
the chain, and a transaction would break it without the conjunct on messages. `LoopInv` also says that memory and
database agree on `lastVotedHeight` while the process lives (`LoopShape`), that a batch past the filter is above it
(`AboveVoted`), and that messages are for blocks of the batch (`MsgsOfBatch`).

The second, `VotingInv`, adds what `NoVoteLost` needs. A height is settled when it is voted for or finalized, when
it was given up because another block of that height is signed or the provider is JAILED in the eyes of the loop (`skipped`
and `stale`), when it is below a vote added by hand, or when the provider is slashed. Of the heights with power, those that the loop has
behind it are settled or in the batch (`Covered`). Those of a batch being sent are settled or still among the
messages (`Sending`). Everything at or below the stored `lastVotedHeight` or a vote in the chain is settled
(`SettledBelow`), because a restart goes on behind these. The smaller parts support them: nothing is ahead of the tip
(`WithinTip`), a block sent again after a lower one comes last (`ResentInOrder`: a batch need not ascend, and
`lastVotedHeight` becomes the height of its last block), every message has a round left (`RoundForEach`), and a slashing
or a vote by hand that is acted on happened (`SlashKnown`, `ManualKnown`).

Both theorems of `FinalityCoverProofs` have the premise `KeepsTrying`: `MaxRetriesBatchRemovingMsgs` is 0, its default, or
at least the size of a batch. The run `voting_filtered` shows that `EmptyMeansFiltered` fails without it. With
it the loop forgets a batch only when no message of it was needed any more.

The provers cannot do induction over sequences. `Subsequence` is therefore defined by the ascending enumeration
of its indices, and the lemmas about it take the least counterexample in place of an induction (`LeastElement`,
`EveryEnumerable`).

All proofs use the named assumptions on the constants, which TLC evaluates in the runs. Liveness stays with TLC in
every module: the provers do not reason about fairness. `UnjailedVotes` and `OwnRandomness` of `FinalityVoting` do not
hold, as their runs show.

## Not modelled

- The static start height and `AdvancedResetLastVotedHeight`, configuration overrides that give up the
  guarantees on purpose.
- A graceful shutdown inside a submission; a crash at the same place has the same effect on the databases.
- Vote transactions included after their sender gave up (they are for randomness commits). A vote
  transaction whose response is lost is included at that moment.
- Commands of `fpd` run while the daemon holds the database: bbolt's file lock excludes them. (For `eotsd` the lock
  is modelled in `EotsKeys`.)
- `NumPubRand` changing between restarts, and voting power changing for a past height.
- In `FinalityVoting` the poller may go back to any height since the start, which is more than
  `ChainPoller` does (`RepeatBounded`).
- Properties of concurrent edits: the steps are in `Registration`, and the code promises nothing that they keep.
- Unencodable requests and corrupted databases, beyond a call that fails.
- Wrong passphrases, which change nothing.
- Backups, the interval storage of proofs, generated protocol code, configuration, metrics, logging, and the queries
  of delegations and covenants for end-to-end tests: copies of files, or input and output only.
