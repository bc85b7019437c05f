# Specifications of mx-chain-vm-common-go

The repository is the Go library with the built-in functions of the MultiversX
virtual machine: the protocol's own "contract calls" on ESDT tokens, roles,
guardians, names and storage, and the DRWA gate on regulated tokens. It holds no
goroutines of its own. What makes it hard is that one operation is several calls
in several shards, at different times, over state that other calls change in
between; and that the node, not this code, carries the messages and undoes
failed calls. These modules model that: the calls, the shards, the messages, and
what a node does with a call that fails.

Paths below are relative to `src/`; most are in `src/builtInFunctions/`.

## Inventory

| Component | State | Operations | Correct when |
|---|---|---|---|
| Fungible transfer (`esdtTransfer.go`, `payable.go`) | `Value` and `Frozen` of the record under each account | `ESDTTransfer`, on the sender's shard, the recipient's, or both; refund | no unit lost or doubled; checks hold on the shard that can make them |
| Mint and burn (`esdtLocalMint.go`, `esdtLocalBurn.go`, `esdtBurn.go`) | the same records | `ESDTLocalMint`, `ESDTLocalBurn`, `ESDTBurn` | only with the role, or burn-for-all; never below zero |
| Freeze and wipe (`esdtFreezeWipe.go`) | `Properties` of the record | freeze, unfreeze, wipe | a frozen holding keeps still |
| Global settings (`esdtGlobalSettings.go`, `esdtMetaData.go`, `esdtSetTokenType.go`) | metadata on the system account of each shard | pause, limited transfer, burn-for-all, token type | obeyed by every call of that shard |
| Roles (`esdtRoles.go`) | a list of roles per account and token, with repetitions | set, unset, `CheckAllowedToExecute` | an unset role is gone |
| Transfer-role addresses (`esdtTransferRole.go`) | a bounded list per shard | add, delete | limited transfer lets only these and role holders pass |
| NFT create role (`esdtNFTCreateRoleTransfer.go`, `esdtNFTCreate.go`) | role list and latest nonce per account | create, hand over in two calls, multi-shard start nonces | one creator at a time; nonces unique |
| NFT storage (`esdtDataStorage.go`, `baseComponentsHolder.go`) | quantity under accounts; metadata and liquidity on each shard's system account | save, get on sender or destination, add to liquidity | metadata as long as there is quantity; newest version wins |
| NFT transfer, multi transfer (`esdtNFTTransfer.go`, `multiESDTNFTTransfer.go`) | the same | debit on one shard, credit on another | as for fungible transfer, for all tokens of a batch or none |
| NFT quantity and metadata functions (`esdtNFTBurn.go`, `esdtNFTAddQuantity.go`, `esdtDeleteMetadata.go`, `esdtMetaDataRecreate.go`, `esdtMetaDataUpdate.go`, `esdtModify*.go`, `esdtSetNewURIs.go`, `esdtNFTAddUri.go`, `updateNFTAttributes.go`) | the same | burn, add, delete, recreate, modify | liquidity matches quantity; versions only grow |
| DRWA gate (`drwa.go`, `drwa_counter.go`, `drwa_metrics.go`) | policy, holder mirror and profile, read only; saturating counters | sender, receiver and metadata verdicts | a refused holder neither sends nor receives |
| Factory and gas (`creator.go`, `container.go`, `container/mutexMap.go`) | functions by name, their gas costs under a lock each | create, change the schedule, set hook and payable handler | each call sees one schedule |
| Guardians (`baseAccountGuarder.go`, `setGuardian.go`, `guardAccount.go`, `unGuardAccount.go`) | the `Guarded` bit; pending and active guardian in the node | set, guard, unguard | only a co-signed account changes its guardian at once |
| Names, ownership, rewards (`saveUserName.go`, `deleteUserName.go`, `changeOwnerAddress.go`, `claimDeveloperRewards.go`) | fields of an account | one call each, forwarded when the account is elsewhere | applied once, by whom it may |
| Storage and migration (`keyValueStorage.go`, `migrateDataTrie.go`, `dataTrieMigrator/`) | key-value pairs; gas | save, migrate leaves until gas ends | gas never below zero |
| Parsers, builder, outputs, addresses (`parsers/`, `txDataBuilder/`, `output.go`, `address.go`, `codeMetadata.go`, `common.go`) | none | pure functions | inverse of each other where they meet |

How they meet: the **factory** builds every function over the shared **global
settings**, **roles** and **storage** handlers and gives transfers the **payable
handler** and the **DRWA reader**. A function returns output transfers; the node
turns them into calls of the same or other functions in other shards. The ESDT
system contract, on the metachain, calls the governance functions.

What is hard here, one line per hazard, is in `PROJECT.json` under `hazards`.

## Assumptions about the node

The code in `src/` runs inside a node that is not in this repository. From how
the code uses it:

- A call that returns an error leaves no trace. The functions write to accounts
  step by step and do not undo; `AccountsAdapter` has `JournalLen` and
  `RevertToSnapshot` (`interface.go:379`) for the caller. So an action is a call
  that succeeds.
- `acntSnd` and `acntDst` are nil exactly when the account lives in another shard.
- A transfer whose second half fails is sent back, once, with
  `ReturnCallAfterError` (`input.go:69`). A return that fails is not sent on.
- Cross-shard messages are executed once each, in any order between them.
- The flags of the latest epoch are on, except where a constant says otherwise.

Gas is part of the modules that are about it (`GasSchedule`, `KeyValues`,
`TrieMigration`, `UserNames`, `ContractOwners`) and of the second half of a batch
(`BatchTransfer`), where it refuses refunds; elsewhere too little gas only
refuses a call. Logs, the wording of errors and the encoding of arguments are left
out; what a call stores in bytes is modelled where two functions share those bytes
(`GlobalSettings`, `Guardians`).

## Modules

### `ESDTLedger`, `TokenBook`, `Amounts`

`ESDTLedger` is one fungible token over several shards. Variables are the stored
records: `balance` and `frozen` (the token record under each account), `roles`
(how many copies of each role the list has), `settings` and `transferAddresses`
(the system account of each shard), `denied` (the DRWA verdict on each account as
a sender and as a receiver) and `inflight` (messages between shards). `minted`,
`burned`, `wiped` and `stranded` are history, there to account for units.

| Action | Code |
|---|---|
| `TransferInShard`, `TransferOut`, `Deliver` | `esdtTransfer.ProcessBuiltinFunction` with both, the first, the second account present |
| `SendBack`, `Strand` | the node's answer to a `Deliver` that fails, and to a refund that fails (external) |
| `LocalMint`, `LocalBurn`, `ESDTBurn` | the functions of these names |
| `ToggleFreeze`, `Wipe`, `ToggleSetting`, `SetRole`, `UnSetRole`, `SetTransferAddresses`, `DeleteTransferAddresses` | the governance functions |
| `Issue` | the ESDT contract sends fresh units from the metachain (external) |
| `NewVerdict` | a policy or holder record is written, a round passes (external) |

`Accepts` has all checks of the second half. It asks the receiver gate also when
`m.ret` is set: `checkFrozeAndPause` and the payability check let a refund pass,
`evaluateDRWAReceiverTransfer` is not told that it is one. `SendBack` is possible
when the delivery is refused, or accepted with a contract call after it, which
may fail, and with the gate on whatever `Accepts` says (`MayLackGas`): the second half
asks for the gas of the gate's reads, though not of a refund. `call` in a message stands
for a function name behind the arguments and for the call types that are not asked for
payability (`payable.go:43`); a callback that returns value and calls the contract as well
(`payable.go:84`) is left out.

`TokenBook` is the abstract specification: one book of who owns how much, a
transfer one atomic step. `Opening` is what each owner has at first. One of its
`Creators` (a nonce has one, a fungible token none) may be unfrozen by the first issue,
as long as nobody has or had a unit: `Open`. `BookSpec` maps the
ledger to it: units in flight
belong to their sender until credited, so a failed transfer, out and back, is a
stutter, and the move happens when the recipient's shard credits.

`Amounts` defines the total of a function as the number of its single units, a
set. A recursive sum would be out of reach of the proofs.

### `NFTCreateRole`, `CreatorBook`

Who may create NFTs of a collection and from which nonce. Variables are the stored
values `copies` and `latestNonce` (role list and nonce key of each account), the
ESDT contract's `creators` and `stopped`, and what is on its way: `command`,
`message`, `unset`. `created` and `creates` are history.

| Action | Code |
|---|---|
| `Create` | `esdtNFTCreate`: role, next nonce in uint64, saved |
| `ChangeAtCurrentOwner`, `ChangeAtNextOwner` | the two halves of `esdtNFTCreateRoleTransfer` |
| `SetCreator`, `UnSetCreator` | `esdtRoles` with the create role; with the multi-shard role the nonce goes to `computeStartNonce` |
| `OrderTransfer`, `StopCreate` | the ESDT contract (external) |

`CreatorBook` is the abstract specification of a collection with one creator: one pen
with a counter, which writes 1, 2, 3 and so on. `BookSpec` maps to it: an account has the
pen as often as the role is in its list, it is under way while a message carries the role,
and the counter is the number of NFTs created. So wherever role and nonce are, `Create`
must find the nonce of the NFT created last, a hand-over inside a shard is one step, and
nobody creates while a message is on its way.

The ESDT contract is assumed to order one thing at a time, to name each account
once, and to name creators whose addresses end differently. **The code rests on
this and does not check it.** If B is ordered to hand over before A's message
reached it, `ChangeAtCurrentOwner` at B hands on nonce 0 and takes no role; A's
message then makes B a creator beside C, and nonces repeat. If creation is
stopped while the message travels, the role comes after the stop.

### `NFTLiquidity`

One nonce of a semi-fungible token. Variables are the stored records: `quantity`,
`frozen` and `old` (the record under each account: its value, the frozen bit, and
whether it still holds the metadata, as all did before metadata moved to the system
account), `entry` (the record on each shard's system account: its liquidity
`value` and its `reserved` field) and `inflight`; `minted`, `burned`, `wiped` and
`stranded` are history. `reserved` is `"none"` (nil: nothing is counted),
`"counted"` (`[]byte{1}`) or `"updated"` (a version).

| Action | Code |
|---|---|
| `Create`, `AddQuantity`, `Burn` | `esdtNFTCreate`, `esdtNFTAddQuantity`, `esdtNFTBurn` |
| `TransferInShard`, `TransferOut`, `Deliver` | `esdtNFTTransfer` with the destination in the same shard, in another, and as called there |
| `UpdateMetaData` | `esdtNFTUpdate`, `esdtNFTAddUri`: the holder writes its entry anew |
| `RecreateMetaData` | `esdtMetaDataRecreate` and its kin on a dynamic type |
| `ToggleFreeze`, `Wipe` | `esdtFreezeWipe` with a nonce |
| `SendBack`, `Strand` | the node (external) |

`Saved` is what `SaveESDTNFTToken` does to the entry, `LiquidityAdded` what
`AddToLiquiditySystemAcc` does; `SaveAndCount` is the pair of them most calls end
with. Abstracted: checks that read nothing of this state (pause, roles, limited
transfer, the DRWA gate, payability, a frozen collection) only refuse calls, so they
are left out, and `SendBack` may happen to any delivery. The content of metadata,
the change of type on a save, and the behaviour before the latest flags are left out.

`Create` reads nothing of what is stored under its nonce (`esdtNFTCreate.go:190`): it
writes the record of the creator anew, also over one that was frozen before it existed,
and the entry too, also over one that `RecreateMetaData` made first. So a creator may
come out of its `Create` unfrozen, and an update that came before the creation is lost
with it (`Created` in `UpdatesSurvive`).

A nonce is a token of its own, and `BookSpec` maps it to the `TokenBook` of the ledger,
opened with what old holders have. The owner of units on their way is the account they
return to. Metadata and liquidity do not appear in that book: whatever they do, no user's
units depend on them, except that a call may be refused.

What the model taught about an updated dynamic nonce: each save of it puts its
liquidity back to 0. An addition or a burn of quantity 0 then deletes the entry
while units are held, and a wipe meets the liquidity of the last delivery alone;
`HeldTokensHaveMetaData` does not hold with them. No document says what this
liquidity should be, so the dynamic slice of
`liquidity` leaves them out and `hazards` names them.

### `MetaDataVersions`

The metadata of one nonce of a dynamic token. It is kept in several places, one copy
per shard for a dynamic SFT or meta-ESDT, one per account for a dynamic NFT
and a copy travels with every unit. `token`, which never changes, says which of them
a behaviour is about, and whether its accounts may be frozen. Each field has a
version, the round it was last written in. `copy` and `inflight` hold the copies,
`units` who has something to send. `known`, in a copy, is history: the writes it
stems from.

| Action | Code |
|---|---|
| `Recreate`, `Update`, `ModifyCreator`, `ModifyRoyalties`, `SetNewURIs`, `AddURI`, `UpdateAttributes` | the functions of these names: `getEsdtInfo`, `changeEsdtVersion`, save |
| `TransferOut`, `Deliver`, `Burn` | `esdtNFTTransfer` on either side, `esdtNFTBurn`; `Merge` is `mergeEsdtData` |
| `SendBack`, `NextRound` | the node (external) |

Two things the model shows. Where a shard has no copy, `getEsdtInfo` makes a hollow
one, whose unwritten fields are empty; merging with the copy that travels fills it, so
that no holder gets it. But a refund to an account frozen meanwhile finds a record of
type 0, whose metadata is not looked up, and overwrites what the shard has
(`blind`, for a token of the kind `frozen`). Two writes of one field in the same round have the
same version: the copy that arrives wins, in each place, and which of the two should
win is nowhere defined.

### `DRWAGate`

The verdict on one regulated token. Variables are the records it reads (`policy`,
`mirror`, `profile`, `auditor`, each possibly missing or not decodable), the `round`
and whether the hook is set, and the counters. `Merged` is how mirror, profile and
authorization become one holder; `SenderVerdict`, `ReceiverVerdict` and
`MetadataVerdict` are the three lists of checks in their order.

| Action | Code |
|---|---|
| `TransferInShard`, `TransferOut`, `TransferIn`, `UpdateAttributes` | `evaluateDRWASenderTransfer`, `evaluateDRWAReceiverTransfer`, `evaluateDRWAMetadata` as transfers and metadata calls ask them, and the counters |
| `WritePolicy`, `WriteMirror`, `WriteProfile`, `WriteAuditor`, `NextRound`, `Restart` | the registries and the node (external) |
| `SetBlockchainHook` | the hook the round comes from; before it the round is 0 |

### `BatchTransfer`, `BatchBook`

`MultiESDTNFTTransfer`, one step for each round of a loop over the items. `balance`,
`frozen` and `liquidity` are the stored records. A call (`call`, the message it executes
in `slot`, the items it has been through in `done`) reads and writes `book`, its own
copy of them, so that an item finds what the items before it wrote; the book is saved
when the call ends and dropped when an item is refused.

| Action | Code |
|---|---|
| `Send`, `TransferOne` | `processESDTNFTMultiTransferOnSenderShard` up to its loop, and a round of it with `transferOneTokenOnSenderShard` |
| `TransferInShard`, `TransferOut` | the end of it: both accounts saved, or one message with all items (`createESDTNFTOutputTransfers`) |
| `Receive`, `CreditOne`, `Deliver` | `ProcessBuiltinFunction` on the other shard: its checks, a round of its loop, its end |
| `Fail` | an item is refused, on either side |
| `SendBack`, `Strand` | the node (external) |
| `Freeze`, `Unfreeze`, `ChangeStanding` | what others do between two calls |

The second half asks for the gas of two reads of the gate for each item
(`multiESDTNFTTransfer.go:174`), before it knows whether a token is regulated, and of a
refund too: `PaysForReads`. How much gas a message arrives with is any of `Gases`.

`BatchBook` is the abstract specification: a batch is one amount per token and moves,
departs, arrives, turns or is lost in one step. `BatchesAreWhole` is the refinement.

A token is an identifier with its nonce. Metadata, pause, limited transfer and the
reasons of the gate are in the modules above and left out here.

### `MetaDataDeletion`

`ESDTDeleteMetadata` and `ESDTAddMetadata` on one shard's system account. A deletion
is three nested loops over a list of arguments: `CallDelete` is the check of the
length, `NextToken`, `NextInterval` and `NextNonce` one round of each loop, with
indices that wrap as unsigned integers do. An addition is `CallAdd` and one `NextItem`
for each item: an item finds what the items before it wrote. `Named` is the reference:
it says without loops which keys a list names. The places of the tokens in a list
(`Places`) are the smallest set with the start of the list and, for each place, the one
behind its intervals.

Two numbers a caller may write into a list are not looked at by the code. An interval
that ends at 2^64 - 1 is never left, since no nonce is beyond its end: the call runs on
(`Unending`), in the model as in the code. A count of 2^63 or more makes the index behind
its intervals wrap, so that the loop comes back to a token it has read or reads none of
the intervals (`Wraps`, `CountsFit`). `CallsEnd` says that these two are the only ways a
call does not end, and that the first never does. Invalid identifiers and metadata that
does not decode only refuse a call and are left out.

### `GasSchedule`

The costs each function charges by, and a change of the schedule that visits the
functions one after the other, in any order, while calls run. Each function has a
`sync.RWMutex`: `readers` and `writer`. `Lock`, `ReadOwn`, `ReadRest` and `Return` are
a call; `GasScheduleChange`, `Visit`, `SetOwn` and `SetRest` are the creator's
`GasScheduleChange` and each function's `SetNewGasConfig`. `CreationField` and
`ChangeField` are the two lists of costs in the code, one in `creator.go`, one spread
over the functions. A cost is a schedule's number with a field's name, so two costs
are equal only when they come from the same place.

### `KeyValues`

`SaveKeyValue`: `Call` is the base cost, `Save` one round of the loop over the pairs,
`Return` and `Fail` are the end, in unsigned arithmetic and with the gas check of
`keyValueStorage.go` where it is, only for pairs that change something. `working` is the
storage as the call has written it. A value is its length and a mark.

### `TrieMigration`

`MigrateDataTrie` and the migrator it hands to the trie. `Call` is the check of the
gas; `ConsumeStorageLoadGas` and `AddLeafToMigrationQueue` are the migrator's methods
as the trie calls them, leaf by leaf, in any order; `Return` writes what is queued.

`AmpleGasMoves` asks for more than one load of a trie node besides what the check at
the start asks for, because `ConsumeStorageLoadGas` answers no when there is just
enough gas for another load (`dataTrieMigrator.go:45`).

### `UserNames`

`SetUserName` and `DeleteUserName` in one or two shards. `Send` is the half where the
DNS contract lives, `CallHere` and `Arrive` the half where the account lives, `Refuse`
the node's answer to a half that fails. `EnableChangeUsername` turns the flag on in
one shard: the others still have it off, and calls on their way were made under it.
A call is refused where the flag differs because the DNS contracts of before and after
are different ones. The code does not check that the two maps have no contract in common,
and one that is in both is charged in both shards or in neither; `ChargedOnce` is about
the others.

### `ContractOwners`

`ChangeOwnerAddress` and `ClaimDeveloperRewards` on one contract. `Send` is the first
half of a call from another shard, as a user or as a contract sends it, `Arrive` the
second, `CallHere` both in one; `PaymentArrives` is the output transfer of a claim,
`AddToDeveloperReward` the fee of a transaction (external). `last` is history: what a
call brought and what both halves returned. A claim may be an asynchronous call of a
contract (`async`): what is left of its gas then goes with the callback
(`claimDeveloperRewards.go:78`), and for a contract in the same shard that output is
dropped (line 105), so nothing comes back.

### `Guardians`

`SetGuardian`, `GuardAccount`, `UnGuardAccount` on one account. The handler that keeps
the guardians is the node's: `active`, `pending` and `Activate` are modelled from how
the functions use it. `Bits` is `CodeMetadataFromBytes` and `ToBytes`: the bits the
code does not know are lost.

### `OutputIndices`

The indices of output transfers: `OwnTransfer` takes the next index of the virtual
machine, `ReindexTransfers` moves the output of a function behind it. An output with a
transfer that is not numbered is an error (`output.go:216`) and is left out.

### `GlobalSettings`, `SettingsBook`

The two bytes with pause, limited transfer, burning for all and token type of a token
in one shard. `ToggleSetting` and `SetTokenType` read the bytes, change a part and
write all of them back. `SettingsBook` is the abstract specification, four settings
that know nothing of one another; `SettingsAreIndependent` is the refinement.

### `AccountFunctions`, `TokenFunctions`

Functions that share no state, put together: `AccountFunctions` has `TrieMigration`,
`KeyValues`, `UserNames`, `ContractOwners`, `Guardians` and `OutputIndices`,
`TokenFunctions` has `BatchTransfer`, `GlobalSettings` and `MetaDataDeletion`. A step is
a step of one of them and leaves the others alone. They say the properties of the modules
under their own names, once for the runs and for the proofs.

### `MC*`

An MC module gives the constants of a module that are functions or sets of records
their values, and says which part of its behaviours a run looks at. Some have a
variable of their own that never changes (`interference`, `dynamic`, `token`,
`scenario`, `exercised`): it is chosen in the initial state and keeps each behaviour
to one slice, for example to the settings that may be toggled in it. Everything in a
slice happens in any order; slices do not mix.

`MCAccountFunctions` runs `AccountFunctions`, and `MCTokenFunctions` runs
`TokenFunctions`. A behaviour exercises one of the functions:
interleaving them would multiply states and add no step of one that another could see.

A definition named `X_Name` is a faulty variant of `X`: it shows which property would
notice.

## Runs

| Run | Asks | Slices and bounds |
|---|---|---|
| `ledger` | conservation, locked holdings, the refinement of `TokenBook`, limited transfer, what the gate lets through | 3 accounts, one a non-payable contract; 2 shards; 2 messages; 2 units. `freezes`: two accounts frozen and wiped, pause toggled, amounts 1 and 2. `limits`: limited transfer toggled, roles with up to 2 copies, one address listed per shard, one message of one unit, no burns. `verdicts`: verdicts of two accounts on both sides, one account frozen, messages of one unit, no burns. `settings`: pause and burn-for-all toggled, messages of one unit |
| `handover` | one creator: the refinement of `CreatorBook`, the named creator gets the role | 4 accounts, 2 in each shard, 4 NFTs |
| `creators` | many creators, each in its own block | 4 blocks of 4 nonces, 4 NFTs |
| `liquidity` | liquidity is what the shard holds, holders find metadata, conservation, updates survive, the refinement of `TokenBook` | 3 accounts in 2 shards, 2 messages, 3 units. A plain nonce: amounts 0 to 2, one updater, two accounts frozen and wiped. A dynamic one: one updater in each shard, amounts 1 and 2, nothing frozen or wiped |
| `oldholders` | the finding below | two old holders, one in each shard |
| `versions` | a copy has the newest write it knows, no holder has hollow metadata, no write is lost | 2 fields, 1 message, 2 rounds, updates from both places. `shards`: a dynamic SFT, 2 shards, 2 units. `frozen`: the same with refunds to frozen accounts. `accounts`: a dynamic NFT, 3 accounts, 1 unit |
| `gate` | the gate's verdicts: both sides agree, terms hold, nothing unreadable passes, time admits nobody, late profiles lift nothing; the counters | `standing`: 1 holder, 5 policies, 13 mirrors, 14 profiles, each also missing or broken, 3 rounds, restarts. `refusals`: 2 holders, 2 refusals where a counter is full at 1 |
| `gas` | one schedule per call, never a stale one, a node that changed charges like one that was started, changes end | 2 callers, one function for each kind of lock, all other functions whose two lists agree visited in one order, 2 changes |
| `gasrestart` | the finding below | the 3 functions whose costs differ |
| `accountfunctions` | gas of a migration and of storage, one charge for names and owners, rewards conserved and paid, guardians, code metadata, the order of outputs | migration: 3 leaves of either version, every order, every gas below 32. Storage: 2 keys and a protected one, 3 lengths, up to 2 pairs, gas of 5 bits, 24 gas paid in all. Names: 2 users, 3 DNS contracts, one of them in both maps, 2 shards, 2 calls on their way. Owners: 4 owners, 2 near the contract, one of them a contract whose claims may be asynchronous, 2 rewards, 2 calls. Guardians: all sequences, 4 addresses, one unknown bit. Outputs: 7 transfers, up to 3 each, 2 accounts |
| `tokenfunctions` | batches are whole (the refinement of `BatchBook`), liquidity, freeze, refunds; a list deletes what it names and ends, additions overwrite nothing; settings are independent (the refinement of `SettingsBook`) | batches: 3 accounts in 2 shards, one of them not payable, coin, fungible token and nonce, up to 2 items of 1 or 2, 1 message, gas for the reads of one item or of two. Deletion, numbers of 4 bits: all lists of up to 4 arguments from 4 numbers and 2 tokens, those of up to 8 that name two intervals or two tokens, and lists with ends of 15 and with counts that wrap. Additions: 1 or 2 items, 2 calls, records missing or bare. Settings: 1 token, all old records |
| `ownergas` | the finding below | 3 owners, 1 call |

Amounts of one and two of two or three units make full and partial transfers; two messages
let a transfer meet a refund; two shards have every kind of transfer, and a third
would be one more of the same. What is minted is bounded by `MaxSupply`; everything
else is finite without a bound except the copies of a role (`MaxRoleCopies`).
256 blocks of nonces are 4 here, with the arithmetic the same. The slices of `ledger`
keep apart what does not meet in one check of the code: limited transfer reads neither
the frozen bits nor the gate's verdicts.

In the other modules: two rounds are needed for one version to be newer than another,
and fields do not interact, so two are enough, one that every update writes and one
that only some do. A batch of two items is the shortest in which the second item
depends on the first (the same token) or fails after it (another). Two changes of the
schedule are needed for a cost to be two changes old. The widths of unsigned integers
are small so that sums do wrap; `MaxPaid`, `MaxRewards`, `MaxCalls`, `MaxRound`,
`MaxChecks`, `MaxIndex` and `MaxSchedule` bound what grows without end in the code.
The three leaves of the migration are the least with a moved leaf, an old one and one
the gas does not reach.

**Fairness.** `handover` has weak fairness on what the node executes: a message handed
to it, and a call of the ESDT contract. No fairness is assumed of users: nobody is
obliged to create or to order a transfer. In `accountfunctions`
`ClaimsArePaid` has weak fairness on the arrival of each claim that a far user has
sent. In `tokenfunctions` `CallsEnd` has weak fairness on the loops of a
deletion that runs. `gas` has weak fairness on a call that holds its lock and on a
change that holds one, and strong fairness on the next visit of a change: calls may
take and leave the lock of a function for ever, but `sync.RWMutex` keeps new readers
out once a writer waits, and `sync.Mutex` hands itself over to whoever has waited for
it a millisecond. No call has to begin.

Deadlock is checked wherever the system cannot stop. It may stop, and deadlock is off:
in `handover` and `creators`, where nothing more happens once creation is stopped; in
`oldholders` and `versions`, where units can all be burned and the rounds end; in
`gasrestart`, `accountfunctions` and `tokenfunctions`, where a bound on changes, calls
or gas is reached.

**Findings.** `oldholders` finds a state the comment at `esdtDataStorage.go:596`
rules out. A record whose metadata is still on the account is "not compatible with
the new liquidity model", and the entry made for it has `Reserved` nil. But the code
asks only when the shard has no entry yet. When units from another shard made one
first, with `Reserved` 1 and their number as liquidity, the old holder's units are
then taken from a liquidity that never counted them: a transfer of as many deletes
the entry others need, a larger one is refused.

`gasrestart`: three functions are created with other costs than a change of the
schedule gives them. `ESDTModifyCreator` is created with the cost of
`ESDTModifyRoyalties` (`creator.go:622`), `ESDTSetNewURIs` with that of
`ESDTNFTRecreate` (`creator.go:604`), and `ESDTTransfer` without base costs
(`creator.go:212`). The tests of the first two (`esdtModifyCreator_test.go:292`,
`esdtSetNewURIs_test.go:296`) say what they charge by after a change. Two nodes of one
schedule, one of which was started under it, charge differently, unless the node calls
`GasScheduleChange` right after it has built the container.

`ownergas`: the comment at `changeOwnerAddress.go:129` says that the gas was "returned
already in sender shard". When a contract orders the change in another shard, the
sender's half moves the gas into the output transfer and returns none, and the other
half returns none because the caller is not there. The gas is compared with the cost
once in each half.

## Proofs

For all accounts, shards, amounts and bounds, with the assumptions named in each
module (`LedgerAssumption`, `VersionsAssumption`, `FunctionAssumptions`, `TokenAssumptions`,
`ListAssumptions` and so on):

`Amounts_proofs` has the lemmas on totals the others rest on: `TotalChange`, how a
total changes with one entry, from facts on the cardinality of finite sets.

In each proofs module a theorem `...AlwaysHold` or the like joins the types with the
main invariant, as the runs check them: `AmountsHold`, `NoncesHold`, `QuantitiesHold`,
`CopiesHold`, `VerdictsHold`, `ChargesAreCurrent`, `GasHolds`. Every safety invariant,
every action property and every refinement that a run checks is stated by a theorem.

`ESDTLedger_proofs`: `TypeCorrect`, `Conservation`, `LockedHoldings`, `Refunds`,
`LimitedMoves`, `DeniedReceivers`, `ImplementsBook`. The invariant is the types with `SupplyConserved`, which is inductive once balances
are naturals: `TransferOut` and the burns need `balance[a] >= v` for that. Each
action changes at most two amounts, so `TotalChange` is used once or twice. The
action properties follow from the types, action by action: each names the actions that
change an amount and what their guards have asked.
`ImplementsBook` is the refinement of `TokenBook`: the book has, for each account, its
balance and what is on its way from it or back to it. `HeldSlot` says how a message that
is sent, turned or executed changes that sum, `HeldBalance` how a call without a message
does. `TransferOut`, `SendBack` and the
delivery of a return are then stutters, a delivery is the book's move, and mints, burns,
wipes and losses are its steps of the same kind.

`NFTCreateRole_proofs`: `NoncesUnique`, `Gapless`, `RoleNeverDoubled`, `StopIsFinal`,
`ImplementsBook`.
None of these is inductive. The invariant has one part for each kind of collection.
`HandOver`: role and nonce are together in one of three places, settled, ordered to
leave or travelling, and the nonce is the number created. `OwnBlocks`: who may create
counts in its own block, and the block is fresh above its latest nonce;
`BlocksDisjoint` shows that blocks do not meet. `ImplementsBook` is the refinement of
`CreatorBook` for a collection with one creator: by `HandOver` the owner of the role
counts where the book does, an order is a stutter or the naming of the next creator, and
the two halves of the hand-over are the book's `HandOver`, or `Send` and `Receive`.
`Gapless` (numbers from 1 on, each once) and `RoleNeverDoubled` (one pen) are stated of
the detailed module as well; the run has them in the refinement.

`NFTLiquidity_proofs`: `TypeCorrect`, `Conservation` and `ImplementsBook` for any
constants, with old holders and updates.
`LiquidityIsHeld` and `MetaDataIsThere` for a nonce that is `Regular`: without old
holders and, when dynamic, without updaters or with `UpdatesUndisturbed`, no call of
quantity 0 and nobody to freeze or wipe (the finding and the paragraph on dynamic
nonces say why neither holds otherwise). Neither is inductive alone, since an entry
that counts wrongly would be deleted too early and a missing entry would be made anew
with liquidity 0. `LiquidityInv` has both, the types, and `SteadyStates`: no
record holds metadata of its own, and where entries or messages are marked as updated
nobody is frozen and no message is empty. It follows that
a shard without an entry holds nothing, nor does one whose entry counts 0.
`CountStep` shows that a `SaveAndCount` by an account keeps this for its shard and
disturbs no other. It needs that an updated entry starts from 0 (`SavedCounts`), for which
every call that saves must know of the update: the sender reads it from the entry
(`SenderKnows`), the recipient from entry or message (`RecipientKnows`), unless its record
is frozen. `UpdatesGoOnlyThus` says of any calls, with old holders and frozen accounts too, how an
update can be lost: by a call of quantity 0, by a wipe of as many units as the updated
entry counts (above), or in the shard of the creator by the creation of the nonce, in the
code as in the model. Every other save puts the liquidity of
an updated entry back to 0, or adds to it, and a change of 0 by another number leaves the
entry and its mark. `UpdatesStay`, that is `UpdatesSurvive` under `UpdatesUndisturbed`,
follows; it is about a nonce from its creation on. `ImplementsBook` goes the way of the
ledger's, with `BookOpens` for a creation that unfreezes (before it nobody has a unit,
`NothingBeforeCreation`): `OwnedSlot`
says how a message that is sent, turned or executed changes what its owner has,
`OwnedQuantity` how a call without a message does. By `FlightIsOwned` what is on its way
is part of what its owner has, so that a delivery is a move from that owner.

`MetaDataVersions_proofs`: `TypeCorrect`, `NewestWins` (`CopyIsNewestKnown`),
`HeldIsComplete` (`HeldCompleteUnlessFrozen`), `WritesAreKept` and `HoldersConverge`. The
invariant is the types with `CopiesSound`: each copy, stored or travelling, has in each field the
newest write it knows and none of a later round than now. `MergeIsNewest` shows that a
merge keeps that, `WrittenIsNewest` that a write does, which needs the bound on the
rounds: a write of this round is the newest there can be. `HeldIsComplete` is
inductive on top of it: merging a hollow copy with a complete one is complete because
an empty field has version 0. `WritesAreKept` is about steps: a merge knows what either
copy knew, and a copy on a shard goes only when it knows nothing or a refund that meets a
frozen account replaces it. `HoldersConverge` joins the two invariants: what a copy holds
is decided by the writes it stems from. One that stems from more writes is older in no
field, and two copies of what is held that stem from the same writes are equal, unless two
places wrote a field in one round, which merging cannot order, or a refund met a frozen
account.

`DRWAGate_proofs`: `TypeCorrect`, `Agreed`, `BrokenStops`, `TermsHeld`, `Counted`,
`TimeOnlyTakesAway` and `LateProfiles`. Most are facts about the verdicts, for every
record there may be; `TimeOnlyTakesAway` and `LateProfiles` are about steps, and rest on
`ExpiryStays` (what has expired at a known round has expired at every later one, and at
round 0 after a restart) and `Terms`. `Counted` is inductive.

`GasSchedule_proofs`: `TypeCorrect`, `OneScheduleAlways`, `NeverStaleAlways` for any
functions, callers and number of changes, and `NodesAgreeAlways` for functions with
`SameFields`, that is all but the three of the finding. The invariant has the types and
three parts. `Locking`: who holds a lock is who is in a call of its function, and a
call that has read had the lock. `Schedules`: a function not yet visited has the costs
of the last complete schedule, one that was visited those of the new one, and the one
being visited is between the two only while nobody reads. `Reads`: what a call has
read is what its function still has.

`Functions_proofs`, the account functions, where they run among each other
(`AccountSpec`), for any number of calls:

- `TypeCorrect`, `GasIsPaidAlways`, `PaidOnceAlways`, `AmpleGasMovesAlways` on
  `TrieMigration`, for any leaves, costs and width. The first three are inductive with
  the types. The last needs `QueueIsOld` and `StillSearching`: while a call with ample
  gas has queued nothing, it has paid one load for each leaf visited, those were all
  moved before, except one that is loaded and not offered yet, and it goes on or has
  seen all of them. Lemma `TrieMigratesAlone`, a behaviour of all account functions is one
  of the migration, carries them over.
- `GuardingAlwaysHolds`: the code metadata and the guardians, inductive as it is.
- `AlwaysChargedOnce` and `RewardsAreConserved`. `ChargedOnce` speaks of the last call
  only. The invariants (`NamingInv`, `OwnershipInv`) say of each call on its way what its
  first half has charged and what is left for the second: of a naming by the map its DNS
  contract is in, if it is in one only, which is not assumed. Rewards are counted with those
  of claims on their way.
- `AlwaysCarriedInOrder`: `OutputInv` says that the index of a transfer is its place in
  the order, and that the next index is one more than there are transfers. `InARow` counts
  the transfers a function brings.
- `StorageAlwaysPaid`: while a call runs, its working storage is paid by what was paid
  before and the gas so far (`GrowthPaid`, `StorageInv`). It is stated for calls that fit
  (`CallsFit`: the cost of the longest call is less than 2^64, which the size of a
  transaction sees to; with costs that wrap the bytes would be free) and with
  `FixGasRemaining` on, as is the run: before that flag the gas of a call was taken off
  without a look, and the property is false.

`Functions_proofs`, the token functions (`TokenSpec`):

- `LiquidityAlwaysCounted`, for any accounts, tokens, amounts and length of a batch. The
  invariant is `BatchInv`. The stored records say nothing of a call in its middle, so it
  has `CallSound` for the books of the call: liquidity is counted in them too
  (`IsTake` and `IsPut` say what one item does to them), and what they have under each
  record is what is stored there less the items taken and more the items put so far
  (`BalancesBooked`). `Amount` is what the first n items have of a token, a total again,
  and `AmountGrows` says what one more item adds.
- `BatchesAlwaysWhole` is the refinement of `BatchBook`. Beginning a call, an item and a
  failure are stutters. When a call ends, `BalancesBooked` for all of its items is the
  amount of the batch: `TransferInShard` is the book's move, `TransferOut` a departure,
  `Deliver` an arrival, `SendBack` a turn, `Strand` a loss.
- `OnlyTheGateRefusesRefunds` follows from what a refund is asked: the verdicts of the
  gate and the gas for its reads. `FreezeAlwaysHolds`
  needs `FreezeBooked`: a record that is frozen is in the books as it is stored, unless
  the call that runs is a refund with an item put under it.
- `SettingsAlwaysIndependent` is the refinement of `SettingsBook`, for any tokens and any
  old bytes. Its lemmas are that reading undoes writing (`ReadsWhatIsWritten`) and that
  the invariant, bytes that are some metadata written or none, is kept.
- `ListsAlwaysDoWhatTheyName`, for any lists, nonces and width. The invariant `ListInv`
  says at each loop where in the list the call is and what is gone so far: `AtToken` what
  the tokens before this place name, `AtInterval` also what the intervals of this token
  read so far name, `InInterval` also the nonces before this one. It rests on
  `NoneBetween`: no token begins among the intervals of another, because the places that
  lie outside of them are closed too, and the places are the smallest such set.
  `ItemsAdded` says what the items so far have put in the draft. A list whose counts
  fit (`CountsFit`) never takes the indices far beyond its end; of the other lists the
  theorem says only that nothing is kept until they succeed
  (`StrayKeeps`). It has no assumption on lists. An interval up to 2^64 - 1 is never left,
  so its call deletes nothing.

Only model-checked: the liveness properties (`NamedCreatorGetsRole`, `ChangeEnds`, `ClaimsArePaid`, `CallsEnd`), which are out of the
prover's reach. The findings are counterexamples, and theorems are stated where they do not reach (`Regular`, `SameFields`).

## Not modelled

Components:

- **Parsers and call data builder** (`parsers/`, `txDataBuilder/`): strings in,
  strings out, without state. A model would be the code again, character by character.
- **Addresses** (`address.go`, `common.go`): predicates on 32 bytes. The modules take
  what they answer: who is a contract, who is in which shard.
- **Interfaces, errors, mocks and disabled stubs**: no behaviour.

Parts of modelled components, the reasons with them in `PROJECT.json`:

- Of NFT storage, the change of type on a save and what the code did before the flag
  `SendAlwaysFlag`: the flags of the latest epoch are on.
- Of multi transfer, pause, limited transfer and metadata, which are as in the single
  transfer.
- Of the container, removing and replacing functions, and setting the hook and the
  payable handler after construction, which the node does once before any call.
- Of the virtual machine's output, the merging of output accounts: field by field, in
  one call.
- Of guardians, how the node counts epochs.

Hazards no property covers, each with its reason in `PROJECT.json`: the assumption about
the ESDT contract's orders (`esdtNFTCreateRoleTransfer.go:99` and `:229`,
`esdtRoles.go:76`), creators with the same last byte or beyond their block
(`esdtRoles.go:103`), the limit of the transfer-role list (`esdtTransferRole.go:133`), the
liquidity of an updated dynamic nonce (`esdtDataStorage.go:495`), and what a refund does
to an account frozen meanwhile (`baseComponentsHolder.go:64` and `:94`). Nor is there one for
two writes of a field in one round (`baseComponentsHolder.go:105`), the one exception of
`HoldersConverge`, two names for one account (`saveUserName.go:151`), gas before the flag of names (`saveUserName.go:153`),
and what a contract claims from another shard (`claimDeveloperRewards.go:50`). In each
the code does not say what should happen, or relies on a part of the node that is not
here.

The next step would be a composition of `DRWAGate` with `ESDTLedger` in place of the
ledger's free verdicts.
