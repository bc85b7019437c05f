--------------------------- MODULE TokenFunctions ---------------------------
(***************************************************************************)
(* Functions of tokens that share no state with one another here: batches  *)
(* of transfers (BatchTransfer), the settings of a token in a shard        *)
(* (GlobalSettings), and deletions and additions of metadata on a shard's  *)
(* system account (MetaDataDeletion).  A step is a step of one of them.    *)
(***************************************************************************)
CONSTANTS
    \* of BatchTransfer
    Holders, HolderShards, ShardOf, BatchTokens, Native, Nonced, Regulated, Freezable,
    NotPayable, Start, Values, MaxBatch, Gases, ReadCost, Slots, NoSlot, NoMessage, NoBook,
    \* of GlobalSettings
    SettingTokens,
    \* of MetaDataDeletion
    Width, ListTokens, TokenNumber, Numbers, Lists, Additions, MetaNonces, Contents,
    NoEntry, Bare, Starts, MaxLists

VARIABLES
    holdings, frozen, liquidity, denied, inflight, stranded, call, slot, done, book,
    settingBytes, lastOrder,
    metaRecords, metaDraft, arguments, metaItems, loop, listIndex, pairIndex, nonceIndex, listCalls

Batch == INSTANCE BatchTransfer WITH
    Accounts <- Holders, Shards <- HolderShards, Tokens <- BatchTokens,
    MaxItems <- MaxBatch, balance <- holdings

Settings == INSTANCE GlobalSettings WITH
    Tokens <- SettingTokens, stored <- settingBytes, last <- lastOrder

Metas == INSTANCE MetaDataDeletion WITH
    Tokens <- ListTokens, Items <- Additions, Nonces <- MetaNonces, MaxCalls <- MaxLists,
    store <- metaRecords, working <- metaDraft, args <- arguments, items <- metaItems, pc <- loop,
    i <- listIndex, j <- pairIndex, nonce <- nonceIndex, calls <- listCalls

ASSUME TokenAssumptions == Batch!BatchAssumption
ASSUME ListAssumptions == Metas!DeletionAssumption

batched == <<holdings, frozen, liquidity, denied, inflight, stranded, call, slot, done, book>>
set == <<settingBytes, lastOrder>>
listed ==
    <<metaRecords, metaDraft, arguments, metaItems, loop, listIndex, pairIndex, nonceIndex,
      listCalls>>
tokenVars == <<batched, set, listed>>

TokenInit == Batch!Init /\ Settings!Init /\ Metas!Init

BatchStep == Batch!Next /\ UNCHANGED <<set, listed>>
SettingStep == Settings!Next /\ UNCHANGED <<batched, listed>>
ListStep == Metas!Next /\ UNCHANGED <<batched, set>>

TokenNext == BatchStep \/ SettingStep \/ ListStep

TokenSpec == TokenInit /\ [][TokenNext]_tokenVars
-----------------------------------------------------------------------------
(* The properties of the modules, under their names. *)

(* Every record and message of a batch keeps its type, and the liquidity of a nonce
   on a shard is what its residents have of it. *)
LiquidityCounted == Batch!LiquidityCounted

(* A batch leaves, travels, arrives, returns and is lost as a whole. *)
BatchesAreWhole == Batch!BatchesAreWhole

(* A refund is refused by the gate only. *)
OnlyTheGateStrands == Batch!OnlyTheGateStrands

(* What is frozen stays, until it is unfrozen or a refund of a nonce comes back to it. *)
FreezeHolds == Batch!FreezeHolds

(* The settings of a token in their two bytes know nothing of one another. *)
SettingsAreIndependent == Settings!SettingsAreIndependent

(* A deletion deletes what its list names and nothing else, or nothing at all; an
   addition adds all of its items, or nothing, and replaces no metadata. *)
ListsDoWhatTheyName == Metas!DeletesWhatIsNamed /\ Metas!AddsWhatIsListed
=============================================================================
