-------------------------- MODULE AccountFunctions --------------------------
(***************************************************************************)
(* The functions of accounts that share no state with one another: the     *)
(* migration of the data trie (TrieMigration), key-value storage, user     *)
(* names, contract owners, guardians, and the transfers a contract puts    *)
(* out.  A step is a step of one of them.                                  *)
(***************************************************************************)
EXTENDS TrieMigration

CONSTANTS
    Users, Contracts,
    MaxCalls,         \* bound on the calls on their way, of names and of owners
    \* of KeyValues
    Keys, KeyLength, Protected, Lengths, Marks,
    SaveKeyValue, PersistPerByte, StorePerByte, StorageGasLimits,
    MaxItems, MaxPaid, FixGasRemaining,
    \* of UserNames
    Names, NoName, OldDns, NewDns, Shards, Home, NameCost, NameGasLimits,
    \* of ContractOwners
    Near, Nobody, OwnerCost, OwnerGasLimits, ThroughSC, MaxRewards,
    \* of Guardians
    Self, OtherBits, NoGuardian,
    \* of OutputIndices
    MaxOutput, MaxIndex

VARIABLES
    storage, paid, working, items, gas, limit, running, gasBack,  \* of KeyValues
    name, changed, nameCalls, lastNaming,                         \* of UserNames
    owner, developerReward, earned, balance, payments, ownerCalls, lastCall,
    metadata, active, pending, before,                            \* of Guardians
    transfers, crtIndex                                           \* of OutputIndices

Storage == INSTANCE KeyValues WITH
    GasLimits <- StorageGasLimits, provided <- limit, returned <- gasBack

Naming == INSTANCE UserNames WITH
    GasCost <- NameCost, GasLimits <- NameGasLimits, calls <- nameCalls, last <- lastNaming

Ownership == INSTANCE ContractOwners WITH
    GasCost <- OwnerCost, GasLimits <- OwnerGasLimits, calls <- ownerCalls, last <- lastCall

Guarding == INSTANCE Guardians WITH Addresses <- Users \cup Contracts

Outputs == INSTANCE OutputIndices WITH Accounts <- Users

ASSUME FunctionAssumptions ==
    /\ Storage!KeyValueAssumption /\ Naming!UserNameAssumption /\ Ownership!OwnerAssumption
    /\ Guarding!GuardianAssumption /\ Outputs!IndexAssumption

trie == vars
stored == <<storage, paid, working, items, gas, limit, running, gasBack>>
named == <<name, changed, nameCalls, lastNaming>>
owned == <<owner, developerReward, earned, balance, payments, ownerCalls, lastCall>>
guarded == <<metadata, active, pending, before>>
outputs == <<transfers, crtIndex>>
accountVars == <<trie, stored, named, owned, guarded, outputs>>

AccountInit ==
    Init /\ Storage!Init /\ Naming!Init /\ Ownership!Init /\ Guarding!Init /\ Outputs!Init

MigrationStep == Next /\ UNCHANGED <<stored, named, owned, guarded, outputs>>
StorageStep == Storage!Next /\ UNCHANGED <<trie, named, owned, guarded, outputs>>
NamingStep == Naming!Next /\ UNCHANGED <<trie, stored, owned, guarded, outputs>>
OwnershipStep == Ownership!Next /\ UNCHANGED <<trie, stored, named, guarded, outputs>>
GuardingStep == Guarding!Next /\ UNCHANGED <<trie, stored, named, owned, outputs>>
OutputStep == Outputs!Next /\ UNCHANGED <<trie, stored, named, owned, guarded>>

AccountNext ==
    MigrationStep \/ StorageStep \/ NamingStep \/ OwnershipStep \/ GuardingStep \/ OutputStep

AccountSpec == AccountInit /\ [][AccountNext]_accountVars
-----------------------------------------------------------------------------
(* The properties of the modules, under their names. *)

(* SaveKeyValue never returns more gas than it was given, every byte it stored was
   paid for, and protected keys stay empty. *)
StorageIsPaid == Storage!TypeOK /\ Storage!NoGasFromNowhere /\ Storage!StorageIsPaid

(* A naming that is executed has paid once, in one of its two shards, unless its DNS
   contract is in the map of either version; and so has a change of owner or a claim,
   unless the claim is asynchronous. *)
ChargedOnce ==
    /\ Naming!TypeOK /\ Naming!ChargedOnce
    /\ Ownership!TypeOK /\ Ownership!ChargedOnce

(* What a contract earned is with it, or with or on its way to an owner, once. *)
RewardsConserved == Ownership!RewardsConserved

(* A claim of the owner with enough gas is paid, or the owner has changed. *)
ClaimsArePaid == Ownership!ClaimsArePaid

(* A guarded account has an active guardian, and guarding and unguarding leave the
   other bits of the code metadata alone. *)
GuardingHolds == Guarding!TypeOK /\ Guarding!GuardedHasGuardian /\ Guarding!OtherMetadataKept

(* Transfers are carried out in the order in which they were made. *)
CarriedInOrder == Outputs!TypeOK /\ Outputs!CarriedInOrder
=============================================================================
