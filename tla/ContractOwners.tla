-------------------------- MODULE ContractOwners --------------------------
(* The owner of a smart contract: ChangeOwnerAddress and ClaimDeveloperRewards*)
(* (changeOwnerAddress.go, claimDeveloperRewards.go) on one contract. A call  *)
(* from another shard is run there first, without the contract, and then at   *)
(* the contract, without the caller. What a user sends crosses as it is; what *)
(* a contract orders crosses as the output transfer the first half makes.     *)
(* Gas is counted, never wraps and is bounded by GasLimits.                   *)
EXTENDS Amounts

CONSTANTS
  Users, Contracts,   \* who may own it
  Near,               \* the owners in the shard of the contract
  GasCost,
  GasLimits,          \* what a call may provide
  ThroughSC,          \* IsChangeOwnerAddressCrossShardThroughSCFlag
  MaxRewards,         \* bound on what the contract earns its owners
  MaxCalls,           \* bound on the calls on their way
  Nobody

Owners == Users \cup Contracts

OwnerAssumption ==
  /\ IsFiniteSet(Owners) /\ Users \cap Contracts = {} /\ Near \subseteq Owners /\ Nobody \notin Owners
  /\ GasCost \in Nat \ {0} /\ GasLimits \subseteq Nat
  /\ ThroughSC \in BOOLEAN /\ {MaxRewards, MaxCalls} \subseteq Nat

VARIABLES
  owner,
  developerReward, \* what the contract holds for its owner
  earned,          \* what it has earned altogether
  balance,         \* of each owner, from rewards
  payments,        \* rewards on their way to each owner in another shard
  calls,           \* on their way to the contract
  last             \* the last call done: the gas of its start, and what both halves returned
vars == <<owner, developerReward, earned, balance, payments, calls, last>>

(* A call to change the owner names the new one, a claim names nobody and may  *)
(* be an asynchronous call of a contract. returned is what the first half gave *)
(* back to the caller.                                                         *)
Call == [caller : Owners, newOwner : Owners \cup {Nobody}, async : BOOLEAN,
         gas : Nat, provided : Nat, returned : Nat]

Init ==
  /\ owner \in Owners /\ developerReward = 0 /\ earned = 0
  /\ balance = [o \in Owners |-> 0]
  /\ payments = [o \in Owners |-> 0] /\ calls = {}
  /\ last = [caller |-> owner, async |-> FALSE, provided |-> GasCost, returned |-> 0]

(* A transaction to the contract leaves its owner a part of the fee.          *)
AddToDeveloperReward ==
  /\ earned < MaxRewards /\ earned' = earned + 1
  /\ developerReward' = developerReward + 1
  /\ UNCHANGED <<owner, balance, payments, calls, last>>

(* computeGasRemaining: gas is given back where the caller is.                *)
GasRemaining(callerIsHere, gas) == IF callerIsHere /\ gas >= GasCost THEN gas - GasCost ELSE 0

(* What an asynchronous claim leaves goes with the callback, which is dropped  *)
(* for a contract near by: GasRemaining is 0.                                  *)
Answered(c, callerIsHere) ==
  last' = [caller |-> c.caller, async |-> c.async, provided |-> c.provided,
           returned |-> c.returned + GasRemaining(callerIsHere /\ ~c.async, c.gas)]

(* ProcessBuiltinFunction of either, at a shard where the contract is not: a  *)
(* change of the owner asks for the gas, a claim does not. The remaining gas  *)
(* of an output transfer goes with it. What a contract claims, and before the *)
(* flag what it orders, is accepted and makes no output transfer.             *)
SendAsUser(c) ==
  /\ c.caller \in Users
  /\ calls' = calls \cup {[c EXCEPT !.returned = GasRemaining(TRUE, c.gas)]}

SendAsContract(c) ==
  /\ c.caller \in Contracts /\ c.newOwner # Nobody /\ ThroughSC
  /\ calls' = calls \cup {[c EXCEPT !.gas = GasRemaining(TRUE, c.gas)]}

Send(c) ==
  /\ c.caller \notin Near /\ Cardinality(calls) < MaxCalls
  /\ c.newOwner # Nobody => c.gas >= GasCost
  /\ SendAsUser(c) \/ SendAsContract(c)
  /\ UNCHANGED <<owner, developerReward, earned, balance, payments, last>>

MayAct(c) == c.gas >= GasCost /\ c.caller = owner

ChangeOwnerAddress(c, callerIsHere) ==
  /\ c.newOwner # Nobody /\ MayAct(c)
  /\ owner' = c.newOwner
  /\ Answered(c, callerIsHere)
  /\ UNCHANGED <<developerReward, earned, balance, payments>>

(* A caller in the shard of the contract is paid at once: the output transfer *)
(* that names it as well is dropped for a contract and, inside one shard, only*)
(* recorded for a user.                                                       *)
ClaimDeveloperRewards_BothWays(c, callerIsHere) ==
  /\ c.newOwner = Nobody /\ MayAct(c)
  /\ developerReward' = 0
  /\ payments' = [payments EXCEPT ![c.caller] = @ + developerReward]
  /\ IF callerIsHere THEN balance' = [balance EXCEPT ![c.caller] = @ + developerReward]
                     ELSE UNCHANGED balance
  /\ Answered(c, callerIsHere)
  /\ UNCHANGED <<owner, earned>>

ClaimDeveloperRewards_KeepsReward(c, callerIsHere) ==
  /\ c.newOwner = Nobody /\ MayAct(c)
  /\ IF callerIsHere
       THEN /\ balance' = [balance EXCEPT ![c.caller] = @ + developerReward]
            /\ UNCHANGED payments
       ELSE /\ payments' = [payments EXCEPT ![c.caller] = @ + developerReward]
            /\ UNCHANGED balance
  /\ Answered(c, callerIsHere)
  /\ UNCHANGED <<owner, earned, developerReward>>

ClaimDeveloperRewards(c, callerIsHere) ==
  /\ c.newOwner = Nobody /\ MayAct(c)
  /\ developerReward' = 0
  /\ IF callerIsHere
       THEN /\ balance' = [balance EXCEPT ![c.caller] = @ + developerReward]
            /\ UNCHANGED payments
       ELSE /\ payments' = [payments EXCEPT ![c.caller] = @ + developerReward]
            /\ UNCHANGED balance
  /\ Answered(c, callerIsHere)
  /\ UNCHANGED <<owner, earned>>

Act(c, callerIsHere) == ChangeOwnerAddress(c, callerIsHere) \/ ClaimDeveloperRewards(c, callerIsHere)

CallHere(c) ==
  /\ c.caller \in Near /\ Act(c, TRUE) /\ UNCHANGED calls

Arrive(c) ==
  /\ c \in calls /\ calls' = calls \ {c}
  /\ \/ Act(c, FALSE)
     \/ ~MayAct(c) /\ UNCHANGED <<owner, developerReward, earned, balance, payments, last>>

PaymentArrives(o) ==
  /\ payments[o] > 0
  /\ balance' = [balance EXCEPT ![o] = @ + payments[o]]
  /\ payments' = [payments EXCEPT ![o] = 0]
  /\ UNCHANGED <<owner, developerReward, earned, calls, last>>

Asked == {c \in [caller : Owners, newOwner : Owners \cup {Nobody}, async : BOOLEAN,
                 gas : GasLimits, provided : GasLimits, returned : {0}] :
            /\ c.gas = c.provided
            /\ c.async => c.caller \in Contracts /\ c.newOwner = Nobody}

Next ==
  \/ AddToDeveloperReward
  \/ \E c \in Asked : Send(c) \/ CallHere(c)
  \/ \E c \in calls : Arrive(c)
  \/ \E o \in Owners : PaymentArrives(o)

Spec == Init /\ [][Next]_vars

(* The node brings every claim of a user to the contract.                     *)
ClaimsSent == {[c EXCEPT !.returned = GasRemaining(TRUE, c.gas)] :
                 c \in {d \in Asked : d.caller \in Users \ Near /\ d.newOwner = Nobody}}
Delivery == \A c \in ClaimsSent : WF_vars(Arrive(c))
FairSpec == Spec /\ Delivery

-----------------------------------------------------------------------------
TypeOK ==
  /\ owner \in Owners /\ {developerReward, earned} \subseteq 0..MaxRewards
  /\ balance \in [Owners -> 0..MaxRewards] /\ payments \in [Owners -> 0..MaxRewards]
  /\ calls \subseteq Call /\ \A c \in calls : c.caller \notin Near
  /\ last \in [caller : Owners, async : BOOLEAN, provided : Nat, returned : Nat]

(* What the contract earned is with it, with an owner it had, or on its way   *)
(* to one: once, though a claim may cross a change of the owner, and a caller *)
(* nearby is paid in one way and a caller afar in another.                    *)
RewardsConserved ==
  earned = developerReward + Total(balance) + Total(payments)

(* Two halves charge once: an executed call of a user, or of a contract near  *)
(* by, cost it GasCost and the rest came back; but nothing of an asynchronous *)
(* claim comes back to a contract near by.                                    *)
ChargedOnce ==
  last.caller \in Users \cup Near =>
    last.returned = IF last.async THEN 0 ELSE last.provided - GasCost

(* An owner that has claimed with enough gas has the reward or is the owner no*)
(* more, before long.                                                         *)
ClaimsArePaid ==
  \A o \in Owners :
    (owner = o /\ \E c \in calls : c.caller = o /\ c.newOwner = Nobody /\ c.gas >= GasCost)
      ~> (developerReward = 0 \/ owner # o)

(* "gas is consumed in sender shard, returned already in sender shard": not   *)
(* that of an order which a contract sends to another shard.                  *)
GasComesBack == last.returned = last.provided - GasCost
=============================================================================
