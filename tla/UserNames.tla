----------------------------- MODULE UserNames -----------------------------
(* SetUserName and DeleteUserName (saveUserName.go, deleteUserName.go): a DNS *)
(* contract gives an account its name or takes it away, across shards in two  *)
(* halves. Each shard turns ChangeUsernameFlag on in its own time; until then *)
(* the old DNS contracts give names that never change, and the gas is taken   *)
(* where the name is set; after it the new ones do, names change, and the gas *)
(* is taken where the call starts. Gas is an unsigned integer below Modulus.  *)
EXTENDS Integers, FiniteSets

CONSTANTS
  Users, Names, NoName,
  OldDns, NewDns,   \* mapDnsAddresses, mapDnsV2Addresses
  Shards, Home,     \* the shard of each user and DNS contract
  GasCost, Modulus,
  GasLimits,        \* what a DNS contract may provide
  MaxCalls          \* bound on the calls on their way

Dns == OldDns \cup NewDns
Functions == {"SetUserName", "DeleteUserName"}
Minus(x, y) == (x - y) % Modulus

UserNameAssumption ==
  /\ Home \in [Users \cup Dns -> Shards] /\ NoName \notin Names
  /\ Modulus \in Nat /\ GasCost \in 1..(Modulus - 1) /\ GasLimits \subseteq 0..(Modulus - 1)
  /\ MaxCalls \in Nat

VARIABLES
  name,    \* the name of each user
  changed, \* the shards where ChangeUsernameFlag is on
  calls,   \* on their way, with the gas they carry and the gas of their start
  last     \* the last call executed: the gas of its start and the gas returned
vars == <<name, changed, calls, last>>

Call == [function : Functions, dns : Dns, user : Users, name : Names \cup {NoName},
         gas : 0..(Modulus - 1), provided : 0..(Modulus - 1)]

Init ==
  /\ name \in [Users -> Names \cup {NoName}]
  /\ changed = {} /\ calls = {}
  /\ last \in [dns : Dns, provided : {GasCost}, returned : {0}]

(* The epoch of the flag begins in a shard.                                   *)
EnableChangeUsername(s) ==
  /\ s \notin changed /\ changed' = changed \cup {s}
  /\ UNCHANGED <<name, calls, last>>

(* IsActive: there is no DeleteUserName before the flag.                      *)
Active(function, s) == function = "DeleteUserName" => s \in changed

(* inputCheckForUserNameCall, where the DNS contract is not at hand the gas   *)
(* is not looked at.                                                          *)
InputCheck_EitherDns(c, s) ==
  /\ Home[c.dns] = s => c.gas >= GasCost
  /\ c.dns \in Dns

InputCheck(c, s) ==
  /\ Home[c.dns] = s => c.gas >= GasCost
  /\ c.dns \in IF s \in changed THEN NewDns ELSE OldDns

(* A name is set once before the flag.                                        *)
MayName(c, s) == s \in changed \/ name[c.user] = NoName

(* createCrossShardUserNameCall, at the shard of the DNS contract.            *)
Send(c) ==
  LET s == Home[c.dns]
  IN /\ s # Home[c.user] /\ c.gas = c.provided
     /\ Active(c.function, s) /\ InputCheck(c, s)
     /\ Cardinality(calls) < MaxCalls
     /\ calls' = calls \cup
          {[c EXCEPT !.gas = IF s \in changed THEN Minus(c.gas, GasCost) ELSE c.gas]}
     /\ UNCHANGED <<name, changed, last>>

(* At the shard of the user, which may be that of the DNS contract too.       *)
Execute(c) ==
  LET s == Home[c.user]
      taken == Home[c.dns] = s \/ s \notin changed
  IN /\ Active(c.function, s) /\ InputCheck(c, s) /\ MayName(c, s)
     /\ name' = [name EXCEPT ![c.user] = c.name]
     /\ last' = [dns |-> c.dns, provided |-> c.provided,
                 returned |-> IF taken THEN Minus(c.gas, GasCost) ELSE c.gas]
     /\ UNCHANGED changed

CallHere(c) ==
  /\ Home[c.dns] = Home[c.user] /\ c.gas = c.provided
  /\ Execute(c) /\ UNCHANGED calls

Arrive(c) ==
  /\ Execute(c) /\ calls' = calls \ {c}

(* What may not be executed is answered with an error; the gas is gone.       *)
Refuse(c) ==
  LET s == Home[c.user]
  IN /\ ~(Active(c.function, s) /\ InputCheck(c, s) /\ MayName(c, s))
     /\ calls' = calls \ {c} /\ UNCHANGED <<name, changed, last>>

Asked == {c \in [function : Functions, dns : Dns, user : Users, name : Names \cup {NoName},
                 gas : GasLimits, provided : GasLimits] :
            /\ c.gas = c.provided
            /\ c.function = "DeleteUserName" => c.name = NoName}

Next ==
  \/ \E s \in Shards : EnableChangeUsername(s)
  \/ \E c \in Asked : Send(c) \/ CallHere(c)
  \/ \E c \in calls : Arrive(c) \/ Refuse(c)

Spec == Init /\ [][Next]_vars

-----------------------------------------------------------------------------
TypeOK ==
  /\ name \in [Users -> Names \cup {NoName}] /\ changed \in SUBSET Shards
  /\ calls \in SUBSET Call /\ \A c \in calls : Home[c.dns] # Home[c.user]
  /\ last \in [dns : Dns, provided : 0..(Modulus - 1), returned : 0..(Modulus - 1)]

(* A call that is executed has paid once, in one of the two shards, though    *)
(* they turn the flag on one after the other and each would take the gas, or  *)
(* neither. What saves it is that the DNS contracts change with the flag: one *)
(* that is in both maps, which nothing forbids, may pay twice or not at all.  *)
ChargedOnce ==
  last.dns \notin OldDns \cap NewDns => last.returned = last.provided - GasCost
=============================================================================
