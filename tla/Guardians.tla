----------------------------- MODULE Guardians -----------------------------
(* SetGuardian, GuardAccount and UnGuardAccount (setGuardian.go,              *)
(* baseGuardAccount.go, guardAccount.go, unGuardAccount.go) on one account.   *)
(* The guardians are kept by the node's GuardedAccountHandler, which makes a  *)
(* new one wait unless the active one has signed; whether the account is      *)
(* guarded is a bit of its code metadata, read from two bytes and written back*)
(* with the bits the code knows (codeMetadata.go).                            *)
CONSTANTS
  Self,       \* the account
  Addresses,  \* that may be named as guardian
  Contracts,  \* those of them that are smart contracts
  OtherBits,  \* bits of the two bytes that the code does not know
  NoGuardian

KnownBits == {"upgradeable", "readable", "guarded", "payable", "payableBySC"}

GuardianAssumption ==
  /\ Self \in Addresses /\ Contracts \subseteq Addresses /\ NoGuardian \notin Addresses
  /\ OtherBits \cap KnownBits = {}

VARIABLES
  metadata, \* the bits of the code metadata, which may be missing altogether
  active, pending, \* the guardians the handler keeps
  before    \* the metadata when the account was guarded last
vars == <<metadata, active, pending, before>>

(* CodeMetadataFromBytes, ToBytes: what is not two bytes long has no bits.    *)
Bits(m) == m \cap KnownBits

Init ==
  /\ metadata \in SUBSET ((KnownBits \ {"guarded"}) \cup OtherBits) /\ before = metadata
  /\ active = NoGuardian /\ pending = NoGuardian

(* checkSetGuardianArgs.                                                      *)
MayBeGuardian(g) == g \notin Contracts /\ g # Self

(* The handler may also refuse.                                               *)
SetGuardian(g, signed) ==
  /\ MayBeGuardian(g)
  /\ IF signed /\ active # NoGuardian
       THEN active' = g /\ pending' = NoGuardian
       ELSE pending' = g /\ UNCHANGED active
  /\ UNCHANGED <<metadata, before>>

(* The epoch of the pending guardian comes.                                   *)
Activate ==
  /\ pending # NoGuardian /\ active' = pending /\ pending' = NoGuardian
  /\ UNCHANGED <<metadata, before>>

(* checkGuardAccountArgs.                                                     *)
HasActiveGuardian_OrPending == active # NoGuardian \/ pending # NoGuardian
HasActiveGuardian == active # NoGuardian

(* CleanOtherThanActive is part of it.                                        *)
GuardAccount ==
  /\ HasActiveGuardian /\ "guarded" \notin metadata
  /\ metadata' = Bits(metadata) \cup {"guarded"}
  /\ before' = metadata /\ pending' = NoGuardian
  /\ UNCHANGED active

UnGuardAccount ==
  /\ HasActiveGuardian /\ "guarded" \in metadata
  /\ metadata' = Bits(metadata) \ {"guarded"}
  /\ UNCHANGED <<active, pending, before>>

Next ==
  \/ \E g \in Addresses, signed \in BOOLEAN : SetGuardian(g, signed)
  \/ Activate \/ GuardAccount \/ UnGuardAccount

Spec == Init /\ [][Next]_vars

-----------------------------------------------------------------------------
TypeOK ==
  /\ metadata \subseteq KnownBits \cup OtherBits /\ before \subseteq KnownBits \cup OtherBits
  /\ {active, pending} \subseteq (Addresses \ (Contracts \cup {Self})) \cup {NoGuardian}

(* An account is guarded by somebody: a guarded account without an active     *)
(* guardian could neither act nor be unguarded.                               *)
GuardedHasGuardian == "guarded" \in metadata => active # NoGuardian

(* Guarding and unguarding, however often, change none of the other bits of   *)
(* the metadata that the code knows.                                          *)
OtherMetadataKept == (metadata \cap KnownBits) \ {"guarded"} = (before \cap KnownBits) \ {"guarded"}
=============================================================================
