------------------------- MODULE NFTCreateRole_proofs -------------------------
(***************************************************************************)
(* Proofs about NFTCreateRole for any accounts, shards and block size.     *)
(*                                                                         *)
(* The two kinds of collection keep nonces apart for different reasons, so *)
(* each has its own inductive invariant.  With one creator (HandOver) role *)
(* and nonce are together in one of three places, and the nonce is the     *)
(* number of NFTs created.  With many creators (OwnBlocks) everyone who    *)
(* may create counts within a block of its own, and above its latest nonce *)
(* the block is fresh.                                                     *)
(***************************************************************************)
EXTENDS NFTCreateRole, TLAPS

(* One creator: the role is settled with the owner of record h, or still with
   the account ordered to hand it over to h, or on its way to h. *)
Settled(h) ==
    /\ command = NoCommand /\ message = NoMessage
    /\ latestNonce[h] = creates
    /\ unset = {} \/ (stopped /\ unset = {h})
    /\ \A a \in Accounts : copies[a] = IF a = h /\ (stopped => h \in unset) THEN 1 ELSE 0

Ordered(h) ==
    /\ command # NoCommand /\ message = NoMessage /\ ~stopped /\ unset = {}
    /\ command.to = h /\ command.at # h
    /\ latestNonce[command.at] = creates
    /\ \A a \in Accounts : copies[a] = IF a = command.at THEN 1 ELSE 0

Travelling(h) ==
    /\ command = NoCommand /\ message # NoMessage /\ ~stopped /\ unset = {}
    /\ message.to = h /\ message.nonce = creates
    /\ \A a \in Accounts : copies[a] = 0

CreatedExactly == \A n \in Nonces : created[n] = IF n \in 1..creates THEN 1 ELSE 0

HandOver ==
    ~MultiShard =>
        /\ CreatedExactly
        /\ \E h \in Accounts :
                /\ creators = {h}
                /\ Settled(h) \/ Ordered(h) \/ Travelling(h)

(* Many creators: whoever may create, now or later, has nothing created in its
   block above its latest nonce. *)
BlockOf(a) == (StartNonce(a) + 1)..(StartNonce(a) + Block)

MayYetCreate(a) == copies[a] > 0 \/ a \notin creators

Counting(a) ==
    copies[a] > 0 =>
        /\ a \in creators
        /\ latestNonce[a] >= StartNonce(a)
        /\ latestNonce[a] <= StartNonce(a) + creates

Fresh(a) ==
    MayYetCreate(a) =>
        \A n \in BlockOf(a) :
            (copies[a] > 0 => n > latestNonce[a]) => created[n] = 0

OwnBlocks ==
    MultiShard =>
        /\ command = NoCommand /\ message = NoMessage
        /\ UniqueNonces
        /\ \A a \in Accounts :
            /\ Counting(a) /\ Fresh(a)
            /\ copies[a] <= 1
            /\ stopped /\ copies[a] > 0 => a \in unset

IInv == TypeOK /\ HandOver /\ OwnBlocks
-----------------------------------------------------------------------------
USE CreateRoleAssumption

(* Two accounts that end differently count in blocks that do not meet. *)
LEMMA BlocksApart ==
    ASSUME NEW l1 \in Nat, NEW l2 \in Nat, l1 < l2, NEW k \in Nat
    PROVE  k * l1 + k <= k * l2
<1>1. PICK d \in Nat : l2 = l1 + 1 + d
  BY l2 = l1 + 1 + (l2 - l1 - 1)
<1>2. k * l2 = k * l1 + k + k * d
  BY <1>1
<1>3. k * d \in Nat /\ k * l1 \in Nat
  OBVIOUS
<1> QED BY <1>2, <1>3

LEMMA ModNonces == \A n \in Nonces : (n + 1) % (MaxNonce + 1) \in Nonces
<1> TAKE n \in Nonces
<1>1. n + 1 \in Int /\ MaxNonce + 1 \in Nat /\ MaxNonce + 1 > 0
  BY DEF Nonces
<1>2. \A x \in Int, m \in Nat : m > 0 => x % m \in 0..(m - 1)
  OBVIOUS
<1>3. (n + 1) % (MaxNonce + 1) \in 0..(MaxNonce + 1 - 1)
  BY <1>1, <1>2
<1>4. MaxNonce + 1 - 1 = MaxNonce
  OBVIOUS
<1> QED BY <1>3, <1>4 DEF Nonces

LEMMA StartType == \A a \in Accounts : StartNonce(a) \in Nat /\ StartNonce(a) + Block <= MaxNonce
BY DEF StartNonce

LEMMA BlocksDisjoint ==
    ASSUME MultiShard, NEW a \in Accounts, NEW b \in Accounts, a # b
    PROVE  BlockOf(a) \cap BlockOf(b) = {}
<1>1. LastByte[a] \in Nat /\ LastByte[b] \in Nat /\ LastByte[a] # LastByte[b]
  OBVIOUS
<1>2. CASE LastByte[a] < LastByte[b]
  <2>1. StartNonce(a) + Block <= StartNonce(b)
    BY <1>1, <1>2, BlocksApart DEF StartNonce
  <2> QED BY <2>1, StartType DEF BlockOf
<1>3. CASE LastByte[b] < LastByte[a]
  <2>1. StartNonce(b) + Block <= StartNonce(a)
    BY <1>1, <1>3, BlocksApart DEF StartNonce
  <2> QED BY <2>1, StartType DEF BlockOf
<1>4. \A l1, l2 \in Nat : l1 = l2 \/ l1 < l2 \/ l2 < l1
  OBVIOUS
<1>5. LastByte[a] < LastByte[b] \/ LastByte[b] < LastByte[a]
  BY <1>1, <1>4, Zenon
<1> QED BY <1>2, <1>3, <1>5

-----------------------------------------------------------------------------
LEMMA TypeInit == Init => TypeOK
<1> SUFFICES ASSUME Init PROVE TypeOK
  OBVIOUS
<1>1. 0 \in Nonces /\ 0 \in 0..MaxCreates
  BY DEF Nonces
<1>2. creators \subseteq Accounts
  BY DEF Init
<1>3. copies \in [Accounts -> Nat]
  BY DEF Init
<1> QED BY <1>1, <1>2, <1>3 DEF Init, TypeOK

LEMMA RoleTypes ==
  ASSUME TypeOK, NEW a \in Accounts
  PROVE  /\ RoleTaken(a) \in [Accounts -> Nat]
         /\ \A roles \in [Accounts -> Nat] : RoleAdded(roles, a) \in [Accounts -> Nat]
<1>1. copies \in [Accounts -> Nat] /\ copies[a] \in Nat
  BY DEF TypeOK
<1>2. (IF copies[a] > 0 THEN copies[a] - 1 ELSE 0) \in Nat
  BY <1>1
<1> QED BY <1>1, <1>2 DEF RoleTaken, RoleAdded

LEMMA TypeStep == TypeOK /\ [Next]_vars => TypeOK'
<1> SUFFICES ASSUME TypeOK, [Next]_vars PROVE TypeOK'
  OBVIOUS
<1> USE DEF TypeOK
<1>0. \A a \in Accounts : NonceAfterRoleChange(a) \in [Accounts -> Nonces]
  <2> TAKE a \in Accounts
  <2>1. StartNonce(a) \in Nonces
    BY StartType DEF Nonces
  <2> QED BY <2>1 DEF NonceAfterRoleChange
<1>1. ASSUME NEW a \in Accounts, Create(a) PROVE TypeOK'
  <2> DEFINE next == (latestNonce[a] + 1) % (MaxNonce + 1)
  <2>1. next \in Nonces
    BY ModNonces
  <2>2. latestNonce' = [latestNonce EXCEPT ![a] = next]
        /\ created' = [created EXCEPT ![next] = @ + 1]
        /\ creates < MaxCreates /\ creates' = creates + 1
    BY <1>1 DEF Create
  <2> HIDE DEF next
  <2>3. latestNonce' \in [Accounts -> Nonces] /\ created' \in [Nonces -> Nat]
    BY <2>1, <2>2
  <2>4. creates' \in 0..MaxCreates
    BY <2>2
  <2> QED BY <1>1, <2>3, <2>4 DEF Create, record, traffic
<1>2. ASSUME NEW a \in Accounts, SetCreator(a) PROVE TypeOK'
  BY <1>0, <1>2 DEF SetCreator, minting, traffic
<1>3. ASSUME NEW a \in Accounts, UnSetCreator(a) PROVE TypeOK'
  <2>1. RoleTaken(a) \in [Accounts -> Nat]
    BY RoleTypes
  <2> QED BY <1>0, <1>3, <2>1 DEF UnSetCreator, minting, record
<1>4. ASSUME NEW b \in Accounts, OrderTransfer(b) PROVE TypeOK'
  BY <1>4 DEF OrderTransfer, Commands, held, minting
<1>5. ASSUME ChangeAtCurrentOwner PROVE TypeOK'
  <2>1. command.at \in Accounts /\ command.to \in Accounts
    BY <1>5 DEF ChangeAtCurrentOwner, Commands
  <2>2. 0 \in Nonces /\ latestNonce[command.at] \in Nonces
    <3>1. 0 \in Nonces
      BY DEF Nonces
    <3>2. latestNonce \in [Accounts -> Nonces]
      OBVIOUS
    <3> HIDE DEF TypeOK
    <3> QED BY <2>1, <3>1, <3>2
  <2>3. copies' \in [Accounts -> Nat]
    <3>1. RoleTaken(command.at) \in [Accounts -> Nat]
      BY <2>1, RoleTypes
    <3>2. RoleAdded(RoleTaken(command.at), command.to) \in [Accounts -> Nat]
      BY <2>1, <3>1, RoleTypes
    <3>3. copies' = RoleTaken(command.at) \/ copies' = RoleAdded(RoleTaken(command.at), command.to)
      <4> HIDE DEF TypeOK
      <4> QED BY <1>5 DEF ChangeAtCurrentOwner
    <3> HIDE DEF TypeOK
    <3> QED BY <3>1, <3>2, <3>3
  <2>4. latestNonce' \in [Accounts -> Nonces]
    BY <1>5, <2>1, <2>2 DEF ChangeAtCurrentOwner
  <2>5. message' \in Messages \cup {NoMessage}
    BY <1>5, <2>1, <2>2 DEF ChangeAtCurrentOwner, Messages
  <2> QED BY <1>5, <2>3, <2>4, <2>5 DEF ChangeAtCurrentOwner, minting, record
<1>6. ASSUME ChangeAtNextOwner PROVE TypeOK'
  <2>1. message.to \in Accounts /\ message.nonce \in Nonces
    BY <1>6 DEF ChangeAtNextOwner, Messages
  <2> QED BY <1>6, <2>1 DEF ChangeAtNextOwner, RoleAdded, minting, record
<1>7. ASSUME StopCreate PROVE TypeOK'
  BY <1>7 DEF StopCreate, held, minting
<1>8. CASE UNCHANGED vars
  BY <1>8 DEF vars, held, minting, record, traffic
<1> QED BY <1>1, <1>2, <1>3, <1>4, <1>5, <1>6, <1>7, <1>8 DEF Next

-----------------------------------------------------------------------------
(* One creator *)

LEMMA HandOverInit == Init => HandOver
<1> SUFFICES ASSUME Init, ~MultiShard PROVE CreatedExactly /\ creators = {FirstOwner} /\ Settled(FirstOwner)
  BY DEF HandOver
<1>1. CreatedExactly
  BY DEF Init, CreatedExactly
<1>2. Settled(FirstOwner)
  BY DEF Init, Settled
<1> QED BY <1>1, <1>2 DEF Init

LEMMA HandOverStep == TypeOK /\ HandOver /\ [Next]_vars => HandOver'
<1> SUFFICES ASSUME TypeOK, [Next]_vars, ~MultiShard, CreatedExactly,
                    NEW h \in Accounts, creators = {h},
                    Settled(h) \/ Ordered(h) \/ Travelling(h)
             PROVE  CreatedExactly' /\ \E k \in Accounts :
                        creators' = {k} /\ (Settled(k)' \/ Ordered(k)' \/ Travelling(k)')
  BY DEF HandOver
<1> DEFINE Goal == CreatedExactly' /\ \E k \in Accounts :
                        creators' = {k} /\ (Settled(k)' \/ Ordered(k)' \/ Travelling(k)')
<1>0. h \in Accounts /\ h \in creators
  OBVIOUS
<1>1. ASSUME NEW a \in Accounts, Create(a) PROVE Goal
  <2>1. UNCHANGED <<copies, creators, stopped, command, message, unset>>
    BY <1>1 DEF Create, record, traffic
  <2>2. ~Travelling(h)
    BY <1>1 DEF Create, Travelling
  <2>3. latestNonce[a] = creates
    BY <1>1, <2>2 DEF Create, Settled, Ordered
  <2>4. (creates + 1) % (MaxNonce + 1) = creates + 1 /\ creates + 1 \in Nonces /\ creates \in Nat
    <3>1. MaxCreates <= MaxNonce
      BY StartType
    <3>2. creates < MaxCreates /\ creates \in Nat
      BY <1>1 DEF Create, TypeOK
    <3>3. \A x, m \in Nat : x < m => x % m = x
      OBVIOUS
    <3>4. creates + 1 \in Nat /\ MaxNonce + 1 \in Nat /\ creates + 1 < MaxNonce + 1
      BY <3>1, <3>2
    <3>5. creates + 1 \in Nonces
      BY <3>4 DEF Nonces
    <3>6. (creates + 1) % (MaxNonce + 1) = creates + 1
      BY <3>3, <3>4, Zenon
    <3> QED BY <3>2, <3>5, <3>6
  <2>5. /\ created' = [created EXCEPT ![creates + 1] = @ + 1]
        /\ latestNonce' = [latestNonce EXCEPT ![a] = creates + 1]
        /\ creates' = creates + 1
    BY <1>1, <2>3, <2>4 DEF Create
  <2>6. CreatedExactly'
    <3> SUFFICES ASSUME NEW n \in Nonces
                 PROVE  created'[n] = IF n \in 1..(creates + 1) THEN 1 ELSE 0
      BY <2>5 DEF CreatedExactly
    <3>1. created[n] = IF n \in 1..creates THEN 1 ELSE 0
      BY DEF CreatedExactly
    <3>2. created'[n] = IF n = creates + 1 THEN created[n] + 1 ELSE created[n]
      BY <2>5 DEF TypeOK
    <3> QED BY <2>4, <3>1, <3>2 DEF Nonces
  <2>7. CASE Settled(h)
    <3>1. a = h
      BY <1>1, <2>7 DEF Create, Settled
    <3>2. Settled(h)'
      BY <2>1, <2>5, <2>7, <3>1 DEF Settled, TypeOK
    <3> QED BY <2>1, <2>6, <3>2
  <2>8. CASE Ordered(h)
    <3>1. a = command.at
      BY <1>1, <2>8 DEF Create, Ordered
    <3>2. Ordered(h)'
      BY <2>1, <2>5, <2>8, <3>1 DEF Ordered, TypeOK
    <3> QED BY <2>1, <2>6, <3>2
  <2> QED BY <2>2, <2>7, <2>8
<1>2. ASSUME NEW a \in Accounts, SetCreator(a) PROVE Goal
  BY <1>2 DEF SetCreator
<1>3. ASSUME NEW a \in Accounts, UnSetCreator(a) PROVE Goal
  <2>1. Settled(h) /\ a = h /\ unset = {h} /\ stopped
    BY <1>3 DEF UnSetCreator, Settled, Ordered, Travelling
  <2>2. UNCHANGED <<created, creates, creators, stopped, command, message>>
    BY <1>3 DEF UnSetCreator, minting, record
  <2>3. latestNonce' = latestNonce
    BY <1>3 DEF UnSetCreator, NonceAfterRoleChange, TypeOK
  <2>4. unset' = {}
    BY <1>3, <2>1 DEF UnSetCreator
  <2>5. copies' = [copies EXCEPT ![h] = IF @ > 0 THEN @ - 1 ELSE 0]
    BY <1>3, <2>1 DEF UnSetCreator, RoleTaken
  <2>6. Settled(h)'
    BY <2>1, <2>2, <2>3, <2>4, <2>5 DEF Settled, TypeOK
  <2> QED BY <2>2, <2>6 DEF CreatedExactly
<1>4. ASSUME NEW b \in Accounts, OrderTransfer(b) PROVE Goal
  <2>1. UNCHANGED <<copies, latestNonce, created, creates, stopped, message, unset>>
    BY <1>4 DEF OrderTransfer, held, minting
  <2>2. /\ command' = [at |-> h, to |-> b] /\ creators' = {b} /\ b # h
        /\ ~stopped /\ command = NoCommand /\ message = NoMessage
    BY <1>4 DEF OrderTransfer, Idle
  <2>3. command' # NoCommand
    BY <2>2 DEF Commands
  <2>4. Settled(h) /\ unset = {}
    BY <2>2 DEF Settled, Ordered, Travelling
  <2>5. Ordered(b)'
    BY <2>1, <2>2, <2>3, <2>4 DEF Settled, Ordered
  <2> QED BY <2>1, <2>2, <2>5 DEF CreatedExactly
<1>5. ASSUME ChangeAtCurrentOwner PROVE Goal
  <2>1. /\ command # NoCommand /\ message = NoMessage /\ ~stopped /\ unset = {}
        /\ command.to = h /\ command.at # h /\ latestNonce[command.at] = creates
        /\ \A a \in Accounts : copies[a] = IF a = command.at THEN 1 ELSE 0
    BY <1>5 DEF ChangeAtCurrentOwner, Settled, Ordered, Travelling
  <2>2. PICK a \in Accounts : a = command.at
    BY <2>1 DEF TypeOK, Commands
  <2>3. UNCHANGED <<created, creates, creators, stopped, unset>> /\ command' = NoCommand
    BY <1>5 DEF ChangeAtCurrentOwner, minting, record
  <2>4. CASE ShardOf[a] = ShardOf[h]
    <3>1. /\ latestNonce' = [latestNonce EXCEPT ![a] = 0, ![h] = latestNonce[a]]
          /\ copies' = RoleAdded(RoleTaken(a), h) /\ message' = message
      BY <1>5, <2>1, <2>2, <2>4 DEF ChangeAtCurrentOwner
    <3>2. latestNonce'[h] = creates
      BY <2>1, <2>2, <3>1 DEF TypeOK
    <3>3. \A x \in Accounts : copies'[x] = IF x = h THEN 1 ELSE 0
      BY <2>1, <2>2, <3>1 DEF RoleAdded, RoleTaken, TypeOK
    <3>4. Settled(h)'
      BY <2>1, <2>3, <3>1, <3>2, <3>3 DEF Settled
    <3> QED BY <2>3, <3>4 DEF CreatedExactly
  <2>5. CASE ShardOf[a] # ShardOf[h]
    <3>1. copies' = RoleTaken(a) /\ message' = [to |-> h, nonce |-> creates]
      BY <1>5, <2>1, <2>2, <2>5 DEF ChangeAtCurrentOwner
    <3>2. message' # NoMessage
      <4>1. creates \in Nonces
        BY <2>1, <2>2 DEF TypeOK
      <4> QED BY <3>1, <4>1 DEF Messages
    <3>3. \A x \in Accounts : copies'[x] = 0
      BY <2>1, <2>2, <3>1 DEF RoleTaken, TypeOK
    <3>4. Travelling(h)'
      BY <2>1, <2>3, <3>1, <3>2, <3>3 DEF Travelling
    <3> QED BY <2>3, <3>4 DEF CreatedExactly
  <2> QED BY <2>4, <2>5
<1>6. ASSUME ChangeAtNextOwner PROVE Goal
  <2>1. Travelling(h)
    BY <1>6 DEF ChangeAtNextOwner, Settled, Ordered
  <2>2. UNCHANGED <<created, creates, creators, stopped, command, unset>> /\ message' = NoMessage
    BY <1>6 DEF ChangeAtNextOwner, minting, record
  <2>3. /\ latestNonce' = [latestNonce EXCEPT ![h] = creates]
        /\ copies' = RoleAdded(copies, h)
    BY <1>6, <2>1 DEF ChangeAtNextOwner, Travelling
  <2>4. latestNonce'[h] = creates
    BY <2>3 DEF TypeOK
  <2>5. \A x \in Accounts : copies'[x] = IF x = h THEN 1 ELSE 0
    BY <2>1, <2>3 DEF RoleAdded, Travelling, TypeOK
  <2>6. Settled(h)'
    BY <2>1, <2>2, <2>4, <2>5 DEF Settled, Travelling
  <2> QED BY <2>2, <2>6 DEF CreatedExactly
<1>7. ASSUME StopCreate PROVE Goal
  <2>1. UNCHANGED <<copies, latestNonce, created, creates, creators, command, message>>
    BY <1>7 DEF StopCreate, held, minting
  <2>2. stopped' = TRUE /\ unset' = {h} /\ ~stopped /\ Settled(h)
    BY <1>7 DEF StopCreate, Idle, Ordered, Travelling
  <2>3. Settled(h)'
    BY <2>1, <2>2 DEF Settled
  <2> QED BY <2>1, <2>3 DEF CreatedExactly
<1>8. CASE UNCHANGED vars
  <2>1. UNCHANGED <<copies, latestNonce, created, creates, creators, stopped, command, message, unset>>
    BY <1>8 DEF vars, held, minting, record, traffic
  <2>2. (Settled(h) => Settled(h)') /\ (Ordered(h) => Ordered(h)') /\ (Travelling(h) => Travelling(h)')
    BY <2>1 DEF Settled, Ordered, Travelling
  <2> QED BY <2>1, <2>2 DEF CreatedExactly
<1> QED BY <1>1, <1>2, <1>3, <1>4, <1>5, <1>6, <1>7, <1>8 DEF Next

-----------------------------------------------------------------------------
(* Many creators *)

LEMMA OwnBlocksInit == Init => OwnBlocks
<1> SUFFICES ASSUME Init, MultiShard PROVE OwnBlocks
  BY DEF OwnBlocks
<1>1. UniqueNonces
  BY DEF Init, UniqueNonces
<1>2. \A a \in Accounts : copies[a] = 0
  BY DEF Init
<1>3. \A a \in Accounts : Counting(a) /\ Fresh(a)
  <2> TAKE a \in Accounts
  <2>1. \A n \in BlockOf(a) : n \in Nonces
    BY StartType DEF BlockOf, Nonces
  <2> QED BY <1>2, <2>1 DEF Init, Counting, Fresh
<1> QED BY <1>1, <1>2, <1>3 DEF Init, OwnBlocks

LEMMA OwnBlocksStep == TypeOK /\ OwnBlocks /\ [Next]_vars => OwnBlocks'
<1> SUFFICES ASSUME TypeOK, OwnBlocks, [Next]_vars, MultiShard PROVE OwnBlocks'
  BY DEF OwnBlocks
<1>a. /\ command = NoCommand /\ message = NoMessage /\ UniqueNonces
      /\ \A a \in Accounts : /\ Counting(a) /\ Fresh(a)
                             /\ copies[a] \in Nat /\ copies[a] <= 1
                             /\ stopped /\ copies[a] > 0 => a \in unset
  BY DEF OwnBlocks, TypeOK
<1>b. \A a \in Accounts : StartNonce(a) \in Nat /\ latestNonce[a] \in Nat /\ creates \in Nat
  BY StartType DEF TypeOK, Nonces
<1>1. ASSUME NEW a \in Accounts, Create(a) PROVE OwnBlocks'
  <2>1. UNCHANGED <<copies, creators, stopped, command, message, unset>>
    BY <1>1 DEF Create, record, traffic
  <2>2. copies[a] > 0 /\ creates < MaxCreates /\ creates' = creates + 1
    BY <1>1 DEF Create
  <2> DEFINE next == latestNonce[a] + 1
  <2>3. /\ latestNonce[a] >= StartNonce(a)
        /\ latestNonce[a] <= StartNonce(a) + creates
    BY <1>a, <2>2 DEF Counting
  <2>4. next \in BlockOf(a) /\ next \in Nat /\ next <= MaxNonce
    BY <1>b, <2>2, <2>3, StartType DEF BlockOf
  <2>5. next % (MaxNonce + 1) = next
    <3>1. \A x, m \in Nat : x < m => x % m = x
      OBVIOUS
    <3>2. next \in Nat /\ MaxNonce + 1 \in Nat /\ next < MaxNonce + 1
      BY <2>4
    <3> HIDE DEF next
    <3> QED BY <3>1, <3>2, Zenon
  <2>6. /\ latestNonce' = [latestNonce EXCEPT ![a] = next]
        /\ created' = [created EXCEPT ![next] = @ + 1]
    BY <1>1, <2>5 DEF Create
  <2>7. created[next] = 0 /\ next \in Nonces
    <3>1. next > latestNonce[a]
      BY <1>b
    <3>2. Fresh(a)
      BY <1>a
    <3> QED BY <2>2, <2>4, <3>1, <3>2 DEF Fresh, MayYetCreate, Nonces
  <2>8. UniqueNonces'
    BY <1>a, <2>6, <2>7 DEF UniqueNonces, TypeOK
  <2>9. ASSUME NEW b \in Accounts PROVE Counting(b)' /\ Fresh(b)'
    <3>1. CASE b = a
      <4>1. latestNonce'[b] = next
        BY <2>6, <3>1 DEF TypeOK
      <4>2. Counting(b)'
        <5>1. b \in creators /\ next >= StartNonce(b) /\ next <= StartNonce(b) + creates + 1
          BY <1>a, <1>b, <2>2, <2>3, <3>1 DEF Counting
        <5> QED BY <1>b, <2>1, <2>2, <4>1, <5>1 DEF Counting, StartNonce
      <4>3. ASSUME NEW n \in BlockOf(b), n > next PROVE created'[n] = 0
        <5>1. n \in Nonces /\ n # next /\ n > latestNonce[a]
          BY <1>b, <4>3, StartType DEF BlockOf, Nonces
        <5>2. created[n] = 0
          BY <1>a, <2>2, <3>1, <5>1 DEF Fresh, MayYetCreate
        <5> QED BY <2>6, <5>1, <5>2 DEF TypeOK
      <4>4. Fresh(b)'
        BY <2>1, <2>2, <3>1, <4>1, <4>3 DEF Fresh, BlockOf, StartNonce
      <4> QED BY <4>2, <4>4
    <3>2. CASE b # a
      <4>1. latestNonce'[b] = latestNonce[b]
        BY <2>6, <3>2 DEF TypeOK
      <4>2. Counting(b)'
        BY <1>a, <1>b, <2>1, <2>2, <4>1 DEF Counting, StartNonce
      <4>3. \A n \in BlockOf(b) : created'[n] = created[n]
        <5> TAKE n \in BlockOf(b)
        <5>1. n # next
          BY <2>4, <3>2, BlocksDisjoint
        <5>2. n \in Nonces
          BY StartType DEF BlockOf, Nonces
        <5> QED BY <2>6, <5>1, <5>2 DEF TypeOK
      <4>4. Fresh(b)'
        BY <1>a, <2>1, <4>1, <4>3 DEF Fresh, MayYetCreate, BlockOf, StartNonce
      <4> QED BY <4>2, <4>4
    <3> QED BY <3>1, <3>2
  <2> QED BY <1>a, <2>1, <2>8, <2>9 DEF OwnBlocks
<1>2. ASSUME NEW a \in Accounts, SetCreator(a) PROVE OwnBlocks'
  <2>1. UNCHANGED <<created, creates, stopped, command, message, unset>>
    BY <1>2 DEF SetCreator, minting, traffic
  <2>2. /\ ~stopped /\ a \notin creators /\ creators' = creators \cup {a}
        /\ copies' = [copies EXCEPT ![a] = @ + 1]
        /\ latestNonce' = [latestNonce EXCEPT ![a] = StartNonce(a)]
    BY <1>2 DEF SetCreator, NonceAfterRoleChange
  <2>3. copies[a] = 0
    BY <1>a, <2>2 DEF Counting
  <2>4. /\ copies'[a] = 1 /\ latestNonce'[a] = StartNonce(a)
        /\ \A b \in Accounts \ {a} : copies'[b] = copies[b] /\ latestNonce'[b] = latestNonce[b]
    BY <2>2, <2>3 DEF TypeOK
  <2>5. ASSUME NEW b \in Accounts PROVE Counting(b)' /\ Fresh(b)'
    <3>1. CASE b = a
      <4>1. Counting(b)'
        BY <1>b, <2>1, <2>2, <2>4, <3>1 DEF Counting, StartNonce
      <4>2. \A n \in BlockOf(b) : created[n] = 0
        BY <1>a, <2>2, <2>3, <3>1 DEF Fresh, MayYetCreate
      <4> QED BY <2>1, <4>1, <4>2 DEF Fresh, BlockOf, StartNonce
    <3>2. CASE b # a
      <4>1. copies'[b] = copies[b] /\ latestNonce'[b] = latestNonce[b] /\ (b \in creators' <=> b \in creators)
        BY <2>2, <2>4, <3>2
      <4> QED BY <1>a, <2>1, <4>1 DEF Counting, Fresh, MayYetCreate, BlockOf, StartNonce
    <3> QED BY <3>1, <3>2
  <2>6. \A b \in Accounts : copies'[b] <= 1
    BY <1>a, <2>4
  <2> QED BY <1>a, <2>1, <2>2, <2>5, <2>6 DEF OwnBlocks, UniqueNonces
<1>3. ASSUME NEW a \in Accounts, UnSetCreator(a) PROVE OwnBlocks'
  <2>1. UNCHANGED <<created, creates, creators, stopped, command, message>> /\ unset' = unset \ {a}
    BY <1>3 DEF UnSetCreator, minting, record
  <2>2. /\ copies' = [copies EXCEPT ![a] = IF @ > 0 THEN @ - 1 ELSE 0]
        /\ latestNonce' = [latestNonce EXCEPT ![a] = StartNonce(a)]
    BY <1>3 DEF UnSetCreator, RoleTaken, NonceAfterRoleChange
  <2>3. /\ copies'[a] = 0
        /\ \A b \in Accounts \ {a} : copies'[b] = copies[b] /\ latestNonce'[b] = latestNonce[b]
    BY <1>a, <2>2 DEF TypeOK
  <2>4. ASSUME NEW b \in Accounts PROVE Counting(b)' /\ Fresh(b)'
    <3>1. CASE b = a
      <4>1. a \notin creators => copies[a] = 0
        BY <1>a DEF Counting
      <4>2. a \notin creators => \A n \in BlockOf(a) : created[n] = 0
        BY <1>a, <4>1 DEF Fresh, MayYetCreate
      <4> QED BY <2>1, <2>3, <3>1, <4>2 DEF Counting, Fresh, MayYetCreate, BlockOf, StartNonce
    <3>2. CASE b # a
      <4>1. copies'[b] = copies[b] /\ latestNonce'[b] = latestNonce[b]
        BY <2>3, <3>2
      <4> QED BY <1>a, <2>1, <4>1 DEF Counting, Fresh, MayYetCreate, BlockOf, StartNonce
    <3> QED BY <3>1, <3>2
  <2>5. \A b \in Accounts : copies'[b] <= 1 /\ (stopped' /\ copies'[b] > 0 => b \in unset')
    BY <1>a, <2>1, <2>3
  <2> QED BY <1>a, <2>1, <2>4, <2>5 DEF OwnBlocks, UniqueNonces
<1>4. ASSUME StopCreate PROVE OwnBlocks'
  <2>1. UNCHANGED <<copies, latestNonce, created, creates, creators, command, message>> /\ unset' = creators
    BY <1>4 DEF StopCreate, held, minting
  <2>2. \A b \in Accounts : copies'[b] > 0 => b \in unset'
    BY <1>a, <2>1 DEF Counting
  <2>3. \A b \in Accounts : Counting(b)' /\ Fresh(b)'
    BY <1>a, <2>1 DEF Counting, Fresh, MayYetCreate, BlockOf, StartNonce
  <2> QED BY <1>a, <2>1, <2>2, <2>3 DEF OwnBlocks, UniqueNonces
<1>5. ASSUME ChangeAtCurrentOwner \/ ChangeAtNextOwner \/ \E b \in Accounts : OrderTransfer(b)
      PROVE  FALSE
  BY <1>a, <1>5 DEF ChangeAtCurrentOwner, ChangeAtNextOwner, OrderTransfer
<1>6. CASE UNCHANGED vars
  <2>1. UNCHANGED <<copies, latestNonce, created, creates, creators, stopped, command, message, unset>>
    BY <1>6 DEF vars, held, minting, record, traffic
  <2>2. \A b \in Accounts : Counting(b)' /\ Fresh(b)'
    BY <1>a, <2>1 DEF Counting, Fresh, MayYetCreate, BlockOf, StartNonce
  <2> QED BY <1>a, <2>1, <2>2 DEF OwnBlocks, UniqueNonces
<1> QED BY <1>1, <1>2, <1>3, <1>4, <1>5, <1>6 DEF Next

-----------------------------------------------------------------------------
(* The theorems *)

LEMMA Inductive == Spec => []IInv
<1>1. Init => IInv
  BY TypeInit, HandOverInit, OwnBlocksInit DEF IInv
<1>2. IInv /\ [Next]_vars => IInv'
  BY TypeStep, HandOverStep, OwnBlocksStep DEF IInv
<1> QED BY <1>1, <1>2, PTL DEF Spec

(* The types of every reachable state: no nonce leaves the uint64 range. *)
THEOREM TypeCorrect == Spec => []TypeOK
<1>1. IInv => TypeOK
  BY DEF IInv
<1> QED BY <1>1, Inductive, PTL

(* No nonce is used twice, with one creator handing the role on as with many
   creators in blocks of their own. *)
THEOREM NoncesUnique == Spec => []UniqueNonces
<1>1. IInv => UniqueNonces
  BY DEF IInv, HandOver, CreatedExactly, OwnBlocks, UniqueNonces
<1> QED BY <1>1, Inductive, PTL

(* With one creator the nonces used are exactly those from 1 to the number of
   NFTs created. *)
THEOREM Gapless == Spec => []NoncesGapless
<1>1. IInv => NoncesGapless
  <2> SUFFICES ASSUME IInv, ~MultiShard
               PROVE  {n \in Nonces : created[n] > 0} = 1..creates
    BY DEF NoncesGapless
  <2>1. creates \in Nat /\ creates <= MaxNonce
    BY StartType DEF IInv, TypeOK
  <2>2. \A n \in 1..creates : n \in Nonces
    BY <2>1 DEF Nonces
  <2>3. \A n \in Nonces : created[n] > 0 <=> n \in 1..creates
    BY DEF IInv, HandOver, CreatedExactly
  <2> QED BY <2>2, <2>3
<1> QED BY <1>1, Inductive, PTL

(* The role of the one creator is in exactly one place until creation stops. *)
THEOREM RoleNeverDoubled == Spec => []RoleInOnePlace
<1>1. IInv => RoleInOnePlace
  <2> SUFFICES ASSUME IInv, ~MultiShard,
                      NEW h \in Accounts, creators = {h},
                      Settled(h) \/ Ordered(h) \/ Travelling(h)
               PROVE  \E c \in Accounts \cup Messages :
                        Carriers = IF stopped /\ unset = {} THEN {} ELSE {c}
    BY DEF RoleInOnePlace, IInv, HandOver
  <2>1. CASE Settled(h)
    <3>1. Carriers = IF stopped /\ unset = {} THEN {} ELSE {h}
      BY <2>1 DEF Settled, Carriers
    <3> QED BY <3>1
  <2>2. CASE Ordered(h)
    <3>1. command.at \in Accounts
      BY <2>2 DEF Ordered, IInv, TypeOK, Commands
    <3>2. Carriers = {command.at} /\ ~stopped
      BY <2>2, <3>1 DEF Ordered, Carriers
    <3> QED BY <3>1, <3>2
  <2>3. CASE Travelling(h)
    <3>1. message \in Messages
      BY <2>3 DEF Travelling, IInv, TypeOK
    <3>2. Carriers = {message} /\ ~stopped
      BY <2>3 DEF Travelling, Carriers
    <3> QED BY <3>1, <3>2
  <2> QED BY <2>1, <2>2, <2>3
<1> QED BY <1>1, Inductive, PTL

(* Once the last ESDTUnSetRole arrived nobody may create. *)
THEOREM StopIsFinal == Spec => []StopEndsCreation
<1>1. IInv => StopEndsCreation
  <2>1. CASE MultiShard
    BY <2>1 DEF IInv, TypeOK, OwnBlocks, StopEndsCreation
  <2>2. CASE ~MultiShard
    BY <2>2 DEF IInv, HandOver, Settled, Ordered, Travelling, StopEndsCreation
  <2> QED BY <2>1, <2>2
<1> QED BY <1>1, Inductive, PTL

(* Nonces are in their range and unique, in every reachable state. *)
THEOREM NoncesAlwaysHold == Spec => []NoncesHold
<1>1. TypeOK /\ UniqueNonces => NoncesHold
  BY DEF NoncesHold
<1> QED BY <1>1, TypeCorrect, NoncesUnique, PTL

-----------------------------------------------------------------------------
(* The book with one pen *)

LEMMA BookInit == ASSUME ~MultiShard PROVE Init => Book!Init
<1> SUFFICES ASSUME Init PROVE Book!Init
  OBVIOUS
<1>1. creators = {FirstOwner} /\ copies = Book!HeldBy(creators)
  BY DEF Init, Book!HeldBy
<1> QED BY <1>1 DEF Init, Book!Init

(* Whoever is the only one with a copy of the role holds the pen. *)
LEMMA Holds ==
    ASSUME TypeOK, NEW some,
           \A a \in Accounts : copies[a] = IF a \in some THEN 1 ELSE 0
    PROVE  copies = Book!HeldBy(some)
BY DEF TypeOK, Book!HeldBy

(* One action of the book, or none, for each action of the shards. *)
LEMMA BookStep ==
    ASSUME ~MultiShard
    PROVE  TypeOK /\ HandOver /\ [Next]_vars => [Book!Next]_(Book!vars)
<1> SUFFICES ASSUME TypeOK, HandOver, [Next]_vars PROVE [Book!Next]_(Book!vars)
  OBVIOUS
<1> DEFINE Goal == [Book!Next]_(Book!vars)
<1>a. PICK h \in Accounts : creators = {h} /\ (Settled(h) \/ Ordered(h) \/ Travelling(h))
  BY DEF HandOver
<1>b. TypeOK' /\ HandOver'
  BY TypeStep, HandOverStep
<1>c. PICK k \in Accounts : creators' = {k} /\ (Settled(k)' \/ Ordered(k)' \/ Travelling(k)')
  BY <1>b DEF HandOver
<1>d. SUFFICES Goal
  OBVIOUS
<1>1. ASSUME NEW a \in Accounts, Create(a) PROVE Goal
  <2>1. /\ UNCHANGED <<copies, creators, stopped, message>>
        /\ creates' = creates + 1 /\ copies[a] > 0
    BY <1>1 DEF Create, record, traffic
  <2>2. \A c \in Accounts : copies[c] = IF c \in {a} THEN 1 ELSE 0
    BY <1>a, <2>1 DEF Settled, Ordered, Travelling
  <2>3. copies = Book!HeldBy({a})
    BY <2>2, Holds
  <2>4. creates' \in Nonces
    <3>1. MaxCreates <= MaxNonce /\ creates' \in 0..MaxCreates
      BY <1>b, StartType DEF TypeOK
    <3> QED BY <3>1 DEF Nonces
  <2>5. created' = [created EXCEPT ![creates'] = 1]
    <3>1. /\ \A n \in Nonces : created[n] = IF n \in 1..creates THEN 1 ELSE 0
          /\ \A n \in Nonces : created'[n] = IF n \in 1..(creates + 1) THEN 1 ELSE 0
      BY <1>b, <2>1 DEF HandOver, CreatedExactly
    <3>2. created' \in [Nonces -> Nat] /\ created \in [Nonces -> Nat] /\ creates \in Nat
      BY <1>b DEF TypeOK
    <3>3. \A n \in Nonces : n # creates + 1 => created'[n] = created[n]
      <4> SUFFICES ASSUME NEW n \in Nonces, n # creates + 1 PROVE created'[n] = created[n]
        OBVIOUS
      <4>1. \A c \in Nat, x \in Int : x # c + 1 => (x \in 1..(c + 1) <=> x \in 1..c)
        OBVIOUS
      <4>2. n \in Int
        BY DEF Nonces
      <4>3. n \in 1..(creates + 1) <=> n \in 1..creates
        BY <3>2, <4>1, <4>2
      <4> QED BY <3>1, <4>3
    <3>4. created'[creates + 1] = 1 /\ creates + 1 \in Nonces
      BY <2>1, <2>4, <3>1, <3>2
    <3>5. created' = [created EXCEPT ![creates + 1] = 1]
      BY <3>2, <3>3, <3>4
    <3> QED BY <2>1, <3>5
  <2>6. Book!Create
    BY <2>1, <2>3, <2>4, <2>5 DEF Book!Create
  <2> QED BY <2>6 DEF Book!Next
<1>2. ASSUME NEW a \in Accounts, SetCreator(a) PROVE Goal
  BY <1>2 DEF SetCreator
<1>3. ASSUME NEW a \in Accounts, UnSetCreator(a) PROVE Goal
  <2>1. Settled(h) /\ a = h /\ unset = {h} /\ stopped
    <3>1. a \in unset
      BY <1>3 DEF UnSetCreator
    <3> QED BY <3>1, <1>a DEF Settled, Ordered, Travelling
  <2>2. UNCHANGED <<created, creates, creators, stopped, message>>
    BY <1>3 DEF UnSetCreator, minting, record
  <2>3. copies' = [copies EXCEPT ![h] = IF @ > 0 THEN @ - 1 ELSE 0]
    BY <1>3, <2>1 DEF UnSetCreator, RoleTaken
  <2>4. copies' = Book!HeldBy({})
    <3>1. \A c \in Accounts : copies[c] = IF c = h THEN 1 ELSE 0
      BY <2>1 DEF Settled
    <3>2. \A c \in Accounts : copies'[c] = 0
      BY <2>3, <3>1 DEF TypeOK
    <3> QED BY <1>b, <3>2 DEF TypeOK, Book!HeldBy
  <2>5. Book!PutAway
    BY <2>1, <2>2, <2>4 DEF Book!PutAway
  <2> QED BY <2>5 DEF Book!Next
<1>4. ASSUME NEW b \in Accounts, OrderTransfer(b) PROVE Goal
  <2>1. /\ UNCHANGED <<copies, created, creates, stopped, message>>
        /\ ~stopped /\ command = NoCommand /\ message = NoMessage /\ creators' = {b}
    BY <1>4 DEF OrderTransfer, held, minting, Idle
  <2>2. \A a \in Accounts : copies[a] = IF a \in creators THEN 1 ELSE 0
    <3>1. Settled(h)
      BY <1>a, <2>1 DEF Ordered, Travelling
    <3> QED BY <1>a, <2>1, <3>1 DEF Settled
  <2>3. copies = Book!HeldBy(creators)
    BY <2>2, Holds
  <2>4. Book!Name(b)
    BY <2>1, <2>3 DEF Book!Name
  <2> QED BY <2>4 DEF Book!Next
<1>5. ASSUME ChangeAtCurrentOwner PROVE Goal
  <2>1. Ordered(h)
    BY <1>5, <1>a DEF ChangeAtCurrentOwner, Settled, Travelling
  <2>2. UNCHANGED <<created, creates, creators, stopped>> /\ command' = NoCommand
    BY <1>5 DEF ChangeAtCurrentOwner, minting, record
  <2>3. h = k /\ ~stopped /\ message = NoMessage
    BY <1>a, <1>c, <2>1, <2>2 DEF Ordered
  <2>4. CASE message' = NoMessage
    <3>1. Settled(k)'
      BY <1>c, <2>2, <2>4 DEF Ordered, Travelling
    <3>2. copies' = Book!HeldBy(creators)
      BY <1>a, <1>b, <2>2, <2>3, <3>1 DEF Settled, TypeOK, Book!HeldBy
    <3>3. Book!HandOver
      BY <2>2, <2>3, <2>4, <3>2 DEF Book!HandOver
    <3> QED BY <3>3 DEF Book!Next
  <2>5. CASE message' # NoMessage
    <3>1. Travelling(k)'
      BY <1>c, <2>5 DEF Settled, Ordered
    <3>2. copies' = Book!HeldBy({})
      BY <1>b, <3>1 DEF Travelling, TypeOK, Book!HeldBy
    <3>3. Book!Send
      BY <2>2, <2>3, <2>5, <3>2 DEF Book!Send
    <3> QED BY <3>3 DEF Book!Next
  <2> QED BY <2>4, <2>5
<1>6. ASSUME ChangeAtNextOwner PROVE Goal
  <2>1. UNCHANGED <<created, creates, creators, stopped, command>>
        /\ message # NoMessage /\ message' = NoMessage
    BY <1>6 DEF ChangeAtNextOwner, minting, record
  <2>2. h = k /\ ~stopped /\ command = NoCommand
    BY <1>a, <1>c, <2>1 DEF Settled, Ordered, Travelling
  <2>3. Settled(k)'
    BY <1>c, <2>1, <2>2 DEF Ordered, Travelling
  <2>4. copies' = Book!HeldBy(creators)
    BY <1>a, <1>b, <2>1, <2>2, <2>3 DEF Settled, TypeOK, Book!HeldBy
  <2>5. Book!Receive
    BY <2>1, <2>4 DEF Book!Receive
  <2> QED BY <2>5 DEF Book!Next
<1>7. ASSUME StopCreate PROVE Goal
  <2>1. /\ UNCHANGED <<copies, created, creates, creators, message>>
        /\ ~stopped /\ stopped' /\ command = NoCommand /\ message = NoMessage
    BY <1>7 DEF StopCreate, held, minting, Idle
  <2>2. \A a \in Accounts : copies[a] = IF a \in creators THEN 1 ELSE 0
    <3>1. Settled(h)
      BY <1>a, <2>1 DEF Ordered, Travelling
    <3> QED BY <1>a, <2>1, <3>1 DEF Settled
  <2>3. copies = Book!HeldBy(creators)
    BY <2>2, Holds
  <2>4. Book!End
    BY <2>1, <2>3, <1>7 DEF Book!End, StopCreate
  <2> QED BY <2>4 DEF Book!Next
<1>8. CASE UNCHANGED vars
  BY <1>8 DEF vars, held, minting, record, traffic, Book!vars
<1> QED BY <1>1, <1>2, <1>3, <1>4, <1>5, <1>6, <1>7, <1>8 DEF Next

(* With one creator the shards, between which role and nonce travel in a message,
   implement the book in which a pen is handed on. *)
THEOREM ImplementsBook == ASSUME ~MultiShard PROVE Spec => BookSpec
<1>1. TypeOK /\ HandOver /\ [Next]_vars => [Book!Next]_(Book!vars)
  BY BookStep
<1>2. IInv => TypeOK /\ HandOver
  BY DEF IInv
<1> QED BY <1>1, <1>2, BookInit, Inductive, PTL DEF Spec, BookSpec, Book!Spec
=============================================================================
