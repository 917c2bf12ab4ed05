---------------------------- MODULE WalletProofs ----------------------------
(***************************************************************************)
(* Proofs about the wallet, for every set of clients, names and keys, and  *)
(* any number of calls, crashes and starts.                                *)
(***************************************************************************)
EXTENDS Wallet, Sums, FiniteSetTheorems, SequenceTheorems, TLAPS

Keys == Nat \X Nat
AccountName == Nat \X Nat
AccountType == [key : Keys, name : AccountName, imported : BOOLEAN]
WalletType == [seed : Nat, pass : Passphrases \cup {""}, child : Seq(AccountType)]
CallType ==
    [op : {"idle", "create", "import", "remove", "fee"},
     pc : {"idle", "list", "assign", "save", "open", "write"},
     list : Seq(AccountType), key : Keys \cup {<<>>}, name : AccountName \cup {<<>>}, data : WalletType]

\* The type of the state.
WalletTypeOK ==
    /\ wallet \in WalletType
    /\ file \in [kind : {"none", "empty", "part", "full"}, data : WalletType]
    /\ running \in BOOLEAN
    /\ call \in [Clients -> CallType]
    /\ seeds \in Nat /\ due \in SUBSET Keys
    /\ calls \in Nat /\ crashes \in Nat
    /\ blame \in SUBSET {"overlap", "removed", "torn", "reinit", "ahead"}

Clean == blame \cap {"overlap", "torn", "reinit"} = {}

\* A call that is served is at one of its steps, and knows its key.
CallsAreServed ==
    \A c \in Clients :
        /\ call[c].pc = "idle" <=> call[c].op = "idle"
        /\ call[c].op \in {"create", "import", "remove"} => call[c].key \in Keys
        /\ call[c].op \in {"create", "import"} => call[c].name \in AccountName
        /\ call[c].pc \in {"list", "assign"} => call[c].op \in {"create", "import", "remove"}
        /\ call[c].pc = "idle" => call[c] = Idle
        /\ call[c].pc # "idle" => running

\* While calls come one at a time, one is served.
OneCall == Clean => \A c, d \in Clients : call[c].pc # "idle" /\ call[d].pc # "idle" => c = d

\* What the file holds, but for the time between opening and writing it.
FileHolds ==
    Clean =>
        /\ file.kind = "none" => due = {} /\ ~running
        /\ file.kind = "full" => due \subseteq KeysOf(file.data.child)
        /\ file.kind # "part"
        /\ \A c \in Clients : call[c].pc = "write" => file.kind = "empty"

\* What the wallet in memory holds between the calls, and at each step of one.
MemoryHolds ==
    Clean /\ running =>
        /\ (\A c \in Clients : call[c].pc \in {"idle", "list", "assign"}) =>
               due \subseteq KeysOf(wallet.child)
        /\ \A c \in Clients :
             /\ call[c].pc = "assign" => DueAfter(c) \subseteq KeysOf(call[c].list)
             /\ call[c].pc \in {"save", "open", "write"} => DueAfter(c) \subseteq KeysOf(wallet.child)
             /\ call[c].pc \in {"open", "write"} => DueAfter(c) \subseteq KeysOf(call[c].data.child)

WalletInv == WalletTypeOK /\ CallsAreServed /\ OneCall /\ FileHolds /\ MemoryHolds

-----------------------------------------------------------------------------
\* Lists of accounts.

\* A list with one more account has its key and those it had.
LEMMA AppendKeepsKeys ==
    ASSUME NEW child \in Seq(AccountType), NEW a \in AccountType
    PROVE  /\ Append(child, a) \in Seq(AccountType)
           /\ KeysOf(child) \cup {a.key} \subseteq KeysOf(Append(child, a))
<1> DEFINE new == Append(child, a)
<1>1. /\ new \in Seq(AccountType)
      /\ Len(new) = Len(child) + 1
      /\ \A i \in 1 .. Len(child) : new[i] = child[i]
      /\ new[Len(child) + 1] = a
  BY AppendProperties
<1> HIDE DEF new
<1>2. /\ Len(child) \in Nat
      /\ DOMAIN child = 1 .. Len(child) /\ DOMAIN new = 1 .. Len(child) + 1
  BY <1>1, LenProperties
<1>3. ASSUME NEW i \in DOMAIN child PROVE child[i].key \in KeysOf(new)
  <2>1. i \in DOMAIN new /\ new[i] = child[i]
    BY <1>1, <1>2
  <2> QED BY <2>1 DEF KeysOf
<1>4. a.key \in KeysOf(new)
  <2>1. Len(child) + 1 \in DOMAIN new
    BY <1>2
  <2> QED BY <2>1, <1>1 DEF KeysOf
<1>5. KeysOf(child) \subseteq KeysOf(new)
  BY <1>3 DEF KeysOf
<1> QED BY <1>1, <1>4, <1>5 DEF new

\* A list without one of its accounts has all keys but that account's.
LEMMA RemoveKeepsKeys ==
    ASSUME NEW child \in Seq(AccountType), NEW i \in DOMAIN child
    PROVE  /\ RemoveAt(child, i) \in Seq(AccountType)
           /\ KeysOf(child) \ {child[i].key} \subseteq KeysOf(RemoveAt(child, i))
<1> DEFINE n == Len(child)
           before == SubSeq(child, 1, i - 1)
           after == SubSeq(child, i + 1, n)
           new == before \o after
<1>1. n \in Nat /\ DOMAIN child = 1 .. n /\ \A j \in 1 .. n : child[j] \in AccountType
  BY LenProperties, ElementOfSeq
<1>2. i \in 1 .. n
  BY <1>1
<1>3. /\ before \in Seq(AccountType) /\ Len(before) = i - 1
      /\ \A j \in 1 .. i - 1 : before[j] = child[j]
  <2>1. 1 \in Int /\ i - 1 \in Int /\ \A j \in 1 .. i - 1 : child[j] \in AccountType
    BY <1>1, <1>2
  <2>2. /\ before \in Seq(AccountType)
        /\ Len(before) = IF 1 <= i - 1 THEN i - 1 - 1 + 1 ELSE 0
        /\ \A j \in 1 .. i - 1 - 1 + 1 : before[j] = child[1 + j - 1]
    BY <2>1, SubSeqProperties
  <2> HIDE DEF before
  <2> QED BY <2>2, <1>1, <1>2
<1>4. /\ after \in Seq(AccountType) /\ Len(after) = n - i
      /\ \A j \in 1 .. n - i : after[j] = child[i + j]
  <2>1. i + 1 \in Int /\ n \in Int /\ \A j \in i + 1 .. n : child[j] \in AccountType
    BY <1>1, <1>2
  <2>2. /\ after \in Seq(AccountType)
        /\ Len(after) = IF i + 1 <= n THEN n - (i + 1) + 1 ELSE 0
        /\ \A j \in 1 .. n - (i + 1) + 1 : after[j] = child[i + 1 + j - 1]
    BY <2>1, SubSeqProperties
  <2> HIDE DEF after
  <2>3. Len(after) = n - i
    <3>1. i \in Int /\ n \in Int /\ i <= n
      BY <1>1, <1>2
    <3>2. Len(after) = IF i + 1 <= n THEN n - (i + 1) + 1 ELSE 0
      BY <2>2
    <3> HIDE DEF n
    <3> QED BY <3>1, <3>2
  <2>4. ASSUME NEW j \in 1 .. n - i PROVE after[j] = child[i + j]
    <3>1. j \in 1 .. n - (i + 1) + 1 /\ i + 1 + j - 1 = i + j
      BY <1>1, <1>2
    <3>2. after[j] = child[i + 1 + j - 1]
      BY <2>2, <3>1
    <3> QED BY <3>1, <3>2
  <2> QED BY <2>2, <2>3, <2>4
<1> HIDE DEF before, after
<1>5. /\ new \in Seq(AccountType)
      /\ Len(new) = Len(before) + Len(after)
      /\ \A j \in 1 .. Len(before) + Len(after) :
            new[j] = IF j <= Len(before) THEN before[j] ELSE after[j - Len(before)]
  BY <1>3, <1>4, ConcatProperties
<1> HIDE DEF new
<1>6. DOMAIN new = 1 .. n - 1
  BY <1>3, <1>4, <1>5, <1>1, <1>2, LenProperties
<1>7. ASSUME NEW j \in 1 .. n, child[j].key # child[i].key
      PROVE  child[j].key \in KeysOf(new)
  <2>1. CASE j < i
    <3>1. j \in 1 .. i - 1 /\ j \in DOMAIN new /\ j <= Len(before)
      BY <2>1, <1>1, <1>2, <1>3, <1>6
    <3>2. j \in 1 .. Len(before) + Len(after)
      BY <3>1, <1>1, <1>2, <1>3, <1>4
    <3>3. new[j] = before[j] /\ before[j] = child[j]
      BY <3>1, <3>2, <1>3, <1>5
    <3> QED BY <3>1, <3>3 DEF KeysOf
  <2>2. CASE j > i
    <3>1. j - 1 \in DOMAIN new
      BY <2>2, <1>1, <1>2, <1>6
    <3>2. new[j - 1] = after[j - 1 - (i - 1)]
      BY <2>2, <3>1, <1>1, <1>2, <1>3, <1>4, <1>5
    <3>3. j - 1 - (i - 1) = j - i /\ j - i \in 1 .. n - i
      BY <2>2, <1>1, <1>2
    <3>4. new[j - 1] = child[j]
      BY <3>2, <3>3, <1>4, <1>2, <1>1
    <3> QED BY <3>1, <3>4 DEF KeysOf
  <2>3. j # i
    BY <1>7
  <2> QED BY <2>1, <2>2, <2>3, <1>1, <1>2
<1>8. KeysOf(child) \ {child[i].key} \subseteq KeysOf(new)
  BY <1>1, <1>7 DEF KeysOf
<1>9. RemoveAt(child, i) = new
  BY DEF RemoveAt, new, before, after
<1> QED BY <1>5, <1>8, <1>9

\* RemoveAccount takes no other key out of the list.
LEMMA WithoutFirstKeepsKeys ==
    ASSUME NEW child \in Seq(AccountType), NEW key
    PROVE  /\ WithoutFirst(child, key) \in Seq(AccountType)
           /\ KeysOf(child) \ {key} \subseteq KeysOf(WithoutFirst(child, key))
<1>1. CASE ~HasKey(child, key)
  BY <1>1 DEF WithoutFirst
<1>2. CASE HasKey(child, key)
  <2> DEFINE S == {j \in DOMAIN child : child[j].key = key}
             R == OpToRel(<, Nat)
  <2>1. S \in SUBSET Nat /\ S # {}
    BY <1>2, LenProperties DEF HasKey
  <2>2. PICK x \in S : \A y \in S : ~(<<y, x>> \in R)
    BY <2>1, NatLessThanWellFounded, WFMin, Zenon
  <2>3. \A y \in S : x <= y
    <3>1. ASSUME NEW y \in S PROVE x <= y
      <4>1. y \in Nat /\ x \in Nat /\ ~(y < x)
        BY <2>1, <2>2 DEF OpToRel
      <4> QED BY <4>1
    <3> QED BY <3>1
  <2> HIDE DEF S, R
  <2>4. Min(S) \in S
    BY <2>2, <2>3 DEF Min
  <2>5. Min(S) \in DOMAIN child /\ child[Min(S)].key = key
    BY <2>4 DEF S
  <2>6. WithoutFirst(child, key) = RemoveAt(child, Min(S))
    BY <1>2 DEF WithoutFirst, S
  <2> QED BY <2>5, <2>6, RemoveKeepsKeys
<1> QED BY <1>1, <1>2

\* The wallets that Init makes.
LEMMA NewWalletHasItsKey ==
    ASSUME NEW seed \in Nat, NEW pass \in Passphrases
    PROVE  /\ NewWallet(seed, pass) \in WalletType
           /\ <<seed, 0>> \in KeysOf(NewWallet(seed, pass).child)
<1> DEFINE a == Account(<<seed, 0>>, DefaultName(0), FALSE)
<1>1. a \in AccountType /\ a.key = <<seed, 0>>
  BY DEF Account, AccountType, Keys, AccountName, DefaultName
<1> HIDE DEF a
<1>2. <<a>> \in Seq(AccountType) /\ DOMAIN <<a>> = {1} /\ <<a>>[1] = a
  BY <1>1
<1>3. NewWallet(seed, pass) = [seed |-> seed, pass |-> pass, child |-> <<a>>]
  BY DEF NewWallet, a
<1>4. <<seed, 0>> \in KeysOf(<<a>>)
  BY <1>1, <1>2 DEF KeysOf
<1>5. NewWallet(seed, pass).child = <<a>>
  BY <1>3
<1>6. NewWallet(seed, pass) \in WalletType
  <2> DEFINE child == <<a>>
  <2>1. child \in Seq(AccountType)
    BY <1>2
  <2> HIDE DEF child
  <2>2. [seed |-> seed, pass |-> pass, child |-> child] \in WalletType
    BY <2>1 DEF WalletType
  <2> QED BY <1>3, <2>2 DEF child
<1> QED BY <1>4, <1>5, <1>6

LEMMA NoWalletType ==
    /\ NoWallet \in WalletType
    /\ Idle \in CallType /\ Idle.op = "idle" /\ Idle.pc = "idle"
<1>1. <<>> \in Seq(AccountType)
  BY EmptySeq
<1>2. NoWallet \in WalletType
  BY <1>1 DEF NoWallet, WalletType
<1> QED BY <1>1, <1>2 DEF Idle, CallType

-----------------------------------------------------------------------------
\* The steps.

LEMMA InitWalletInv == WalletInit => WalletInv
<1> SUFFICES ASSUME WalletInit PROVE WalletInv
  OBVIOUS
<1>1. /\ wallet = NoWallet /\ running = FALSE /\ call = [c \in Clients |-> Idle]
      /\ calls = 0 /\ crashes = 0 /\ blame = {}
  BY DEF WalletInit
<1>2. /\ file.kind \in {"none", "full"} /\ file = [kind |-> file.kind, data |-> file.data]
      /\ file.data \in WalletType /\ seeds \in Nat /\ due \in SUBSET Keys
      /\ file.kind = "none" => due = {}
      /\ file.kind = "full" => due \subseteq KeysOf(file.data.child)
  <2>1. CASE file = [kind |-> "none", data |-> NoWallet] /\ seeds = 0 /\ due = {}
    BY <2>1, NoWalletType
  <2>2. CASE /\ \E pass \in Passphrases : file = [kind |-> "full", data |-> NewWallet(1, pass)]
             /\ seeds = 1 /\ due = {<<1, 0>>}
    <3>1. PICK pass \in Passphrases : file = [kind |-> "full", data |-> NewWallet(1, pass)]
      BY <2>2
    <3>2. NewWallet(1, pass) \in WalletType /\ <<1, 0>> \in KeysOf(NewWallet(1, pass).child)
      BY NewWalletHasItsKey
    <3> QED BY <2>2, <3>1, <3>2 DEF Keys
  <2> QED BY <2>1, <2>2 DEF WalletInit
<1>3. WalletTypeOK
  <2>1. file \in [kind : {"none", "empty", "part", "full"}, data : WalletType]
    BY <1>2
  <2> QED BY <1>1, <1>2, <2>1, NoWalletType DEF WalletTypeOK
<1>4. \A c \in Clients : call[c] = Idle /\ call[c].op = "idle" /\ call[c].pc = "idle"
  BY <1>1, NoWalletType
<1> QED BY <1>1, <1>2, <1>3, <1>4 DEF WalletInv, CallsAreServed, OneCall, FileHolds, MemoryHolds

\* While calls come one at a time, the others are idle.
LEMMA OthersIdle ==
    ASSUME WalletInv, Clean, NEW c \in Clients, call[c].pc # "idle"
    PROVE  \A d \in Clients : d # c => call[d].pc = "idle"
BY DEF WalletInv, OneCall

\* A call that begins finds what the callers count on in memory and on disk.
LEMMA StartKeeps ==
    ASSUME WalletInv, NEW c \in Clients, NEW request \in CallType, Starts(c, request),
           \/ request.op = "fee" /\ request.pc = "save"
           \/ request.op \in {"create", "import", "remove"} /\ request.pc = "list" /\ request.key \in Keys,
           request.op \in {"create", "import"} => request.name \in AccountName
    PROVE  WalletInv'
<1>1. /\ running /\ call' = [call EXCEPT ![c] = request]
      /\ UNCHANGED <<wallet, file, running, seeds, crashes, due>>
      /\ calls' = calls + 1
      /\ blame' = blame \cup (IF \E d \in Clients : call[d] # Idle THEN {"overlap"} ELSE {})
                        \cup (IF request.op = "remove" THEN {"removed"} ELSE {})
                        \cup (IF IsAhead(request.name) THEN {"ahead"} ELSE {})
  BY DEF Starts
<1>2. /\ call \in [Clients -> CallType] /\ call' \in [Clients -> CallType]
      /\ call'[c] = request /\ \A d \in Clients : d # c => call'[d] = call[d]
  BY <1>1 DEF WalletInv, WalletTypeOK
<1>3. WalletTypeOK'
  BY <1>1, <1>2 DEF WalletInv, WalletTypeOK
<1>4. CallsAreServed'
  BY <1>1, <1>2 DEF WalletInv, CallsAreServed
<1>5. Clean' => Clean /\ \A d \in Clients : call[d] = Idle /\ call[d].pc = "idle"
  BY <1>1, NoWalletType DEF Clean
<1>6. Clean' => \A d \in Clients : d # c => call'[d].pc = "idle"
  BY <1>2, <1>5
<1>7. OneCall'
  BY <1>6 DEF OneCall
<1>8. FileHolds'
  BY <1>1, <1>2, <1>5, <1>6 DEF WalletInv, FileHolds
<1>9. MemoryHolds'
  <2>1. SUFFICES ASSUME Clean' PROVE MemoryHolds'
    BY DEF MemoryHolds
  <2>2. due \subseteq KeysOf(wallet.child)
    BY <2>1, <1>1, <1>5 DEF WalletInv, MemoryHolds
  <2>3. request.op = "fee" => DueAfter(c)' = due
    BY <1>1, <1>2 DEF DueAfter
  <2> QED BY <2>1, <2>2, <2>3, <1>1, <1>2, <1>6 DEF MemoryHolds
<1> QED BY <1>3, <1>4, <1>7, <1>8, <1>9 DEF WalletInv

\* The calls of the RPC server.
LEMMA CallsStartRight ==
    ASSUME WalletInv, NEW c \in Clients,
           \/ \E name \in Names : GetAccountAddress(c, name)
           \/ \E k \in Foreign, name \in Names : ImportAccount(c, <<0, k>>, name)
           \/ \E k \in due : ImportAccount(c, k, <<1, 0>>)
           \/ \E key \in due : RemoveAccount(c, key)
           \/ SetTxFee(c)
    PROVE  WalletInv'
<1>1. /\ wallet.seed \in Nat /\ Len(wallet.child) \in Nat /\ due \subseteq Keys
  BY LenProperties DEF WalletInv, WalletTypeOK, WalletType
<1>2. Names \subseteq AccountName /\ \A n \in Nat : DefaultName(n) \in AccountName
  BY WalletAssumption DEF Names, EmptyName, DefaultName, AccountName
<1>3. /\ Idle \in CallType
      /\ Idle = [op |-> Idle.op, pc |-> Idle.pc, list |-> Idle.list, key |-> Idle.key,
                 name |-> Idle.name, data |-> Idle.data]
  BY NoWalletType DEF Idle
<1>4. ASSUME NEW name \in Names, GetAccountAddress(c, name) PROVE WalletInv'
  <2> DEFINE n == Len(wallet.child)
             called == IF name = EmptyName THEN DefaultName(n) ELSE name
             request == [Idle EXCEPT !.op = "create", !.pc = "list", !.key = <<wallet.seed, n>>, !.name = called]
  <2>1. called \in AccountName /\ <<wallet.seed, n>> \in Keys
    BY <1>1, <1>2 DEF Keys
  <2>2. Starts(c, request)
    BY <1>4 DEF GetAccountAddress
  <2> HIDE DEF called, n
  <2>3. /\ request \in CallType /\ request.op = "create" /\ request.pc = "list"
        /\ request.key \in Keys /\ request.name \in AccountName
    BY <1>3, <2>1 DEF CallType
  <2> HIDE DEF request
  <2> QED BY <2>2, <2>3, StartKeeps
<1>5. ASSUME NEW key \in Keys, NEW name \in AccountName, ImportAccount(c, key, name) PROVE WalletInv'
  <2> DEFINE request == [Idle EXCEPT !.op = "import", !.pc = "list", !.key = key, !.name = name]
  <2>1. Starts(c, request)
    BY <1>5 DEF ImportAccount
  <2>2. /\ request \in CallType /\ request.op = "import" /\ request.pc = "list"
        /\ request.key \in Keys /\ request.name \in AccountName
    BY <1>3 DEF CallType
  <2> HIDE DEF request
  <2> QED BY <2>1, <2>2, StartKeeps
<1>6. ASSUME NEW key \in due, RemoveAccount(c, key) PROVE WalletInv'
  <2> DEFINE request == [Idle EXCEPT !.op = "remove", !.pc = "list", !.key = key]
  <2>1. Starts(c, request)
    BY <1>6 DEF RemoveAccount
  <2>2. key \in Keys
    BY <1>1
  <2>3. /\ request \in CallType /\ request.op = "remove" /\ request.pc = "list"
        /\ request.key \in Keys
    BY <1>3, <2>2 DEF CallType
  <2> HIDE DEF request
  <2> QED BY <2>1, <2>3, StartKeeps
<1>7. ASSUME SetTxFee(c) PROVE WalletInv'
  <2> DEFINE request == [Idle EXCEPT !.op = "fee", !.pc = "save"]
  <2>1. Starts(c, request)
    BY <1>7 DEF SetTxFee
  <2>2. request \in CallType /\ request.op = "fee" /\ request.pc = "save"
    BY <1>3 DEF CallType
  <2> HIDE DEF request
  <2> QED BY <2>1, <2>2, StartKeeps
<1>8. ASSUME NEW k \in Foreign, NEW name \in Names, ImportAccount(c, <<0, k>>, name) PROVE WalletInv'
  <2>1. <<0, k>> \in Keys /\ name \in AccountName
    BY <1>2, WalletAssumption DEF Keys
  <2> QED BY <2>1, <1>5, <1>8
<1>9. ASSUME NEW k \in due, ImportAccount(c, k, <<1, 0>>) PROVE WalletInv'
  <2>1. k \in Keys /\ <<1, 0>> \in AccountName
    BY <1>1 DEF AccountName
  <2> QED BY <2>1, <1>5, <1>9
<1> QED BY <1>4, <1>6, <1>7, <1>8, <1>9

\* What every step of a call has in common: it changes that call only.
LEMMA StepIsOfOneCall ==
    ASSUME WalletInv, NEW c \in Clients, NEW r \in CallType,
           call' = [call EXCEPT ![c] = r], call[c].pc # "idle", running' = running, blame' = blame,
           r.pc = "idle" => r = Idle,
           r.pc # "idle" => r.op = call[c].op /\ r.key = call[c].key /\ r.name = call[c].name,
           r.pc \in {"list", "assign"} => r.op # "fee"
    PROVE  /\ call' \in [Clients -> CallType]
           /\ call'[c] = r /\ \A d \in Clients : d # c => call'[d] = call[d]
           /\ CallsAreServed' /\ OneCall'
           /\ Clean' <=> Clean
           /\ Clean => \A d \in Clients : d # c => call[d].pc = "idle" /\ call'[d].pc = "idle"
<1>1. /\ call \in [Clients -> CallType] /\ call' \in [Clients -> CallType]
      /\ call'[c] = r /\ \A d \in Clients : d # c => call'[d] = call[d]
  BY DEF WalletInv, WalletTypeOK
<1>2. Clean' <=> Clean
  BY DEF Clean
<1>3. Clean => \A d \in Clients : d # c => call[d].pc = "idle" /\ call'[d].pc = "idle"
  BY <1>1, OthersIdle
<1>4. OneCall'
  BY <1>2, <1>3 DEF OneCall
<1>5. r.op \in {"idle", "create", "import", "remove", "fee"}
  BY DEF CallType
<1>6. CallsAreServed'
  <2>1. ASSUME NEW d \in Clients, d # c
        PROVE  /\ call'[d].pc = "idle" <=> call'[d].op = "idle"
               /\ call'[d].op \in {"create", "import", "remove"} => call'[d].key \in Keys
               /\ call'[d].op \in {"create", "import"} => call'[d].name \in AccountName
               /\ call'[d].pc \in {"list", "assign"} => call'[d].op \in {"create", "import", "remove"}
               /\ call'[d].pc = "idle" => call'[d] = Idle
               /\ call'[d].pc # "idle" => running'
    BY <1>1, <2>1 DEF WalletInv, CallsAreServed
  <2>2. /\ r.pc = "idle" <=> r.op = "idle"
        /\ r.op \in {"create", "import", "remove"} => r.key \in Keys
        /\ r.op \in {"create", "import"} => r.name \in AccountName
        /\ r.pc \in {"list", "assign"} => r.op \in {"create", "import", "remove"}
        /\ r.pc # "idle" => running'
    BY <1>5, NoWalletType DEF WalletInv, CallsAreServed
  <2> QED BY <1>1, <2>1, <2>2 DEF CallsAreServed
<1> QED BY <1>1, <1>2, <1>3, <1>4, <1>6

\* The new list has every key that is counted on.
LEMMA MakeListKeeps ==
    ASSUME WalletInv, NEW c \in Clients, MakeList(c)
    PROVE  WalletInv'
<1> DEFINE k == call[c].key
           child == wallet.child
           list == IF call[c].op = "remove" THEN WithoutFirst(child, k)
                   ELSE Append(child, Account(k, call[c].name, call[c].op = "import"))
           r == [call[c] EXCEPT !.pc = "assign", !.list = list]
<1>1. /\ call[c].pc = "list" /\ call[c] \in CallType /\ call \in [Clients -> CallType]
      /\ call[c].op \in {"create", "import", "remove"} /\ k \in Keys
      /\ call[c].op \in {"create", "import"} => call[c].name \in AccountName
      /\ child \in Seq(AccountType) /\ running
      /\ UNCHANGED <<wallet, file, running, seeds, calls, crashes, due, blame>>
  BY DEF MakeList, WalletInv, WalletTypeOK, WalletType, CallsAreServed
<1>2. call' = [call EXCEPT ![c] = r]
  BY <1>1 DEF MakeList
<1>3. /\ list \in Seq(AccountType)
      /\ call[c].op = "remove" => KeysOf(child) \ {k} \subseteq KeysOf(list)
      /\ call[c].op \in {"create", "import"} => KeysOf(child) \cup {k} \subseteq KeysOf(list)
  <2>1. CASE call[c].op = "remove"
    BY <2>1, <1>1, WithoutFirstKeepsKeys
  <2>2. CASE call[c].op \in {"create", "import"}
    <3> DEFINE a == Account(k, call[c].name, call[c].op = "import")
    <3>1. a \in AccountType /\ a.key = k
      BY <1>1, <2>2 DEF Account, AccountType
    <3>2. list = Append(child, a)
      BY <2>2
    <3> HIDE DEF a, list
    <3> QED BY <1>1, <2>2, <3>1, <3>2, AppendKeepsKeys
  <2> QED BY <1>1, <2>1, <2>2
<1> HIDE DEF list
<1>4. /\ r \in CallType /\ r.pc = "assign" /\ r.list = list /\ r.op = call[c].op
      /\ r.key = k /\ r.name = call[c].name
  BY <1>1, <1>3 DEF CallType
<1> HIDE DEF r
<1>5. /\ call' \in [Clients -> CallType]
      /\ call'[c] = r /\ \A d \in Clients : d # c => call'[d] = call[d]
      /\ CallsAreServed' /\ OneCall' /\ (Clean' <=> Clean)
      /\ Clean => \A d \in Clients : d # c => call[d].pc = "idle" /\ call'[d].pc = "idle"
  BY <1>1, <1>2, <1>4, StepIsOfOneCall
<1>6. WalletTypeOK'
  BY <1>1, <1>5 DEF WalletInv, WalletTypeOK
<1>7. FileHolds'
  BY <1>1, <1>4, <1>5 DEF WalletInv, FileHolds
<1>8. MemoryHolds'
  <2>1. SUFFICES ASSUME Clean PROVE MemoryHolds'
    BY <1>5 DEF MemoryHolds
  <2>2. due \subseteq KeysOf(child)
    BY <2>1, <1>1, <1>5 DEF WalletInv, MemoryHolds
  <2>3. DueAfter(c)' \subseteq KeysOf(list)
    BY <2>2, <1>1, <1>3, <1>4, <1>5 DEF DueAfter
  <2> QED BY <2>1, <2>2, <2>3, <1>1, <1>4, <1>5 DEF MemoryHolds
<1> QED BY <1>5, <1>6, <1>7, <1>8 DEF WalletInv

\* The wallet takes the new list.
LEMMA AssignListKeeps ==
    ASSUME WalletInv, NEW c \in Clients, AssignList(c)
    PROVE  WalletInv'
<1> DEFINE r == [call[c] EXCEPT !.pc = "save", !.list = <<>>]
<1>1. /\ call[c].pc = "assign" /\ call[c] \in CallType /\ call \in [Clients -> CallType]
      /\ call[c].list \in Seq(AccountType) /\ wallet \in WalletType /\ running
      /\ wallet' = [wallet EXCEPT !.child = call[c].list]
      /\ UNCHANGED <<file, running, seeds, calls, crashes, due, blame>>
  BY DEF AssignList, WalletInv, WalletTypeOK, CallType, CallsAreServed
<1>2. call' = [call EXCEPT ![c] = r]
  BY <1>1 DEF AssignList
<1>3. wallet' \in WalletType /\ wallet'.child = call[c].list
  BY <1>1 DEF WalletType
<1>4. /\ r \in CallType /\ r.pc = "save" /\ r.op = call[c].op
      /\ r.key = call[c].key /\ r.name = call[c].name
  <2>1. <<>> \in Seq(AccountType)
    BY EmptySeq
  <2> QED BY <1>1, <2>1 DEF CallType
<1> HIDE DEF r
<1>5. /\ call' \in [Clients -> CallType]
      /\ call'[c] = r /\ \A d \in Clients : d # c => call'[d] = call[d]
      /\ CallsAreServed' /\ OneCall' /\ (Clean' <=> Clean)
      /\ Clean => \A d \in Clients : d # c => call[d].pc = "idle" /\ call'[d].pc = "idle"
  BY <1>1, <1>2, <1>4, StepIsOfOneCall
<1>6. WalletTypeOK'
  BY <1>1, <1>3, <1>5 DEF WalletInv, WalletTypeOK
<1>7. FileHolds'
  BY <1>1, <1>4, <1>5 DEF WalletInv, FileHolds
<1>8. MemoryHolds'
  <2>1. SUFFICES ASSUME Clean PROVE MemoryHolds'
    BY <1>5 DEF MemoryHolds
  <2>2. DueAfter(c) \subseteq KeysOf(call[c].list)
    BY <2>1, <1>1 DEF WalletInv, MemoryHolds
  <2>3. DueAfter(c)' \subseteq KeysOf(wallet'.child)
    BY <2>2, <1>1, <1>3, <1>4, <1>5 DEF DueAfter
  <2> QED BY <2>1, <2>3, <1>1, <1>4, <1>5 DEF MemoryHolds
<1> QED BY <1>5, <1>6, <1>7, <1>8 DEF WalletInv

\* Save takes the wallet that the call has left, and opens the file.
LEMMA MarshalKeeps ==
    ASSUME WalletInv, NEW c \in Clients, Marshal(c)
    PROVE  WalletInv'
<1> DEFINE r == [call[c] EXCEPT !.pc = "open", !.data = wallet]
<1>1. /\ call[c].pc = "save" /\ call[c] \in CallType /\ call \in [Clients -> CallType]
      /\ wallet \in WalletType /\ running
      /\ UNCHANGED <<wallet, file, running, seeds, calls, crashes, due, blame>>
  BY DEF Marshal, WalletInv, WalletTypeOK, CallsAreServed
<1>2. call' = [call EXCEPT ![c] = r]
  BY <1>1 DEF Marshal
<1>4. /\ r \in CallType /\ r.pc = "open" /\ r.data = wallet /\ r.op = call[c].op
      /\ r.key = call[c].key /\ r.name = call[c].name
  BY <1>1 DEF CallType
<1> HIDE DEF r
<1>5. /\ call' \in [Clients -> CallType]
      /\ call'[c] = r /\ \A d \in Clients : d # c => call'[d] = call[d]
      /\ CallsAreServed' /\ OneCall' /\ (Clean' <=> Clean)
      /\ Clean => \A d \in Clients : d # c => call[d].pc = "idle" /\ call'[d].pc = "idle"
  BY <1>1, <1>2, <1>4, StepIsOfOneCall
<1>6. WalletTypeOK'
  BY <1>1, <1>5 DEF WalletInv, WalletTypeOK
<1>7. FileHolds'
  BY <1>1, <1>4, <1>5 DEF WalletInv, FileHolds
<1>8. MemoryHolds'
  <2>1. SUFFICES ASSUME Clean PROVE MemoryHolds'
    BY <1>5 DEF MemoryHolds
  <2>2. DueAfter(c) \subseteq KeysOf(wallet.child)
    BY <2>1, <1>1 DEF WalletInv, MemoryHolds
  <2>3. DueAfter(c)' \subseteq KeysOf(wallet.child)
    BY <2>2, <1>1, <1>4, <1>5 DEF DueAfter
  <2> QED BY <2>1, <2>3, <1>1, <1>4, <1>5 DEF MemoryHolds
<1> QED BY <1>5, <1>6, <1>7, <1>8 DEF WalletInv

LEMMA OpenFileKeeps ==
    ASSUME WalletInv, NEW c \in Clients, OpenFile(c)
    PROVE  WalletInv'
<1> DEFINE r == [call[c] EXCEPT !.pc = "write"]
<1>1. /\ call[c].pc = "open" /\ call[c] \in CallType /\ call \in [Clients -> CallType] /\ running
      /\ file' = [kind |-> "empty", data |-> NoWallet]
      /\ UNCHANGED <<wallet, running, seeds, calls, crashes, due, blame>>
  BY DEF OpenFile, WalletInv, WalletTypeOK, CallsAreServed
<1>2. call' = [call EXCEPT ![c] = r]
  BY <1>1 DEF OpenFile
<1>4. /\ r \in CallType /\ r.pc = "write" /\ r.data = call[c].data /\ r.op = call[c].op
      /\ r.key = call[c].key /\ r.name = call[c].name
  BY <1>1 DEF CallType
<1> HIDE DEF r
<1>5. /\ call' \in [Clients -> CallType]
      /\ call'[c] = r /\ \A d \in Clients : d # c => call'[d] = call[d]
      /\ CallsAreServed' /\ OneCall' /\ (Clean' <=> Clean)
      /\ Clean => \A d \in Clients : d # c => call[d].pc = "idle" /\ call'[d].pc = "idle"
  BY <1>1, <1>2, <1>4, StepIsOfOneCall
<1>6. WalletTypeOK'
  BY <1>1, <1>5, NoWalletType DEF WalletInv, WalletTypeOK
<1>7. FileHolds'
  BY <1>1, <1>4, <1>5 DEF FileHolds
<1>8. MemoryHolds'
  <2>1. SUFFICES ASSUME Clean PROVE MemoryHolds'
    BY <1>5 DEF MemoryHolds
  <2>2. DueAfter(c) \subseteq KeysOf(wallet.child) /\ DueAfter(c) \subseteq KeysOf(call[c].data.child)
    BY <2>1, <1>1 DEF WalletInv, MemoryHolds
  <2>3. DueAfter(c)' = DueAfter(c)
    BY <1>1, <1>4, <1>5 DEF DueAfter
  <2> QED BY <2>1, <2>2, <2>3, <1>1, <1>4, <1>5 DEF MemoryHolds
<1> QED BY <1>5, <1>6, <1>7, <1>8 DEF WalletInv

\* The file holds what the call answers for, unless the write fails.
LEMMA WriteKeeps ==
    ASSUME WalletInv, NEW c \in Clients, WriteFile(c)
    PROVE  WalletInv'
<1>1. /\ call[c].pc = "write" /\ call[c] \in CallType /\ call \in [Clients -> CallType] /\ running
      /\ file' \in Written(call[c].data) /\ due' = DueAfter(c) /\ call' = [call EXCEPT ![c] = Idle]
      /\ UNCHANGED <<wallet, running, seeds, calls, crashes, blame>>
  BY DEF WriteFile, WalletInv, WalletTypeOK, CallsAreServed
<1>2. /\ call' \in [Clients -> CallType]
      /\ call'[c] = Idle /\ \A d \in Clients : d # c => call'[d] = call[d]
      /\ CallsAreServed' /\ OneCall' /\ (Clean' <=> Clean)
      /\ Clean => \A d \in Clients : d # c => call[d].pc = "idle" /\ call'[d].pc = "idle"
  BY <1>1, NoWalletType, StepIsOfOneCall
<1>3. call[c].data \in WalletType /\ due \subseteq Keys
  BY <1>1 DEF CallType, WalletInv, WalletTypeOK
<1>4. due' \subseteq Keys
  BY <1>1, <1>3 DEF DueAfter, WalletInv, CallsAreServed
<1>5. file' \in {[kind |-> "full", data |-> call[c].data], [kind |-> "part", data |-> NoWallet]}
  BY <1>1 DEF Written
<1>6. WalletTypeOK'
  BY <1>1, <1>2, <1>3, <1>4, <1>5, NoWalletType DEF WalletInv, WalletTypeOK
<1>7. SUFFICES ASSUME Clean PROVE FileHolds' /\ MemoryHolds'
  BY <1>2, <1>6 DEF WalletInv, FileHolds, MemoryHolds
<1>8. file.kind = "empty" /\ DueAfter(c) \subseteq KeysOf(wallet.child)
      /\ DueAfter(c) \subseteq KeysOf(call[c].data.child)
  BY <1>1, <1>7 DEF WalletInv, FileHolds, MemoryHolds
<1>9. file' = [kind |-> "full", data |-> call[c].data]
  BY <1>1, <1>8 DEF Written
<1>10. \A d \in Clients : call'[d].pc = "idle"
  BY <1>2, <1>7, NoWalletType
<1>11. FileHolds'
  BY <1>1, <1>8, <1>9, <1>10 DEF FileHolds
<1>12. MemoryHolds'
  BY <1>1, <1>8, <1>10 DEF MemoryHolds
<1> QED BY <1>11, <1>12

LEMMA FailedWriteKeeps ==
    ASSUME WalletInv, NEW c \in Clients, WriteFileFails(c)
    PROVE  WalletInv'
<1>1. /\ call[c].pc = "write" /\ call[c] \in CallType /\ call \in [Clients -> CallType] /\ running
      /\ file' = [kind |-> "part", data |-> NoWallet]
      /\ due' \in {due, DueAfter(c)} /\ call' = [call EXCEPT ![c] = Idle]
      /\ blame' = blame \cup {"torn"}
      /\ UNCHANGED <<wallet, running, seeds, calls, crashes>>
  BY DEF WriteFileFails, WalletInv, WalletTypeOK, CallsAreServed
<1>2. due' \subseteq Keys
  BY <1>1 DEF DueAfter, WalletInv, WalletTypeOK, CallsAreServed
<1>3. WalletTypeOK'
  BY <1>1, <1>2, NoWalletType DEF WalletInv, WalletTypeOK
<1>4. CallsAreServed'
  <2>1. call'[c] = Idle /\ \A d \in Clients : d # c => call'[d] = call[d]
    BY <1>1
  <2> QED BY <2>1, <1>1, NoWalletType DEF WalletInv, CallsAreServed
<1>5. ~Clean'
  BY <1>1 DEF Clean
<1> QED BY <1>3, <1>4, <1>5 DEF WalletInv, OneCall, FileHolds, MemoryHolds

-----------------------------------------------------------------------------
\* Crash and start.

LEMMA CrashKeeps ==
    ASSUME WalletInv, Crash
    PROVE  WalletInv'
<1>1. /\ running /\ running' = FALSE /\ wallet' = NoWallet /\ call' = [c \in Clients |-> Idle]
      /\ crashes' = crashes + 1
      /\ file' = file \/ file' = [kind |-> "part", data |-> NoWallet]
      /\ blame' = blame \cup (IF file'.kind # "full" THEN {"torn"} ELSE {})
      /\ UNCHANGED <<seeds, calls, due>>
  BY DEF Crash
<1>2. \A c \in Clients : call'[c] = Idle /\ call'[c].pc = "idle" /\ call'[c].op = "idle"
  BY <1>1, NoWalletType
<1>3. call' \in [Clients -> CallType]
  BY <1>1, NoWalletType
<1>4. WalletTypeOK'
  <2>1. file' \in [kind : {"none", "empty", "part", "full"}, data : WalletType]
    <3>1. file \in [kind : {"none", "empty", "part", "full"}, data : WalletType]
      BY DEF WalletInv, WalletTypeOK
    <3>2. [kind |-> "part", data |-> NoWallet] \in [kind : {"none", "empty", "part", "full"}, data : WalletType]
      BY NoWalletType
    <3> QED BY <1>1, <3>1, <3>2
  <2>2. blame' \in SUBSET {"overlap", "removed", "torn", "reinit", "ahead"}
    <3>1. blame' \in {blame, blame \cup {"torn"}}
      <4>1. CASE file'.kind # "full"
        BY <1>1, <4>1
      <4>2. CASE file'.kind = "full"
        BY <1>1, <4>2
      <4> QED BY <4>1, <4>2
    <3>2. blame \in SUBSET {"overlap", "removed", "torn", "reinit", "ahead"}
      BY DEF WalletInv, WalletTypeOK
    <3> QED BY <3>1, <3>2
  <2>3. /\ running' \in BOOLEAN /\ wallet' \in WalletType
        /\ seeds' \in Nat /\ due' \in SUBSET Keys /\ calls' \in Nat /\ crashes' \in Nat
    <3>1. /\ seeds \in Nat /\ due \in SUBSET Keys /\ calls \in Nat /\ crashes \in Nat
      BY DEF WalletInv, WalletTypeOK
    <3>2. /\ running' = FALSE /\ wallet' = NoWallet /\ crashes' = crashes + 1
          /\ seeds' = seeds /\ calls' = calls /\ due' = due
      BY <1>1
    <3>3. running' \in BOOLEAN
      BY <3>2, Zenon
    <3>4. /\ wallet' \in WalletType /\ seeds' \in Nat /\ due' \in SUBSET Keys
          /\ calls' \in Nat /\ crashes' \in Nat
      BY <3>1, <3>2, NoWalletType, SMT
    <3> QED BY <3>3, <3>4
  <2> QED BY <1>3, <2>1, <2>2, <2>3 DEF WalletTypeOK
<1>5. CallsAreServed' /\ OneCall'
  BY <1>2 DEF CallsAreServed, OneCall
<1>6. Clean' => Clean /\ file' = file /\ file.kind = "full"
  BY <1>1 DEF Clean
<1>7. FileHolds'
  BY <1>1, <1>2, <1>6 DEF WalletInv, FileHolds
<1>8. MemoryHolds'
  BY <1>1 DEF MemoryHolds
<1> QED BY <1>4, <1>5, <1>7, <1>8 DEF WalletInv

\* A node that is down serves no call.
LEMMA NoCallWhenDown ==
    ASSUME WalletInv, ~running
    PROVE  \A c \in Clients : call[c] = Idle /\ call[c].pc = "idle" /\ call[c].op = "idle"
BY NoWalletType DEF WalletInv, CallsAreServed

LEMMA LoadKeeps ==
    ASSUME WalletInv, NEW pass \in Passphrases, LoadWallet(pass)
    PROVE  WalletInv'
<1>1. /\ ~running /\ running' = TRUE /\ file.kind = "full" /\ wallet' = file.data
      /\ UNCHANGED <<file, call, seeds, calls, crashes, due, blame>>
  BY DEF LoadWallet, CanLoad
<1>2. \A c \in Clients : call[c] = Idle /\ call[c].pc = "idle" /\ call[c].op = "idle"
  BY <1>1, NoCallWhenDown
<1>3. WalletTypeOK'
  BY <1>1 DEF WalletInv, WalletTypeOK
<1>4. CallsAreServed' /\ OneCall'
  BY <1>1, <1>2 DEF CallsAreServed, OneCall
<1>5. Clean' <=> Clean
  BY <1>1 DEF Clean
<1>6. FileHolds'
  BY <1>1, <1>2, <1>5 DEF WalletInv, FileHolds
<1>7. MemoryHolds'
  <2>1. Clean => due \subseteq KeysOf(file.data.child)
    BY <1>1 DEF WalletInv, FileHolds
  <2> QED BY <2>1, <1>1, <1>2, <1>5 DEF MemoryHolds
<1> QED BY <1>3, <1>4, <1>6, <1>7 DEF WalletInv

LEMMA AutoInitKeeps ==
    ASSUME WalletInv, NEW pass \in Passphrases, AutoInit(pass)
    PROVE  WalletInv'
<1> DEFINE new == NewWallet(seeds + 1, pass)
<1>1. /\ ~running /\ running' = TRUE /\ seeds' = seeds + 1
      /\ wallet' = new /\ file' = [kind |-> "full", data |-> new]
      /\ blame' = blame \cup (IF file.kind = "none" THEN {} ELSE {"reinit"})
      /\ due' = due \cup {<<seeds + 1, 0>>}
      /\ UNCHANGED <<call, calls, crashes>>
  BY DEF AutoInit
<1>2. \A c \in Clients : call[c] = Idle /\ call[c].pc = "idle" /\ call[c].op = "idle"
  BY <1>1, NoCallWhenDown
<1>3. seeds + 1 \in Nat
  BY DEF WalletInv, WalletTypeOK
<1>4. new \in WalletType /\ <<seeds + 1, 0>> \in KeysOf(new.child)
  BY <1>3, NewWalletHasItsKey
<1> HIDE DEF new
<1>5. WalletTypeOK'
  <2>1. <<seeds + 1, 0>> \in Keys
    BY <1>3 DEF Keys
  <2> QED BY <1>1, <1>3, <1>4, <2>1 DEF WalletInv, WalletTypeOK
<1>6. CallsAreServed' /\ OneCall'
  BY <1>1, <1>2 DEF CallsAreServed, OneCall
<1>7. Clean' => due = {}
  <2>1. Clean' => Clean /\ file.kind = "none"
    BY <1>1 DEF Clean
  <2> QED BY <2>1 DEF WalletInv, FileHolds
<1>8. Clean' => due' \subseteq KeysOf(new.child)
  BY <1>1, <1>4, <1>7
<1>9. FileHolds'
  BY <1>1, <1>2, <1>8 DEF FileHolds
<1>10. MemoryHolds'
  BY <1>1, <1>2, <1>8 DEF MemoryHolds
<1> QED BY <1>5, <1>6, <1>9, <1>10 DEF WalletInv

\* Every step keeps the invariant.
LEMMA NextWalletInv ==
    ASSUME WalletInv, [WalletNext]_walletVars
    PROVE  WalletInv'
<1>1. ASSUME NEW c \in Clients,
             \/ MakeList(c) \/ AssignList(c) \/ Marshal(c) \/ OpenFile(c) \/ WriteFile(c) \/ WriteFileFails(c)
      PROVE  WalletInv'
  BY <1>1, MakeListKeeps, AssignListKeeps, MarshalKeeps, OpenFileKeeps, WriteKeeps, FailedWriteKeeps
<1>2. CASE UNCHANGED walletVars
  <2>1. UNCHANGED <<wallet, file, running, call, seeds, calls, crashes, due, blame>>
    BY <1>2 DEF walletVars
  <2>2. WalletTypeOK'
    BY <2>1 DEF WalletInv, WalletTypeOK
  <2>3. CallsAreServed'
    BY <2>1 DEF WalletInv, CallsAreServed
  <2>4. (Clean' <=> Clean) /\ \A c \in Clients : DueAfter(c)' = DueAfter(c)
    BY <2>1 DEF Clean, DueAfter
  <2>5. OneCall' /\ FileHolds'
    BY <2>1, <2>4 DEF WalletInv, OneCall, FileHolds
  <2>6. MemoryHolds'
    BY <2>1, <2>4 DEF WalletInv, MemoryHolds
  <2> QED BY <2>2, <2>3, <2>5, <2>6 DEF WalletInv
<1>3. CASE WalletNext
  BY <1>1, <1>3, CallsStartRight, CrashKeeps, LoadKeeps, AutoInitKeeps DEF WalletNext
<1> QED BY <1>2, <1>3

\* The inductive invariant of the wallet.
THEOREM WalletIsSaved == WalletSpec => []WalletInv
<1>1. WalletInit => WalletInv
  BY InitWalletInv
<1>2. WalletInv /\ [WalletNext]_walletVars => WalletInv'
  BY NextWalletInv
<1> QED BY <1>1, <1>2, PTL DEF WalletSpec

\* What the RPC server has answered with is in the wallet after any number of
\* calls, crashes and starts, but for calls that overlap, writes that are cut off
\* and starts that replace the wallet (wallet.go, Save and LoadWallet).
THEOREM AnsweredAccountsSurvive == WalletSpec => []AccountsSurvive
<1>1. WalletInv => AccountsSurvive
  <2>1. SUFFICES ASSUME WalletInv, running, Clean, \A c \in Clients : call[c].op # "remove"
                 PROVE  due \subseteq KeysOf(wallet.child)
    BY DEF AccountsSurvive, Clean
  <2>2. CASE \A c \in Clients : call[c].pc \in {"idle", "list", "assign"}
    BY <2>1, <2>2 DEF WalletInv, MemoryHolds
  <2>3. CASE \E c \in Clients : call[c].pc \notin {"idle", "list", "assign"}
    <3>1. PICK c \in Clients : call[c].pc \notin {"idle", "list", "assign"}
      BY <2>3
    <3>2. call[c].pc \in {"save", "open", "write"}
      BY <2>1, <3>1 DEF WalletInv, WalletTypeOK, CallType
    <3>3. DueAfter(c) \subseteq KeysOf(wallet.child)
      BY <2>1, <3>2 DEF WalletInv, MemoryHolds
    <3>4. due \subseteq DueAfter(c)
      BY <2>1 DEF DueAfter
    <3> QED BY <3>3, <3>4
  <2> QED BY <2>2, <2>3
<1> QED BY <1>1, WalletIsSaved, PTL

-----------------------------------------------------------------------------
\* Keys and names are told apart.

AccountKeys(seed, n) == {<<0, k>> : k \in Foreign} \cup {<<seed, i>> : i \in 0..(n - 1)}
AccountNames(n) == (Names \ {DefaultName(i) : i \in Nat}) \cup {DefaultName(i) : i \in 0..(n - 1)}

\* No two accounts have a name in common, and no number in a name is beyond
\* the number of accounts.
Named(child) ==
    /\ \A i \in DOMAIN child : child[i].name \in AccountNames(Len(child))
    /\ \A i, j \in DOMAIN child : child[i].name = child[j].name => i = j

\* A list of at most n accounts of a wallet: no two have a key in common and
\* no index is beyond the number of accounts; and the like of their names, if
\* nothing is to blame, b being what is.
Numbered(seed, child, n, b) ==
    /\ seed # 0 /\ Len(child) <= n
    /\ \A i \in DOMAIN child : child[i].key \in AccountKeys(seed, Len(child))
    /\ \A i, j \in DOMAIN child : child[i].key = child[j].key => i = j
    /\ b = {} => Named(child)

\* An account with this key and name may be appended.
Fits(seed, child, key, name, b) ==
    /\ key \in AccountKeys(seed, Len(child) + 1) /\ ~HasKey(child, key)
    /\ b = {} => name \in AccountNames(Len(child) + 1) /\ ~HasName(child, name)

\* What a call is to write.
CallNumbered(c) ==
    /\ call[c].op # "remove"
    /\ call[c].pc = "list" =>
         Len(wallet.child) <= calls /\ Fits(wallet.seed, wallet.child, call[c].key, call[c].name, blame)
    /\ call[c].pc = "assign" => Numbered(wallet.seed, call[c].list, calls + 1, blame)
    /\ call[c].pc \in {"open", "write"} => Numbered(call[c].data.seed, call[c].data.child, calls + 1, blame)

\* While nothing has happened that the wallet does not withstand, lists are
\* numbered in memory, on disk and in between.
NumberedInv ==
    /\ calls <= MaxCalls
    /\ ~running => wallet = NoWallet
    /\ blame \subseteq {"ahead"} =>
         /\ running => Numbered(wallet.seed, wallet.child, calls + 1, blame)
         /\ file.kind = "full" => Numbered(file.data.seed, file.data.child, calls + 1, blame)
         /\ \A c \in Clients : CallNumbered(c)

\* A list that is numbered stays so when more accounts are allowed.
LEMMA NumberedMore ==
    ASSUME NEW seed, NEW child \in Seq(AccountType), NEW n \in Nat, NEW b, NEW d,
           d = {} => b = {}, Numbered(seed, child, n, b)
    PROVE  Numbered(seed, child, n + 1, d)
<1>1. Len(child) \in Nat
  BY LenProperties
<1> QED BY <1>1 DEF Numbered

\* The first account of a wallet is numbered.
LEMMA NewWalletIsNumbered ==
    ASSUME NEW seed \in Nat \ {0}, NEW pass, NEW n \in Nat, NEW b
    PROVE  Numbered(NewWallet(seed, pass).seed, NewWallet(seed, pass).child, n + 1, b)
<1> DEFINE a == Account(<<seed, 0>>, DefaultName(0), FALSE)
           child == <<a>>
<1>1. a.key = <<seed, 0>> /\ a.name = DefaultName(0)
  BY DEF Account
<1> HIDE DEF a
<1>2. Len(child) = 1 /\ DOMAIN child = {1} /\ child[1] = a
  OBVIOUS
<1>3. NewWallet(seed, pass).seed = seed /\ NewWallet(seed, pass).child = child
  BY DEF NewWallet, a
<1> HIDE DEF child
<1>4. 0 \in 0..(1 - 1)
  OBVIOUS
<1>5. a.key \in AccountKeys(seed, 1) /\ a.name \in AccountNames(1)
  BY <1>1, <1>4 DEF AccountKeys, AccountNames
<1>6. \A i \in DOMAIN child : i = 1
  BY <1>2
<1>7. Numbered(seed, child, n + 1, b)
  BY <1>2, <1>5, <1>6 DEF Numbered, Named
<1> QED BY <1>3, <1>7

\* An account that fits is appended.
LEMMA NumberedAppend ==
    ASSUME NEW seed, NEW child \in Seq(AccountType), NEW n \in Nat, NEW b,
           Numbered(seed, child, n + 1, b), Len(child) <= n,
           NEW key, NEW name, NEW imported \in BOOLEAN, Fits(seed, child, key, name, b)
    PROVE  Numbered(seed, Append(child, Account(key, name, imported)), n + 1, b)
<1> DEFINE a == Account(key, name, imported)
           list == Append(child, a)
           m == Len(child)
<1>1. m \in Nat /\ a.key = key /\ a.name = name
  BY LenProperties DEF Account
<1> HIDE DEF a
<1>2. /\ Len(list) = m + 1 /\ DOMAIN list = 1..(m + 1) /\ DOMAIN child = 1..m
      /\ list[m + 1] = a /\ \A i \in 1..m : list[i] = child[i]
  OBVIOUS
<1> HIDE DEF list
<1>3. /\ AccountKeys(seed, m) \subseteq AccountKeys(seed, m + 1)
      /\ AccountNames(m) \subseteq AccountNames(m + 1)
  <2>1. 0..(m - 1) \subseteq 0..((m + 1) - 1)
    BY <1>1
  <2> QED BY <2>1 DEF AccountKeys, AccountNames
<1>4. \A i \in 1..m : child[i].key \in AccountKeys(seed, m) /\ child[i].key # key
  BY <1>2 DEF Numbered, Fits, HasKey
<1>5. b = {} => \A i \in 1..m : child[i].name \in AccountNames(m) /\ child[i].name # name
  BY <1>2 DEF Numbered, Named, Fits, HasName
<1>6. \A i \in 1..(m + 1) : i = m + 1 \/ i \in 1..m
  BY <1>1
<1>7. \A i \in 1..(m + 1) : list[i].key \in AccountKeys(seed, m + 1)
  BY <1>1, <1>2, <1>3, <1>4, <1>6 DEF Fits
<1>8. \A i, j \in 1..(m + 1) : list[i].key = list[j].key => i = j
  <2>1. \A i, j \in 1..m : list[i].key = list[j].key => i = j
    BY <1>2 DEF Numbered
  <2>2. \A i \in 1..m : list[i].key # key
    BY <1>2, <1>4
  <2> QED BY <1>1, <1>2, <1>6, <2>1, <2>2
<1>9. ASSUME b = {} PROVE Named(list)
  <2>1. \A i \in 1..(m + 1) : list[i].name \in AccountNames(m + 1)
    BY <1>1, <1>2, <1>3, <1>5, <1>6, <1>9 DEF Fits
  <2>2. \A i, j \in 1..m : list[i].name = list[j].name => i = j
    BY <1>2, <1>9 DEF Numbered, Named
  <2>3. \A i \in 1..m : list[i].name # name
    BY <1>2, <1>5, <1>9
  <2>4. \A i, j \in 1..(m + 1) : list[i].name = list[j].name => i = j
    BY <1>1, <1>2, <1>6, <2>2, <2>3
  <2> QED BY <1>2, <2>1, <2>4 DEF Named
<1>10. seed # 0 /\ m + 1 <= n + 1
  BY <1>1 DEF Numbered
<1> QED BY <1>2, <1>7, <1>8, <1>9, <1>10 DEF Numbered, list, a

\* A name that is no default name of an account to come may be a name of one
\* account more.
LEMMA NameFits ==
    ASSUME NEW name \in Names, Len(wallet.child) \in Nat, ~IsAhead(name)
    PROVE  name \in AccountNames(Len(wallet.child) + 1)
<1> DEFINE m == Len(wallet.child)
<1>1. CASE \E i \in Nat : name = DefaultName(i)
  <2>1. PICK i \in Nat : name = DefaultName(i)
    BY <1>1
  <2>2. i \in Numbers
    BY <2>1, WalletAssumption DEF Names, DefaultName, EmptyName
  <2>3. i \in 0..((m + 1) - 1)
    BY <2>1, <2>2 DEF IsAhead
  <2> QED BY <2>1, <2>3 DEF AccountNames
<1>2. CASE ~\E i \in Nat : name = DefaultName(i)
  BY <1>2 DEF AccountNames
<1> QED BY <1>1, <1>2

\* A new account gets an index that no other has, and a name that no other
\* has unless one was given it ahead, although the only check is by name.
LEMMA NewAccountFits ==
    ASSUME NEW seed \in Nat, NEW child \in Seq(AccountType), NEW n, NEW b, NEW d, d = {} => b = {},
           Numbered(seed, child, n, b), NEW name \in Names, ~HasName(child, name),
           d = {} => name \in AccountNames(Len(child) + 1)
    PROVE  Fits(seed, child, <<seed, Len(child)>>, IF name = EmptyName THEN DefaultName(Len(child)) ELSE name, d)
<1> DEFINE m == Len(child)
           key == <<seed, m>>
<1>1. m \in Nat /\ m \in 0..((m + 1) - 1) /\ m \notin 0..(m - 1)
  BY LenProperties
<1>2. key \in AccountKeys(seed, m + 1) /\ DefaultName(m) \in AccountNames(m + 1)
  BY <1>1 DEF AccountKeys, AccountNames
<1>3. key \notin AccountKeys(seed, m)
  BY <1>1 DEF AccountKeys, Numbered
<1>4. DefaultName(m) \notin AccountNames(m)
  BY <1>1 DEF AccountNames, DefaultName
<1>5. ~HasKey(child, key)
  BY <1>3 DEF HasKey, Numbered
<1>6. b = {} => ~HasName(child, DefaultName(m))
  BY <1>4 DEF HasName, Numbered, Named
<1> QED BY <1>2, <1>5, <1>6 DEF Fits

-----------------------------------------------------------------------------
\* The steps keep the lists numbered.

\* A node without a wallet, and one whose wallet has its first account.
LEMMA NumberedStarts == WalletInit => NumberedInv
<1> SUFFICES ASSUME WalletInit PROVE NumberedInv
  OBVIOUS
<1>1. /\ wallet = NoWallet /\ running = FALSE /\ calls = 0
      /\ \A c \in Clients : call[c].op = "idle" /\ call[c].pc = "idle"
  BY NoWalletType DEF WalletInit
<1>2. file.kind = "full" => Numbered(file.data.seed, file.data.child, 0 + 1, blame)
  <2>1. CASE file = [kind |-> "none", data |-> NoWallet]
    BY <2>1
  <2>2. CASE \E pass \in Passphrases : file = [kind |-> "full", data |-> NewWallet(1, pass)]
    <3>1. PICK pass \in Passphrases : file = [kind |-> "full", data |-> NewWallet(1, pass)]
      BY <2>2
    <3>2. Numbered(NewWallet(1, pass).seed, NewWallet(1, pass).child, 0 + 1, blame)
      BY NewWalletIsNumbered
    <3> QED BY <3>1, <3>2
  <2> QED BY <2>1, <2>2 DEF WalletInit
<1>3. \A c \in Clients : CallNumbered(c)
  BY <1>1 DEF CallNumbered
<1> QED BY <1>1, <1>2, <1>3, WalletAssumption DEF NumberedInv

\* A call that begins while nothing has happened finds all others idle.
LEMMA StartNumbers ==
    ASSUME WalletInv, NumberedInv, NEW c \in Clients, NEW request \in CallType, Starts(c, request),
           \/ request.op = "fee" /\ request.pc = "save"
           \/ request.op = "remove"
           \/ /\ request.op \in {"create", "import"} /\ request.pc = "list"
              /\ blame' \subseteq {"ahead"} => Fits(wallet.seed, wallet.child, request.key, request.name, blame')
    PROVE  NumberedInv'
<1>1. /\ running /\ calls < MaxCalls /\ calls' = calls + 1 /\ call' = [call EXCEPT ![c] = request]
      /\ UNCHANGED <<wallet, file, running, seeds, crashes, due>>
      /\ blame' = blame \cup (IF \E d \in Clients : call[d] # Idle THEN {"overlap"} ELSE {})
                        \cup (IF request.op = "remove" THEN {"removed"} ELSE {})
                        \cup (IF IsAhead(request.name) THEN {"ahead"} ELSE {})
  BY DEF Starts
<1>2. /\ call'[c] = request /\ \A d \in Clients : d # c => call'[d] = call[d]
      /\ calls \in Nat /\ wallet.child \in Seq(AccountType) /\ file.data.child \in Seq(AccountType)
  BY <1>1 DEF WalletInv, WalletTypeOK, WalletType
<1>3. calls' <= MaxCalls /\ (~running' => wallet' = NoWallet)
  BY <1>1, <1>2, WalletAssumption
<1>4. SUFFICES ASSUME blame' \subseteq {"ahead"}
               PROVE  /\ Numbered(wallet.seed, wallet.child, (calls + 1) + 1, blame')
                      /\ file.kind = "full" => Numbered(file.data.seed, file.data.child, (calls + 1) + 1, blame')
                      /\ \A d \in Clients : CallNumbered(d)'
  BY <1>1, <1>3 DEF NumberedInv
<1>5. /\ blame \subseteq {"ahead"} /\ (blame' = {} => blame = {})
      /\ request.op # "remove" /\ \A d \in Clients : call[d] = Idle
  BY <1>1, <1>4
<1>6. /\ Numbered(wallet.seed, wallet.child, calls + 1, blame)
      /\ file.kind = "full" => Numbered(file.data.seed, file.data.child, calls + 1, blame)
  BY <1>1, <1>5 DEF NumberedInv
<1>7. calls + 1 \in Nat
  BY <1>2
<1>8. ASSUME NEW d \in Clients, d # c PROVE CallNumbered(d)'
  <2>1. call'[d].op = "idle" /\ call'[d].pc = "idle"
    BY <1>2, <1>5, <1>8, NoWalletType
  <2> QED BY <2>1 DEF CallNumbered
<1>9. CallNumbered(c)'
  <2>1. Len(wallet.child) <= calls'
    BY <1>1, <1>6 DEF Numbered
  <2>2. request.pc = "list" => Fits(wallet.seed, wallet.child, request.key, request.name, blame')
    BY <1>4, <1>5
  <2> QED BY <1>1, <1>2, <1>5, <2>1, <2>2 DEF CallNumbered, Fits, HasKey, HasName
<1> QED BY <1>2, <1>5, <1>6, <1>7, <1>8, <1>9, NumberedMore

\* Every request that begins has a key that fits, and a name that does unless
\* it is ahead; and a key that a caller counts on is not imported, since it is
\* in the list.
LEMMA CallsNumber ==
    ASSUME WalletInv, NumberedInv, NEW c \in Clients,
           \/ \E name \in Names : GetAccountAddress(c, name)
           \/ \E k \in Foreign, name \in Names : ImportAccount(c, <<0, k>>, name)
           \/ \E k \in due : ImportAccount(c, k, <<1, 0>>)
           \/ \E key \in due : RemoveAccount(c, key)
           \/ SetTxFee(c)
    PROVE  NumberedInv'
<1>1. /\ wallet.seed \in Nat /\ wallet.child \in Seq(AccountType) /\ Len(wallet.child) \in Nat /\ due \subseteq Keys
  BY LenProperties DEF WalletInv, WalletTypeOK, WalletType
<1>2. Names \subseteq AccountName /\ \A n \in Nat : DefaultName(n) \in AccountName
  BY WalletAssumption DEF Names, EmptyName, DefaultName, AccountName
<1>3. /\ Idle \in CallType
      /\ Idle = [op |-> Idle.op, pc |-> Idle.pc, list |-> Idle.list, key |-> Idle.key,
                 name |-> Idle.name, data |-> Idle.data]
  BY NoWalletType DEF Idle
<1>4. ASSUME NEW request, Starts(c, request), blame' \subseteq {"ahead"}
      PROVE  /\ blame \subseteq {"ahead"} /\ Numbered(wallet.seed, wallet.child, calls + 1, blame)
             /\ blame' = {} => blame = {} /\ ~IsAhead(request.name)
  BY <1>4 DEF Starts, NumberedInv
<1>5. ASSUME NEW name \in Names, GetAccountAddress(c, name) PROVE NumberedInv'
  <2> DEFINE n == Len(wallet.child)
             called == IF name = EmptyName THEN DefaultName(n) ELSE name
             request == [Idle EXCEPT !.op = "create", !.pc = "list", !.key = <<wallet.seed, n>>, !.name = called]
  <2>1. called \in AccountName /\ <<wallet.seed, n>> \in Keys
    BY <1>1, <1>2 DEF Keys
  <2>2. Starts(c, request) /\ ~HasName(wallet.child, name)
    BY <1>5 DEF GetAccountAddress
  <2>3. request.name = called
    BY <1>3, <2>1 DEF CallType
  <2>4. ASSUME blame' \subseteq {"ahead"}
        PROVE  Fits(wallet.seed, wallet.child, <<wallet.seed, n>>, called, blame')
    <3>1. /\ Numbered(wallet.seed, wallet.child, calls + 1, blame)
          /\ blame' = {} => blame = {} /\ ~IsAhead(called)
      BY <1>4, <2>2, <2>3, <2>4
    <3>2. ASSUME blame' = {} PROVE name \in AccountNames(n + 1)
      <4>1. ~IsAhead(name)
        <5>1. CASE name = EmptyName
          BY <5>1 DEF IsAhead, EmptyName, DefaultName
        <5>2. CASE name # EmptyName
          BY <3>1, <3>2, <5>2
        <5> QED BY <5>1, <5>2
      <4> QED BY <1>1, <4>1, NameFits
    <3> QED BY <1>1, <2>2, <3>1, <3>2, NewAccountFits
  <2> HIDE DEF called, n
  <2>5. /\ request \in CallType /\ request.op = "create" /\ request.pc = "list"
        /\ request.key = <<wallet.seed, n>> /\ request.name = called
    BY <1>3, <2>1 DEF CallType
  <2> HIDE DEF request
  <2> QED BY <2>2, <2>4, <2>5, StartNumbers
<1>6. ASSUME NEW key \in Keys, NEW name \in AccountName, ImportAccount(c, key, name),
             /\ blame' \subseteq {"ahead"} /\ Numbered(wallet.seed, wallet.child, calls + 1, blame)
             /\ blame' = {} => ~IsAhead(name)
             => Fits(wallet.seed, wallet.child, key, name, blame')
      PROVE  NumberedInv'
  <2> DEFINE request == [Idle EXCEPT !.op = "import", !.pc = "list", !.key = key, !.name = name]
  <2>1. Starts(c, request)
    BY <1>6 DEF ImportAccount
  <2>2. /\ request \in CallType /\ request.op = "import" /\ request.pc = "list"
        /\ request.key = key /\ request.name = name
    BY <1>3 DEF CallType
  <2>3. blame' \subseteq {"ahead"} => Fits(wallet.seed, wallet.child, request.key, request.name, blame')
    BY <1>4, <1>6, <2>1, <2>2
  <2> HIDE DEF request
  <2> QED BY <2>1, <2>2, <2>3, StartNumbers
<1>7. ASSUME NEW key \in due, RemoveAccount(c, key) PROVE NumberedInv'
  <2> DEFINE request == [Idle EXCEPT !.op = "remove", !.pc = "list", !.key = key]
  <2>1. Starts(c, request)
    BY <1>7 DEF RemoveAccount
  <2>2. key \in Keys
    BY <1>1
  <2>3. request \in CallType /\ request.op = "remove"
    BY <1>3, <2>2 DEF CallType
  <2> HIDE DEF request
  <2> QED BY <2>1, <2>3, StartNumbers
<1>8. ASSUME SetTxFee(c) PROVE NumberedInv'
  <2> DEFINE request == [Idle EXCEPT !.op = "fee", !.pc = "save"]
  <2>1. Starts(c, request)
    BY <1>8 DEF SetTxFee
  <2>2. request \in CallType /\ request.op = "fee" /\ request.pc = "save"
    BY <1>3 DEF CallType
  <2> HIDE DEF request
  <2> QED BY <2>1, <2>2, StartNumbers
<1>9. ASSUME NEW k \in Foreign, NEW name \in Names, ImportAccount(c, <<0, k>>, name) PROVE NumberedInv'
  <2>1. <<0, k>> \in Keys /\ name \in AccountName
    BY <1>2, WalletAssumption DEF Keys
  <2>2. ~IsAhead(name) => name \in AccountNames(Len(wallet.child) + 1)
    BY <1>1, NameFits
  <2>3. (blame' = {} => ~IsAhead(name)) => Fits(wallet.seed, wallet.child, <<0, k>>, name, blame')
    BY <1>9, <2>2 DEF ImportAccount, Fits, AccountKeys
  <2> QED BY <2>1, <2>3, <1>6, <1>9
<1>10. ASSUME NEW k \in due, ImportAccount(c, k, <<1, 0>>) PROVE NumberedInv'
  <2>1. k \in Keys /\ <<1, 0>> \in AccountName
    BY <1>1 DEF AccountName
  <2>2. ~(blame' \subseteq {"ahead"})
    <3> SUFFICES ASSUME blame' \subseteq {"ahead"} PROVE FALSE
      OBVIOUS
    <3>1. running /\ blame \subseteq {"ahead"} /\ (\A d \in Clients : call[d] = Idle) /\ ~HasKey(wallet.child, k)
      BY <1>10 DEF ImportAccount, Starts
    <3>2. due \subseteq KeysOf(wallet.child)
      BY <3>1, NoWalletType DEF WalletInv, MemoryHolds, Clean
    <3> QED BY <3>1, <3>2 DEF KeysOf, HasKey
  <2> QED BY <2>1, <2>2, <1>6, <1>10
<1> QED BY <1>5, <1>7, <1>8, <1>9, <1>10

\* A step of a call leaves the other calls idle, and they have nothing to write.
LEMMA StepNumbers ==
    ASSUME WalletInv, NumberedInv, NEW c \in Clients, call[c].pc # "idle", NEW r \in CallType,
           call' = [call EXCEPT ![c] = r], UNCHANGED <<running, calls, blame>>,
           blame \subseteq {"ahead"} =>
               /\ Numbered(wallet'.seed, wallet'.child, calls + 1, blame)
               /\ file'.kind = "full" => Numbered(file'.data.seed, file'.data.child, calls + 1, blame)
               /\ CallNumbered(c)'
    PROVE  NumberedInv'
<1>1. /\ call'[c] = r /\ \A d \in Clients : d # c => call'[d] = call[d]
      /\ running
  BY DEF WalletInv, WalletTypeOK, CallsAreServed
<1>2. ASSUME blame \subseteq {"ahead"}, NEW d \in Clients, d # c PROVE CallNumbered(d)'
  <2>1. call[d].pc = "idle"
    BY <1>2, OthersIdle DEF Clean
  <2>2. call'[d].pc = "idle" /\ call'[d].op = "idle"
    BY <1>1, <1>2, <2>1 DEF WalletInv, CallsAreServed
  <2> QED BY <2>2 DEF CallNumbered
<1> QED BY <1>1, <1>2 DEF NumberedInv

\* A step of the wallet that is none of a call that begins.
LEMMA CallStepsNumber ==
    ASSUME WalletInv, NumberedInv, NEW c \in Clients,
           MakeList(c) \/ AssignList(c) \/ Marshal(c) \/ OpenFile(c) \/ WriteFile(c)
    PROVE  NumberedInv'
<1>1. /\ call[c] \in CallType /\ call \in [Clients -> CallType] /\ calls \in Nat
      /\ wallet \in WalletType /\ wallet.child \in Seq(AccountType)
      /\ call[c].list \in Seq(AccountType) /\ call[c].data \in WalletType
  BY DEF WalletInv, WalletTypeOK, WalletType, CallType
<1>2. /\ call[c].pc \in {"list", "assign"} => call[c].op \in {"create", "import", "remove"}
      /\ call[c].pc # "idle" => running
  BY DEF WalletInv, CallsAreServed
<1>3. blame \subseteq {"ahead"} /\ running =>
        /\ Numbered(wallet.seed, wallet.child, calls + 1, blame)
        /\ file.kind = "full" => Numbered(file.data.seed, file.data.child, calls + 1, blame)
        /\ CallNumbered(c)
  BY DEF NumberedInv
<1>4. CASE MakeList(c)
  <2> DEFINE list == IF call[c].op = "remove" THEN WithoutFirst(wallet.child, call[c].key)
                     ELSE Append(wallet.child, Account(call[c].key, call[c].name, call[c].op = "import"))
             r == [call[c] EXCEPT !.pc = "assign", !.list = list]
  <2>1. call[c].pc = "list" /\ call' = [call EXCEPT ![c] = r] /\ UNCHANGED <<wallet, file, running, calls, blame>>
    BY <1>4 DEF MakeList
  <2>2. call'[c] = r /\ call' \in [Clients -> CallType]
    BY <1>1, <2>1, <1>4, MakeListKeeps DEF WalletInv, WalletTypeOK
  <2>3. r \in CallType
    BY <2>2
  <2> HIDE DEF list
  <2>4. r.pc = "assign" /\ r.op = call[c].op /\ r.list = list
    BY <1>1 DEF CallType
  <2> HIDE DEF r
  <2>5. ASSUME blame \subseteq {"ahead"} PROVE CallNumbered(c)'
    <3>1. /\ call[c].op # "remove" /\ Len(wallet.child) <= calls
          /\ Fits(wallet.seed, wallet.child, call[c].key, call[c].name, blame)
      BY <1>2, <1>3, <2>1, <2>5 DEF CallNumbered
    <3>2. Numbered(wallet.seed, list, calls + 1, blame)
      BY <1>1, <1>2, <1>3, <2>1, <2>5, <3>1, NumberedAppend DEF list
    <3> QED BY <2>1, <2>2, <2>4, <3>1, <3>2 DEF CallNumbered
  <2> QED BY <1>2, <1>3, <2>1, <2>3, <2>5, StepNumbers
<1>5. CASE AssignList(c)
  <2> DEFINE r == [call[c] EXCEPT !.pc = "save", !.list = <<>>]
  <2>1. /\ call[c].pc = "assign" /\ call' = [call EXCEPT ![c] = r]
        /\ wallet' = [wallet EXCEPT !.child = call[c].list] /\ UNCHANGED <<file, running, calls, blame>>
    BY <1>5 DEF AssignList
  <2>2. r \in CallType /\ r.pc = "save" /\ r.op = call[c].op
    <3>1. <<>> \in Seq(AccountType)
      BY EmptySeq
    <3> QED BY <1>1, <3>1 DEF CallType
  <2> HIDE DEF r
  <2>3. call'[c] = r /\ wallet'.seed = wallet.seed /\ wallet'.child = call[c].list
    BY <1>1, <2>1 DEF WalletType
  <2>4. blame \subseteq {"ahead"} => CallNumbered(c)' /\ Numbered(wallet'.seed, wallet'.child, calls + 1, blame)
    BY <1>2, <1>3, <2>1, <2>2, <2>3 DEF CallNumbered
  <2> QED BY <1>2, <1>3, <2>1, <2>2, <2>4, StepNumbers
<1>6. CASE Marshal(c)
  <2> DEFINE r == [call[c] EXCEPT !.pc = "open", !.data = wallet]
  <2>1. call[c].pc = "save" /\ call' = [call EXCEPT ![c] = r] /\ UNCHANGED <<wallet, file, running, calls, blame>>
    BY <1>6 DEF Marshal
  <2>2. r \in CallType /\ r.pc = "open" /\ r.op = call[c].op /\ r.data = wallet
    BY <1>1 DEF CallType
  <2> HIDE DEF r
  <2>3. call'[c] = r
    BY <1>1, <2>1
  <2>4. blame \subseteq {"ahead"} => CallNumbered(c)'
    BY <1>2, <1>3, <2>1, <2>2, <2>3 DEF CallNumbered
  <2> QED BY <1>2, <1>3, <2>1, <2>2, <2>4, StepNumbers
<1>7. CASE OpenFile(c)
  <2> DEFINE r == [call[c] EXCEPT !.pc = "write"]
  <2>1. /\ call[c].pc = "open" /\ call' = [call EXCEPT ![c] = r]
        /\ file' = [kind |-> "empty", data |-> NoWallet] /\ UNCHANGED <<wallet, running, calls, blame>>
    BY <1>7 DEF OpenFile
  <2>2. r \in CallType /\ r.pc = "write" /\ r.op = call[c].op /\ r.data = call[c].data
    BY <1>1 DEF CallType
  <2> HIDE DEF r
  <2>3. call'[c] = r /\ file'.kind = "empty"
    BY <1>1, <2>1
  <2>4. blame \subseteq {"ahead"} => CallNumbered(c)'
    BY <1>2, <1>3, <2>1, <2>2, <2>3 DEF CallNumbered
  <2> QED BY <1>2, <1>3, <2>1, <2>2, <2>3, <2>4, StepNumbers
<1>8. CASE WriteFile(c)
  <2>1. /\ call[c].pc = "write" /\ call' = [call EXCEPT ![c] = Idle] /\ UNCHANGED <<wallet, running, calls, blame>>
        /\ file' = [kind |-> "full", data |-> call[c].data] \/ file' = [kind |-> "part", data |-> NoWallet]
    BY <1>8 DEF WriteFile, Written
  <2>2. Idle \in CallType /\ Idle.op = "idle" /\ Idle.pc = "idle"
    BY NoWalletType
  <2>3. call'[c] = Idle /\ (file'.kind = "full" => file'.data = call[c].data)
    BY <1>1, <2>1
  <2>4. blame \subseteq {"ahead"} => CallNumbered(c)'
    BY <2>2, <2>3 DEF CallNumbered
  <2>5. blame \subseteq {"ahead"} /\ file'.kind = "full" => Numbered(file'.data.seed, file'.data.child, calls + 1, blame)
    BY <1>2, <1>3, <2>1, <2>3 DEF CallNumbered
  <2> QED BY <1>2, <1>3, <2>1, <2>2, <2>4, <2>5, StepNumbers
<1> QED BY <1>4, <1>5, <1>6, <1>7, <1>8

\* Every step keeps the lists numbered.
LEMMA NextNumbers ==
    ASSUME WalletInv, NumberedInv, [WalletNext]_walletVars
    PROVE  NumberedInv'
<1>1. calls \in Nat /\ seeds \in Nat
  BY DEF WalletInv, WalletTypeOK
<1>2. ASSUME NEW c \in Clients, WriteFileFails(c) PROVE NumberedInv'
  <2>1. calls' = calls /\ ~(blame' \subseteq {"ahead"}) /\ running' = running /\ wallet' = wallet
    BY <1>2 DEF WriteFileFails
  <2> QED BY <2>1 DEF NumberedInv
<1>3. CASE Crash
  <2>1. /\ calls' = calls /\ running' = FALSE /\ wallet' = NoWallet /\ call' = [c \in Clients |-> Idle]
        /\ blame' = blame \cup (IF file'.kind # "full" THEN {"torn"} ELSE {})
        /\ file' = file \/ file' = [kind |-> "part", data |-> NoWallet]
    BY <1>3 DEF Crash
  <2>2. blame' \subseteq {"ahead"} => blame \subseteq {"ahead"} /\ file' = file
    BY <2>1
  <2>3. \A c \in Clients : call'[c].op = "idle" /\ call'[c].pc = "idle"
    BY <2>1, NoWalletType
  <2> QED BY <2>1, <2>2, <2>3 DEF NumberedInv, CallNumbered
<1>4. ASSUME NEW pass \in Passphrases, LoadWallet(pass) PROVE NumberedInv'
  <2>1. /\ ~running /\ running' = TRUE /\ file.kind = "full" /\ wallet' = file.data
        /\ UNCHANGED <<file, call, calls, blame>>
    BY <1>4 DEF LoadWallet, CanLoad
  <2>2. \A c \in Clients : call'[c].op = "idle" /\ call'[c].pc = "idle"
    BY <2>1, NoCallWhenDown
  <2> QED BY <2>1, <2>2 DEF NumberedInv, CallNumbered
<1>5. ASSUME NEW pass \in Passphrases, AutoInit(pass) PROVE NumberedInv'
  <2>1. /\ ~running /\ running' = TRUE /\ wallet' = NewWallet(seeds + 1, pass)
        /\ file' = [kind |-> "full", data |-> wallet'] /\ blame \subseteq blame' /\ UNCHANGED <<call, calls>>
    BY <1>5 DEF AutoInit
  <2>2. \A c \in Clients : call'[c].op = "idle" /\ call'[c].pc = "idle"
    BY <2>1, NoCallWhenDown
  <2>3. Numbered(wallet'.seed, wallet'.child, calls + 1, blame')
    <3>1. seeds + 1 \in Nat \ {0}
      BY <1>1
    <3>2. Numbered(NewWallet(seeds + 1, pass).seed, NewWallet(seeds + 1, pass).child, calls + 1, blame')
      BY <1>1, <3>1, NewWalletIsNumbered
    <3> QED BY <2>1, <3>2
  <2>4. file'.data = wallet'
    BY <2>1
  <2> QED BY <2>1, <2>2, <2>3, <2>4 DEF NumberedInv, CallNumbered
<1>6. CASE UNCHANGED walletVars
  <2>1. UNCHANGED <<wallet, file, running, call, calls, blame>>
    BY <1>6 DEF walletVars
  <2> QED BY <2>1 DEF NumberedInv, CallNumbered, Fits, HasKey, HasName
<1>7. CASE WalletNext
  BY <1>2, <1>3, <1>4, <1>5, <1>7, CallsNumber, CallStepsNumber DEF WalletNext
<1> QED BY <1>6, <1>7

\* A node that is down has no accounts.
LEMMA WithoutWallet ==
    ASSUME NumberedInv, ~running
    PROVE  DOMAIN wallet.child = {}
<1>1. wallet = NoWallet
  BY DEF NumberedInv
<1>2. NoWallet.child = <<>>
  BY DEF NoWallet
<1>3. DOMAIN <<>> = {}
  OBVIOUS
<1> QED BY <1>1, <1>2, <1>3

\* Balances of a numbered list are numbers.
LEMMA BalancesAreNumbers ==
    ASSUME NumberedInv, blame \subseteq {"ahead"}, NEW i \in DOMAIN wallet.child,
           wallet.child \in Seq(AccountType), calls \in Nat
    PROVE  Balance(wallet.child[i].key) \in Nat
<1> DEFINE m == Len(wallet.child)
<1>1. running
  <2> SUFFICES ASSUME ~running PROVE FALSE
    OBVIOUS
  <2>1. DOMAIN wallet.child = {}
    BY WithoutWallet
  <2> QED BY <2>1
<1>2. wallet.child[i].key \in AccountKeys(wallet.seed, m) /\ m <= calls + 1 /\ calls <= MaxCalls
  BY <1>1 DEF NumberedInv, Numbered
<1>3. m \in Nat
  BY LenProperties
<1>4. wallet.child[i].key[2] \in Foreign \cup 0..(m - 1)
  BY <1>2 DEF AccountKeys
<1>5. 0..(m - 1) \subseteq 0..MaxCalls
  BY <1>2, <1>3, WalletAssumption
<1>6. wallet.child[i].key[2] \in DOMAIN Coins
  BY <1>4, <1>5, WalletAssumption
<1> QED BY <1>6, WalletAssumption DEF Balance

\* Of the accounts of each name one is the first and one the last.
LEMMA FirstAndLast ==
    ASSUME NEW m \in Nat, NEW S \in SUBSET (1..m), S # {}
    PROVE  /\ Min(S) \in S /\ Max(S) \in S
<1>1. \E x \in S : \A y \in S : x <= y
  BY LeastNatural
<1>2. \E x \in S : \A y \in S : y <= x
  <2> DEFINE T == {m - y : y \in S}
  <2>1. T \in SUBSET Nat /\ T # {}
    <3>1. \A y \in S : y \in 1..m /\ m - y \in Nat
      OBVIOUS
    <3> QED BY <3>1
  <2>2. PICK t \in T : \A u \in T : t <= u
    <3> HIDE DEF T
    <3> QED BY <2>1, LeastNatural
  <2>3. PICK x \in S : t = m - x
    BY <2>2
  <2>4. \A y \in S : m - y \in T
    OBVIOUS
  <2> HIDE DEF T
  <2>5. \A y \in S : y <= x
    BY <2>2, <2>3, <2>4
  <2> QED BY <2>5
<1> QED BY <1>1, <1>2 DEF Min, Max

\* A sum over the names that takes one account of each counts no coin twice,
\* and leaves none out when no two accounts have a name in common.
LEMMA OneOfEachName ==
    ASSUME NEW D, NEW f, Summable(D, f), NEW names, NEW pick, NEW g,
           \A i \in D : pick[names[i]] \in D /\ names[pick[names[i]]] = names[i] /\ g[names[i]] = f[pick[names[i]]]
    PROVE  /\ SumOver(ImageOf(names, D), g) <= SumOver(D, f)
           /\ (\A i, j \in D : names[i] = names[j] => i = j) => SumOver(ImageOf(names, D), g) = SumOver(D, f)
<1> DEFINE P == {pick[names[i]] : i \in D}
<1>1. P \in SUBSET D
  OBVIOUS
<1>2. ImageOf(names, P) = ImageOf(names, D)
  BY DEF ImageOf
<1>3. \A i, j \in P : names[i] = names[j] => i = j
  OBVIOUS
<1>4. \A i \in P : g[names[i]] = f[i]
  OBVIOUS
<1>5. (\A i, j \in D : names[i] = names[j] => i = j) => P = D
  OBVIOUS
<1> HIDE DEF P
<1>6. Summable(P, f)
  <2>1. IsFiniteSet(P)
    BY <1>1, FS_Subset, Zenon DEF Summable
  <2> QED BY <1>1, <2>1 DEF Summable
<1>7. SumOver(ImageOf(names, P), g) = SumOver(P, f)
  BY <1>3, <1>4, <1>6, SumOverImage
<1>8. SumOver(P, f) <= SumOver(D, f)
  BY <1>1, SumOverPart
<1> QED BY <1>2, <1>5, <1>7, <1>8

\* The balance of all accounts counts each coin of the wallet once, since no
\* two accounts have a key in common, and the two by name count none twice, and
\* none is left out as long as no caller gives an account the default name of
\* one to come (rpcfunctionwallet.go; wallet.go, CreateNewAccount).
THEOREM BalancesOfAccountsAgree == WalletSpec => []BalancesAgree
<1>1. WalletInv /\ NumberedInv => BalancesAgree
  <2> DEFINE child == wallet.child
             D == DOMAIN child
             f == [i \in D |-> Balance(child[i].key)]
             keys == [i \in D |-> child[i].key]
             names == [i \in D |-> child[i].name]
             byKey == [k \in KeysOf(child) |-> Balance(k)]
             N == {child[i].name : i \in D}
             named(n) == {i \in D : child[i].name = n}
             byName == [n \in N |-> handleGetBalance(n)]
             first == [n \in N |-> Min(named(n))]
             last == [n \in N |-> Max(named(n))]
             distinct == \A i, j \in D : child[i].name = child[j].name => i = j
  <2> SUFFICES ASSUME WalletInv, NumberedInv, blame \subseteq {"ahead"} PROVE BalancesAgree
    BY DEF BalancesAgree
  <2>1. child \in Seq(AccountType) /\ calls \in Nat
    BY DEF WalletInv, WalletTypeOK, WalletType
  <2>2. D = 1..Len(child) /\ Len(child) \in Nat
    BY <2>1
  <2>3. Summable(D, f)
    <3>1. IsFiniteSet(D)
      BY <2>2, FS_Interval
    <3>2. \A i \in D : f[i] \in Nat
      BY <2>1, BalancesAreNumbers
    <3> HIDE DEF f, D
    <3> QED BY <3>1, <3>2 DEF Summable
  <2>4. (\A i, j \in D : child[i].key = child[j].key => i = j) /\ (blame = {} => distinct)
    <3>1. CASE running
      BY <3>1 DEF NumberedInv, Numbered, Named
    <3>2. CASE ~running
      <4>1. D = {}
        BY <3>2, WithoutWallet
      <4> QED BY <4>1
    <3> QED BY <3>1, <3>2
  <2>5. SumOver(KeysOf(child), byKey) = SumOver(D, f)
    <3>1. ImageOf(keys, D) = KeysOf(child)
      BY DEF ImageOf, KeysOf
    <3>2. \A i, j \in D : keys[i] = keys[j] => i = j
      BY <2>4
    <3>3. \A i \in D : byKey[keys[i]] = f[i]
      BY DEF KeysOf
    <3> HIDE DEF keys, byKey, f, D
    <3> QED BY <2>3, <3>1, <3>2, <3>3, SumOverImage
  <2>6. ImageOf(names, D) = N /\ (distinct => \A i, j \in D : names[i] = names[j] => i = j)
    BY DEF ImageOf
  <2>7. ASSUME NEW i \in D
        PROVE  /\ first[names[i]] \in named(names[i]) /\ last[names[i]] \in named(names[i])
               /\ first[names[i]] = Min(named(names[i])) /\ last[names[i]] = Max(named(names[i]))
               /\ i \in named(names[i])
    <3> DEFINE S == named(names[i])
    <3>1. i \in S /\ S \in SUBSET (1..Len(child)) /\ S # {}
      BY <2>2
    <3>2. first[names[i]] = Min(S) /\ last[names[i]] = Max(S)
      OBVIOUS
    <3> HIDE DEF S, first, last
    <3>3. Min(S) \in S /\ Max(S) \in S
      BY <2>2, <3>1, FirstAndLast
    <3> QED BY <3>1, <3>2, <3>3 DEF S
  <2>8. /\ SumOver(N, byName) <= SumOver(D, f)
        /\ distinct => SumOver(N, byName) = SumOver(D, f)
    <3>1. ASSUME NEW i \in D
          PROVE  first[names[i]] \in D /\ names[first[names[i]]] = names[i] /\ byName[names[i]] = f[first[names[i]]]
      <4>1. handleGetBalance(names[i]) = Balance(child[Min(named(names[i]))].key)
        BY <2>7 DEF handleGetBalance
      <4>2. byName[names[i]] = handleGetBalance(names[i])
        OBVIOUS
      <4>3. first[names[i]] \in D /\ child[first[names[i]]].name = names[i]
        BY <2>7
      <4> QED BY <2>7, <4>1, <4>2, <4>3
    <3> HIDE DEF names, byName, first, f, D, N
    <3> QED BY <2>3, <2>6, <3>1, OneOfEachName
  <2>9. /\ SumOver(N, handleListAccounts) <= SumOver(D, f)
        /\ distinct => SumOver(N, handleListAccounts) = SumOver(D, f)
    <3>1. ASSUME NEW i \in D
          PROVE  /\ last[names[i]] \in D /\ names[last[names[i]]] = names[i]
                 /\ handleListAccounts[names[i]] = f[last[names[i]]]
      <4>1. names[i] \in DOMAIN ListAccounts /\ ListAccounts[names[i]] = child[Max(named(names[i]))]
        BY DEF ListAccounts
      <4>2. handleListAccounts[names[i]] = Balance(child[Max(named(names[i]))].key)
        BY <4>1 DEF handleListAccounts
      <4>3. last[names[i]] \in D /\ child[last[names[i]]].name = names[i]
        BY <2>7
      <4> QED BY <2>7, <4>2, <4>3
    <3> HIDE DEF names, last, f, D, N
    <3> QED BY <2>3, <2>6, <3>1, OneOfEachName
  <2>10. handleGetBalanceOfAll = SumOver(D, f)
    BY DEF handleGetBalanceOfAll
  <2> HIDE DEF distinct, f, D, N, byKey, byName
  <2>11. /\ handleGetBalanceOfAll = SumOver(KeysOf(child), byKey)
         /\ SumOver(N, byName) <= SumOver(KeysOf(child), byKey)
         /\ SumOver(N, handleListAccounts) <= SumOver(KeysOf(child), byKey)
         /\ blame = {} => /\ SumOver(N, byName) = SumOver(KeysOf(child), byKey)
                          /\ SumOver(N, handleListAccounts) = SumOver(KeysOf(child), byKey)
    BY <2>4, <2>5, <2>8, <2>9, <2>10
  <2> QED BY <2>11 DEF BalancesAgree, byKey, byName, N, D
<1>2. WalletInit => NumberedInv
  BY NumberedStarts
<1>3. WalletInv /\ NumberedInv /\ [WalletNext]_walletVars => NumberedInv'
  BY NextNumbers
<1> QED BY <1>1, <1>2, <1>3, WalletIsSaved, PTL DEF WalletSpec
=============================================================================
