------------------------------- MODULE Wallet -------------------------------
(***************************************************************************)
(* The wallet of a node (wallet/wallet.go), the calls that reach it        *)
(* through the RPC server (rpcserver/rpcfunctionwallet.go) and its start   *)
(* (constant.go).  Every request has a goroutine of its own and nothing    *)
(* locks the wallet, so that a call is a sequence of steps: it looks at    *)
(* the list of accounts, computes the new list, assigns it, marshals the   *)
(* wallet, opens the file, which truncates it, and writes it.              *)
(*                                                                         *)
(* A key is <<seed, index>>: the seed of the wallet it was derived in, of  *)
(* which Init draws a new one, and the index of the child; seed 0 is a key *)
(* of somebody else.  A name is <<0, i>> for "AccountWallet i", <<1, n>>   *)
(* for another name, and <<2, 0>> for the empty one.  A caller may give    *)
(* any of them.                                                            *)
(***************************************************************************)
EXTENDS Integers, FiniteSets, SequencesExt, FiniteSetsExt, Sums

CONSTANTS
    Clients,      \* requests that are served at the same time
    Chosen,       \* the names of their own that callers give, numbers
    Numbers,      \* the i of the names "AccountWallet i" that callers give
    Foreign,      \* indexes of keys of somebody else that are imported
    Passphrases,  \* what a start may be configured with
    AutoInitFlag, \* the flag walletautoinit
    Coins,        \* Coins[i]: what the chain holds for the key with index i
    MaxCalls, MaxCrashes

ASSUME WalletAssumption ==
    /\ Chosen \subseteq Nat /\ Numbers \subseteq Nat /\ Foreign \subseteq Nat
    /\ MaxCalls \in Nat
    /\ 0 .. MaxCalls \cup Foreign \subseteq DOMAIN Coins
    /\ Coins \in [DOMAIN Coins -> Nat]

VARIABLES
    wallet,   \* the wallet in memory, [seed, pass, child]
    file,     \* the file: [kind, data]
    running,  \* whether the node is up
    call,     \* what each client's request is doing
    seeds,    \* how many seeds have been drawn
    calls, crashes,
    due,      \* the keys that a caller counts on, by the answers it got
    blame     \* what has happened that the wallet does not withstand

walletVars == <<wallet, file, running, call, seeds, calls, crashes, due, blame>>

EmptyName == <<2, 0>>
DefaultName(i) == <<0, i>>
Names == {<<1, n>> : n \in Chosen} \cup {DefaultName(i) : i \in Numbers} \cup {EmptyName}

Account(key, name, imported) == [key |-> key, name |-> name, imported |-> imported]
NoWallet == [seed |-> 0, pass |-> "", child |-> <<>>]
Idle == [op |-> "idle", pc |-> "idle", list |-> <<>>, key |-> <<>>, name |-> <<>>, data |-> NoWallet]

KeysOf(child) == {child[i].key : i \in DOMAIN child}
HasName(child, name) == \E i \in DOMAIN child : child[i].name = name
HasKey(child, key) == \E i \in DOMAIN child : child[i].key = key

\* Init(passPhrase, 0, name): one account.
NewWallet(seed, pass) ==
    [seed |-> seed, pass |-> pass, child |-> <<Account(<<seed, 0>>, DefaultName(0), FALSE)>>]

\* A node that is started, with a wallet or without.
WalletInit ==
    /\ \/ /\ file = [kind |-> "none", data |-> NoWallet]
          /\ seeds = 0 /\ due = {}
       \/ /\ \E pass \in Passphrases : file = [kind |-> "full", data |-> NewWallet(1, pass)]
          /\ seeds = 1 /\ due = {<<1, 0>>}
    /\ wallet = NoWallet
    /\ running = FALSE
    /\ call = [c \in Clients |-> Idle]
    /\ calls = 0 /\ crashes = 0
    /\ blame = {}

-----------------------------------------------------------------------------
\* The calls.

\* Nothing stops a caller from giving the default name of an account to come.
IsAhead(name) == \E i \in Numbers : i > Len(wallet.child) /\ name = DefaultName(i)

Starts(c, request) ==
    /\ running /\ call[c] = Idle /\ calls < MaxCalls
    /\ calls' = calls + 1
    /\ call' = [call EXCEPT ![c] = request]
    /\ blame' = blame \cup (IF \E d \in Clients : call[d] # Idle THEN {"overlap"} ELSE {})
                      \cup (IF request.op = "remove" THEN {"removed"} ELSE {})
                      \cup (IF IsAhead(request.name) THEN {"ahead"} ELSE {})
    /\ UNCHANGED <<wallet, file, running, seeds, crashes, due>>

\* The index of a new account is the number of accounts.  With an existing
\* name the call only reads.
GetAccountAddress(c, name) ==
    /\ ~HasName(wallet.child, name)
    /\ LET n == Len(wallet.child)
       IN  Starts(c, [Idle EXCEPT !.op = "create", !.pc = "list",
                        !.key = <<wallet.seed, n>>,
                        !.name = IF name = EmptyName THEN DefaultName(n) ELSE name])

\* A mutant: the name may be there already.
ImportAccountAnyName(c, key, name) ==
    /\ ~HasKey(wallet.child, key)
    /\ Starts(c, [Idle EXCEPT !.op = "import", !.pc = "list", !.key = key, !.name = name])

ImportAccount(c, key, name) ==
    /\ ~HasKey(wallet.child, key) /\ ~HasName(wallet.child, name)
    /\ Starts(c, [Idle EXCEPT !.op = "import", !.pc = "list", !.key = key, !.name = name])

RemoveAccount(c, key) ==
    /\ HasKey(wallet.child, key)
    /\ Starts(c, [Idle EXCEPT !.op = "remove", !.pc = "list", !.key = key])

\* The fee is kept in the part of the wallet that is not saved.
SetTxFee(c) == Starts(c, [Idle EXCEPT !.op = "fee", !.pc = "save"])

WithoutFirst(child, key) ==
    LET i == Min({j \in DOMAIN child : child[j].key = key})
    IN  IF HasKey(child, key) THEN RemoveAt(child, i) ELSE child

MakeList(c) ==
    /\ call[c].pc = "list"
    /\ call' = [call EXCEPT ![c].pc = "assign", ![c].list =
                  IF call[c].op = "remove" THEN WithoutFirst(wallet.child, call[c].key)
                  ELSE Append(wallet.child, Account(call[c].key, call[c].name, call[c].op = "import"))]
    /\ UNCHANGED <<wallet, file, running, seeds, calls, crashes, due, blame>>

\* A mutant: a new account is not saved.
AssignListUnsaved(c) ==
    /\ call[c].pc = "assign"
    /\ wallet' = [wallet EXCEPT !.child = call[c].list]
    /\ call' = [call EXCEPT ![c] = IF @.op = "create" THEN Idle ELSE [@ EXCEPT !.pc = "save", !.list = <<>>]]
    /\ due' = IF call[c].op = "create" THEN due \cup {call[c].key} ELSE due
    /\ UNCHANGED <<file, running, seeds, calls, crashes, blame>>

AssignList(c) ==
    /\ call[c].pc = "assign"
    /\ wallet' = [wallet EXCEPT !.child = call[c].list]
    /\ call' = [call EXCEPT ![c].pc = "save", ![c].list = <<>>]
    /\ UNCHANGED <<file, running, seeds, calls, crashes, due, blame>>

-----------------------------------------------------------------------------
\* Save.

Marshal(c) ==
    /\ call[c].pc = "save"
    /\ call' = [call EXCEPT ![c].pc = "open", ![c].data = wallet]
    /\ UNCHANGED <<wallet, file, running, seeds, calls, crashes, due, blame>>

OpenFile(c) ==
    /\ call[c].pc = "open"
    /\ file' = [kind |-> "empty", data |-> NoWallet]
    /\ call' = [call EXCEPT ![c].pc = "write"]
    /\ UNCHANGED <<wallet, running, seeds, calls, crashes, due, blame>>

\* Who opened the file before somebody else wrote it writes over that, and
\* leaves the end of it when it was longer.
Written(data) ==
    {[kind |-> "full", data |-> data]} \cup
    (IF file.kind = "full" /\ Len(file.data.child) >= Len(data.child)
     THEN {[kind |-> "part", data |-> NoWallet]} ELSE {})

DueAfter(c) ==
    CASE call[c].op \in {"create", "import"} -> due \cup {call[c].key}
      [] call[c].op = "remove" -> due \ {call[c].key}
      [] OTHER -> due

WriteFile(c) ==
    /\ call[c].pc = "write"
    /\ file' \in Written(call[c].data)
    /\ due' = DueAfter(c)
    /\ call' = [call EXCEPT ![c] = Idle]
    /\ UNCHANGED <<wallet, running, seeds, calls, crashes, blame>>

\* No room on the disk: only ImportAccount and SetTxFee tell their caller.
WriteFileFails(c) ==
    /\ call[c].pc = "write"
    /\ file' = [kind |-> "part", data |-> NoWallet]
    /\ due' = IF call[c].op = "import" THEN due ELSE DueAfter(c)
    /\ call' = [call EXCEPT ![c] = Idle]
    /\ blame' = blame \cup {"torn"}
    /\ UNCHANGED <<wallet, running, seeds, calls, crashes>>

-----------------------------------------------------------------------------
\* Crash and start.

\* A write that the crash cuts off leaves an empty file or a part of one.
Crash ==
    /\ running /\ crashes < MaxCrashes
    /\ crashes' = crashes + 1
    /\ running' = FALSE
    /\ wallet' = NoWallet
    /\ call' = [c \in Clients |-> Idle]
    /\ \/ UNCHANGED file
       \/ /\ \E c \in Clients : call[c].pc = "write"
          /\ file' = [kind |-> "part", data |-> NoWallet]
    /\ blame' = blame \cup (IF file'.kind # "full" THEN {"torn"} ELSE {})
    /\ UNCHANGED <<seeds, calls, due>>

\* LoadWallet: the cipher refuses a part of a file and another passphrase.
CanLoad(pass) == file.kind = "full" /\ file.data.pass = pass

LoadWallet(pass) ==
    /\ ~running /\ CanLoad(pass)
    /\ running' = TRUE
    /\ wallet' = file.data
    /\ UNCHANGED <<file, call, seeds, calls, crashes, due, blame>>

\* An empty file ends in a panic (the text is split and its second part
\* taken), any other error in a new wallet, if the flag says so.
AutoInit(pass) ==
    /\ ~running /\ ~CanLoad(pass) /\ file.kind # "empty"
    /\ seeds' = seeds + 1
    /\ running' = TRUE
    /\ wallet' = NewWallet(seeds', pass)
    /\ file' = [kind |-> "full", data |-> wallet']
    /\ blame' = blame \cup (IF file.kind = "none" THEN {} ELSE {"reinit"})
    /\ due' = due \cup {<<seeds', 0>>}
    /\ UNCHANGED <<call, calls, crashes>>

WalletNext ==
    \/ \E c \in Clients :
         \/ \E name \in Names : GetAccountAddress(c, name)
         \/ \E k \in Foreign, name \in Names : ImportAccount(c, <<0, k>>, name)
         \/ \E k \in due : ImportAccount(c, k, <<1, 0>>)
         \/ \E key \in due : RemoveAccount(c, key)
         \/ SetTxFee(c)
         \/ MakeList(c) \/ AssignList(c) \/ Marshal(c) \/ OpenFile(c) \/ WriteFile(c) \/ WriteFileFails(c)
    \/ Crash
    \/ \E pass \in Passphrases : LoadWallet(pass)
    \/ AutoInitFlag /\ \E pass \in Passphrases : AutoInit(pass)

WalletSpec == WalletInit /\ [][WalletNext]_walletVars

-----------------------------------------------------------------------------
\* What the RPC server answers about the accounts.

Balance(key) == Coins[key[2]]

handleGetBalanceOfAll == SumOver(DOMAIN wallet.child, [i \in DOMAIN wallet.child |-> Balance(wallet.child[i].key)])

handleGetBalance(name) ==
    LET S == {i \in DOMAIN wallet.child : wallet.child[i].name = name}
    IN  IF S = {} THEN 0 ELSE Balance(wallet.child[Min(S)].key)

\* ListAccounts is a map by name: the last account of a name is in it.
ListAccounts ==
    [n \in {wallet.child[i].name : i \in DOMAIN wallet.child} |->
        wallet.child[Max({i \in DOMAIN wallet.child : wallet.child[i].name = n})]]

handleListAccounts == [n \in DOMAIN ListAccounts |-> Balance(ListAccounts[n].key)]

-----------------------------------------------------------------------------
(***************************************************************************)
(* An account that GetAccountAddress or ImportAccount has answered with,   *)
(* and that was not removed, is in the wallet after any number of crashes  *)
(* and starts, as long as calls come one at a time, no crash or failure    *)
(* falls into the write of Save, and no start replaces the wallet.  Each   *)
(* of the three loses accounts.                                            *)
(***************************************************************************)
AccountsSurvive ==
    running /\ blame \cap {"overlap", "torn", "reinit"} = {} /\ (\A c \in Clients : call[c].op # "remove")
        => due \subseteq KeysOf(wallet.child)

(***************************************************************************)
(* Until an account is removed, and while calls come one at a time and the *)
(* file is whole, no two accounts have one key, although an index is only  *)
(* the number of accounts: the balance of all accounts counts each coin    *)
(* once, and neither the balances by name nor the list of accounts counts  *)
(* one twice.  These two leave none out as long as no caller gives         *)
(* "AccountWallet i" with i beyond the number of accounts: with one        *)
(* account, GetAccountAddress("AccountWallet 2") and then                  *)
(* GetAccountAddress("") leave two accounts of one name, since             *)
(* CreateNewAccount does not look for the name it makes up.                *)
(***************************************************************************)
BalancesAgree ==
    LET names == {wallet.child[i].name : i \in DOMAIN wallet.child}
        total == SumOver(KeysOf(wallet.child), [k \in KeysOf(wallet.child) |-> Balance(k)])
        byName == SumOver(names, [n \in names |-> handleGetBalance(n)])
        listed == SumOver(names, handleListAccounts)
    IN  blame \subseteq {"ahead"} =>
            /\ handleGetBalanceOfAll = total
            /\ byName <= total /\ listed <= total
            /\ blame = {} => byName = total /\ listed = total

=============================================================================
