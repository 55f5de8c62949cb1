----------------------------- MODULE WalletDefault -----------------------------
(*****************************************************************************)
(* The package-level wallet that web3utils/bitcoin, evm, tron and solana     *)
(* each keep: InitDefaultX, DefaultX, CloseDefaultX and the XDefault helpers *)
(* that call a method of DefaultX().  A mutex guards the pointer, so that    *)
(* each function is one step; nothing guards the client inside a wallet,     *)
(* which Close sets to nil while a call may be using it.                     *)
(*****************************************************************************)
EXTENDS Naturals, Sequences

CONSTANTS Users,       \* goroutines, each with one XDefault call at a time
          URLs,        \* networks or RPC URLs given to InitDefaultX
          Unset,       \* the one in force before the first InitDefaultX
          Endpoints,   \* endpoints given to InitDefaultTronWithEndpoints
          NoURL,       \* the empty string
          MaxWallets   \* bound on the wallets made

DefaultsAssumption == /\ Unset \notin URLs /\ NoURL \notin URLs \cup Endpoints \cup {Unset}
                      /\ MaxWallets \in Nat

VARIABLES
  kind,         \* the package
  default,      \* the number of its default wallet, 0 for nil
  saved,        \* defaultNetwork or defaultRPCURL, and the endpoints of tron
  initCount,
  wallets,      \* the wallets made, in their order: what each dialled, its client
                \* now, and (history) as it was made
  using,        \* using[u]: the wallet and the stage of the call of u
  (* history *)
  asked,        \* what the last InitDefaultX was given
  byUser        \* wallets that a user closed

defaultVars == <<kind, default, saved, initCount, wallets, using, asked, byUser>>

Kinds == {"bitcoin", "evm", "tron", "solana"}

Config(url, endpoint) == [url |-> url, endpoint |-> endpoint]

Init == /\ kind \in Kinds
        /\ default = 0
        /\ saved = Config(Unset, NoURL) /\ asked = saved
        /\ initCount = 0
        /\ wallets = <<>>
        /\ using = [u \in Users |-> [wallet |-> 0, stage |-> "none"]]
        /\ byUser = {}

-------------------------------------------------------------------------------
(* A dial may fail; that wallet has no client.  Solana has one if it is told *)
(* a URL, bitcoin always, and evm never before it is told one.               *)
Clients(config) ==
  CASE kind = "bitcoin" -> {"open"}
    [] kind = "tron"    -> {"open", "nil"}
    [] kind = "evm"     -> IF config.url = Unset THEN {"nil"} ELSE {"open", "nil"}
    [] kind = "solana"  -> IF config.url = Unset THEN {"nil"} ELSE {"open"}

(* NewTronWallet dials the endpoints of its network.                         *)
Dialled(config) == IF config.endpoint = NoURL THEN config.url ELSE config.endpoint

NewWallet(config, client) ==
  [dialled |-> Dialled(config), client |-> client, made |-> client]

(* Close: bitcoin only closes its idle connections.                          *)
Closed(w) == IF w = 0 \/ kind = "bitcoin" THEN wallets
             ELSE [wallets EXCEPT ![w].client = "nil"]

Create(config, others) ==
  /\ Len(wallets) < MaxWallets
  /\ \E client \in Clients(config) :
       wallets' = Append(others, NewWallet(config, client))
  /\ default' = Len(wallets) + 1

(* A mutant: the endpoints of the last InitDefaultTronWithEndpoints stay. *)
InitKeepingEndpoints(url) ==
  /\ Create(Config(url, NoURL), Closed(default))
  /\ saved' = [saved EXCEPT !.url = url]
  /\ asked' = Config(url, NoURL)
  /\ initCount' = initCount + 1
  /\ UNCHANGED <<kind, using, byUser>>

(* InitDefaultBTC, InitDefaultEVM, InitDefaultTron, InitDefaultSolana.       *)
InitDefault(url) ==
  /\ Create(Config(url, NoURL), Closed(default))
  /\ saved' = Config(url, NoURL)
  /\ asked' = Config(url, NoURL)
  /\ initCount' = initCount + 1
  /\ UNCHANGED <<kind, using, byUser>>

InitDefaultTronWithEndpoints(url, endpoint) ==
  /\ kind = "tron"
  /\ Create(Config(url, endpoint), Closed(default))
  /\ saved' = Config(url, endpoint)
  /\ asked' = Config(url, endpoint)
  /\ initCount' = initCount + 1
  /\ UNCHANGED <<kind, using, byUser>>

CloseDefault ==
  /\ default # 0
  /\ wallets' = Closed(default)
  /\ default' = 0
  /\ UNCHANGED <<kind, saved, initCount, using, asked, byUser>>

-------------------------------------------------------------------------------
Calls(u, wallet, stage) == using' = [using EXCEPT ![u] = [wallet |-> wallet, stage |-> stage]]

Resting(u) == using[u].stage \notin {"taken", "running"}

(* A call takes DefaultX(), which makes the wallet if there is none.         *)
TakeDefault(u) ==
  /\ Resting(u)
  /\ \/ default # 0 /\ UNCHANGED <<default, wallets>>
     \/ default = 0 /\ Create(saved, wallets)
  /\ Calls(u, default', "taken")
  /\ UNCHANGED <<kind, saved, initCount, asked, byUser>>

(* requireClient.                                                            *)
RequireClient(u) ==
  /\ using[u].stage = "taken"
  /\ Calls(u, using[u].wallet,
           IF wallets[using[u].wallet].client = "nil" THEN "refused" ELSE "running")
  /\ UNCHANGED <<kind, default, saved, initCount, wallets, asked, byUser>>

(* A request of the call, or its last.  A client closed meanwhile answers    *)
(* with an error, and one that is nil when it is read, with a panic: the     *)
(* race decides which.                                                       *)
Request(u) ==
  /\ using[u].stage = "running"
  /\ \/ Calls(u, using[u].wallet, "served")
     \/ /\ wallets[using[u].wallet].client = "nil"
        /\ Calls(u, using[u].wallet, "panicked")
  /\ UNCHANGED <<kind, default, saved, initCount, wallets, asked, byUser>>

(* Close, by anyone whom InitDefaultX or DefaultX gave the wallet.           *)
UserCloses(w) ==
  /\ wallets' = Closed(w)
  /\ byUser' = byUser \cup {w}
  /\ UNCHANGED <<kind, default, saved, initCount, using, asked>>

Next == \/ \E url \in URLs : \/ InitDefault(url)
                             \/ \E e \in Endpoints \cup {NoURL} :
                                  InitDefaultTronWithEndpoints(url, e)
        \/ CloseDefault
        \/ \E u \in Users : TakeDefault(u) \/ RequireClient(u) \/ Request(u)
        \/ \E w \in 1 .. Len(wallets) : UserCloses(w)

Spec == Init /\ [][Next]_defaultVars

-------------------------------------------------------------------------------
TypeOK == /\ default \in 0 .. Len(wallets)
          /\ saved.url \in URLs \cup {Unset} /\ saved.endpoint \in Endpoints \cup {NoURL}
          /\ initCount <= Len(wallets)
          /\ \A u \in Users :
               /\ using[u].wallet \in 0 .. Len(wallets)
               /\ using[u].stage # "none" => using[u].wallet # 0

Down(w) == wallets[w].client = "nil"

(* The default dialled what the last InitDefaultX asked for, also after a    *)
(* CloseDefaultX and in all forms of tron's.  No other wallet keeps its      *)
(* connection.  The default is down only if it never connected or a user     *)
(* closed it: then it stays the default and every call of it is refused.     *)
DefaultFollowsInit ==
  /\ default # 0 => wallets[default].dialled = Dialled(asked)
  /\ kind # "bitcoin" => \A w \in 1 .. Len(wallets) : w # default => Down(w)
  /\ default # 0 /\ Down(default) =>
       default \in byUser \/ wallets[default].made = "nil"

(* A call of the default is refused, or panics, only because its wallet      *)
(* never connected, was closed by a user, or was put out of use after the    *)
(* call took it.                                                             *)
FailsOnlyWhenClosed ==
  \A u \in Users : using[u].stage \in {"refused", "panicked"} =>
    LET w == using[u].wallet IN
    \/ w \in byUser \/ w # default
    \/ using[u].stage = "refused" /\ wallets[w].made = "nil"
===============================================================================
