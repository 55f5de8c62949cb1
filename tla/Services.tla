------------------------------- MODULE Services --------------------------------
(*****************************************************************************)
(* The parts of the repository that speak to a service of somebody else: the *)
(* mailbox, alone (POP3Client) and watched (EmailClient), the dials through  *)
(* a proxy, the wallets of four chains, and the default wallet of each       *)
(* package.  They share nothing: as in Library, the variable part names the  *)
(* one that moves, and the others stay as they were made.                    *)
(*****************************************************************************)
EXTENDS EmailClient

CONSTANTS (* POP3Client, off port 995 *)
          PlainShort, PlainLong, PlainCalls,
          (* BitcoinWallet *)
          Payments, Wallet, NoTransfer, Sweep, Amount, Unconfirmed, Verifying,
          Legacy, Watched, Value, Misread, Rates, MaxInputs, Dust, Overhead,
          FirstSize, Growth,
          (* EVMWallet, TronWallet and SolanaWallet *)
          Transfers, Token, Waiting, Price, Pays, Valid, MaxBlock,
          (* WalletDefault *)
          Users, URLs, Unset, Endpoints, NoURL, MaxWallets

VARIABLES
  part,
  plainConn, plainTLS, plainCall, plainIssued, plainDue, plainHears, plainSlipped,
  dialer, dialPc, raw, deadline, ctx, callback, failed, helper, dialled,
  btcPc, holder, list, rate, tx, btcTold, btcHanded, late, indexed, btcBlind, unseen,
  evmPc, nonce, evmTold, mined, evmPool, evmHanded, evmBlind, since,
  tronPc, tronTold, tronHanded, tronBlind,
  solPc, blockhash, solTold, solSent, block, fate, solBlind,
  kind, default, saved, initCount, wallets, using, asked, byUser

plainVars   == <<plainConn, plainTLS, plainCall, plainIssued, plainDue, plainHears,
                 plainSlipped>>
dialVars    == <<dialer, dialPc, raw, deadline, ctx, callback, failed, helper, dialled>>
btcVars     == <<btcPc, holder, list, rate, tx, btcTold, btcHanded, late, indexed,
                 btcBlind, unseen>>
evmVars     == <<evmPc, nonce, evmTold, mined, evmPool, evmHanded, evmBlind, since>>
tronVars    == <<tronPc, tronTold, tronHanded, tronBlind>>
solVars     == <<solPc, blockhash, solTold, solSent, block, fate, solBlind>>
defaultVars == <<kind, default, saved, initCount, wallets, using, asked, byUser>>
mailVars    == <<emailVars, plainVars, dialVars>>
walletVars  == <<btcVars, evmVars, tronVars, solVars, defaultVars>>
serviceVars == <<part, mailVars, walletVars>>

Plain == INSTANCE POP3Client WITH
  ShortCmds <- PlainShort, LongCmds <- PlainLong, Implicit <- FALSE,
  MaxCalls <- PlainCalls,
  conn <- plainConn, tlsEstablished <- plainTLS, call <- plainCall,
  issued <- plainIssued, due <- plainDue, hears <- plainHears, slipped <- plainSlipped

Proxied == INSTANCE ProxyDial WITH pc <- dialPc, result <- dialled

Bitcoin == INSTANCE BitcoinWallet WITH
  Transfers <- Payments, Waiting <- Watched,
  pc <- btcPc, told <- btcTold, handed <- btcHanded, blind <- btcBlind

EVM == INSTANCE EVMWallet WITH
  pc <- evmPc, told <- evmTold, pool <- evmPool, handed <- evmHanded, blind <- evmBlind

Tron == INSTANCE TronWallet WITH
  pc <- tronPc, told <- tronTold, handed <- tronHanded, blind <- tronBlind

Solana == INSTANCE SolanaWallet WITH
  pc <- solPc, told <- solTold, sent <- solSent, blind <- solBlind

Default == INSTANCE WalletDefault

ASSUME ServicesAssumption ==
  /\ CommandsAssumption /\ EmailAssumption /\ Plain!CommandsAssumption
  /\ Bitcoin!WalletAssumption /\ EVM!SubsetsAssumption
  /\ Tron!CallsAssumption /\ Solana!CallsAssumption
  /\ Default!DefaultsAssumption

-------------------------------------------------------------------------------
Parts == {"email", "pop3", "proxy", "bitcoin", "evm", "tron", "solana", "default"}

ServicesInit ==
  /\ part \in Parts
  /\ EmailInit /\ Plain!Init
  /\ Proxied!Init /\ (part = "proxy" \/ dialer = "tunnel")
  /\ Bitcoin!Init /\ EVM!Init /\ Tron!Init /\ Solana!Init
  /\ Default!Init /\ (part = "default" \/ kind = "tron")

MoveEmail   == /\ part = "email" /\ EmailNext
               /\ UNCHANGED <<plainVars, dialVars, walletVars>>
MovePlain   == /\ part = "pop3" /\ Plain!Next
               /\ UNCHANGED <<emailVars, dialVars, walletVars>>
MoveDial    == /\ part = "proxy" /\ Proxied!Next
               /\ UNCHANGED <<emailVars, plainVars, walletVars>>
MoveBitcoin == /\ part = "bitcoin" /\ Bitcoin!Next
               /\ UNCHANGED <<mailVars, evmVars, tronVars, solVars, defaultVars>>
MoveEVM     == /\ part = "evm" /\ EVM!Next
               /\ UNCHANGED <<mailVars, btcVars, tronVars, solVars, defaultVars>>
MoveTron    == /\ part = "tron" /\ Tron!Next
               /\ UNCHANGED <<mailVars, btcVars, evmVars, solVars, defaultVars>>
MoveSolana  == /\ part = "solana" /\ Solana!Next
               /\ UNCHANGED <<mailVars, btcVars, evmVars, tronVars, defaultVars>>
MoveDefault == /\ part = "default" /\ Default!Next
               /\ UNCHANGED <<mailVars, btcVars, evmVars, tronVars, solVars>>

ServicesNext == /\ \/ MoveEmail \/ MovePlain \/ MoveDial \/ MoveBitcoin \/ MoveEVM
                   \/ MoveTron \/ MoveSolana \/ MoveDefault
                /\ UNCHANGED part

ServicesSpec == ServicesInit /\ [][ServicesNext]_serviceVars

-------------------------------------------------------------------------------
(* Every part is well typed.  That holds for more than types: transferMu of  *)
(* a bitcoin wallet is held by exactly the call that is between its Lock and *)
(* its Unlock, and no two live transactions spend one coin.                  *)
ServicesTypeOK ==
  /\ EmailTypeOK /\ Plain!TypeOK /\ Proxied!TypeOK
  /\ Bitcoin!TypeOK /\ EVM!TypeOK /\ Tron!TypeOK /\ Solana!TypeOK
  /\ Default!TypeOK

(* A POP3 call that succeeds has read the answer to its own command, unless  *)
(* a call before it timed out or met a line too long; and nothing goes out   *)
(* in the clear on port 995, or once the client says that TLS is there.      *)
SessionsInStep == InStep /\ TalksTLS /\ Plain!InStep /\ Plain!TalksTLS

(* GetNewEmail returns the newest message, if that is new for the user, or   *)
(* says that there is none when there cannot be more than it missed.         *)
NewMailIsNew == ReturnedIsNew /\ NoneMeansNoMore

(* A dial through a proxy ends with an open connection that nothing closes   *)
(* behind its owner's back, or with none left open, and has something that   *)
(* ends its waits: but for the SOCKS5 of mailboxes, and for the goroutine    *)
(* that websocket leaves behind when the context of its SOCKS5 has ended.    *)
DialsEndCleanly ==
  /\ Proxied!HandsOutOpen /\ Proxied!FailureCloses /\ Proxied!WaitsEnd

(* A bitcoin transfer is refused for want of coins only when they do not     *)
(* suffice, for it or for the P2WPKH input its fee is first taken for, and   *)
(* with verified coins it pays the fee of its size and no more.              *)
FeesAreRight == Bitcoin!InsufficientIsTrue /\ Bitcoin!FeesAreBounded

(* No transfer takes the coins or the nonce of one before it, unless the     *)
(* two overlapped (evm) or the index was behind (bitcoin).                   *)
NothingReplaced == Bitcoin!ReplacedOnlyIfUnseen /\ EVM!ReplacedOnlyIfOverlapping

(* The transfers of every wallet promise what Payment says: an error means   *)
(* that nothing was paid unless the answer to the broadcast was lost, and a  *)
(* confirmation that it was.                                                 *)
TransfersKeepPromise ==
  /\ Bitcoin!KeepsPromise /\ EVM!KeepsPromise
  /\ Tron!KeepsPromise /\ Solana!KeepsPromise

(* The default wallet is the one asked for last, no wallet it replaced stays *)
(* connected, and its calls fail only on a wallet that was taken away or     *)
(* never connected.                                                          *)
DefaultsFollowInit == Default!DefaultFollowsInit /\ Default!FailsOnlyWhenClosed
===============================================================================
