# public_golibs in TLA+

TLA+ models of the Go libraries in this repository, the TLC runs that check them
and the theorems TLAPS proves about them. The reference is the code: each
definition stands for the lines that `PROJECT.json` names for it under `map`.

- [The system](#the-system): its parts, their state and what is hard about them
- [The modules](#the-modules): what models what
- [The runs](#the-runs): what TLC checks, on which instances, and what it shows
- [Disagreements found](#disagreements-found)
- [Fairness](#fairness)
- [The proofs](#the-proofs)
- [What is not modelled](#what-is-not-modelled)
- [Plan](#plan)

## The system

The repository is a set of independent libraries. They share no state, and the
few that use another one use it as its callers would (proxypool logs through
logger; the programs under `test/` call everything). Each therefore has modules
of its own.

| library | state | operations | what is hard |
|---|---|---|---|
| workerpool | limit and count of workers, queue, stop flag; a condition variable | `Submit`, `Resize`, `WaitIdle`, `Stop`; a dispatcher and a goroutine per task; a package-level pool | lost wakeups, tasks between two counters, submits racing a stop, locks taken in two places |
| filewriter | directory, open handles and a lock per file | `AppendLine`, `SetDir`, `Close`; a package-level writer | two levels of locks, handles closed under their users, files first used while the directory changes |
| websocket | the connection, the heartbeat's stop channel, the write lock, a `WaitGroup` | `Connect`, `Close`, `Reconnect`, `Listen`, `Send`; two heartbeats per connection | everything runs concurrently with everything; connections break at any time, writes block |
| proxypool | list of proxies with use counts and expiry, two locks | `Get`, `Refresh`, `AddProxy`, cleanups, setters; the manager `Proxy` with four modes and a stop flag | a count taken by compare-and-swap outside the lock, refreshes that exclude each other, loops that end by a flag |
| httpclient | transport, proxy, jar, configuration error under one lock | requests that use what they find; setters | settings that change under requests, redirects handled half by net/http |
| httpclienttls | the same, and a closed flag; per exchange a cancelling context, timers, bodies | `DoStream` with its own redirects; `Read` and `Close` of a stream; uploads | timers that race their answer, two owners of every body, many returns |
| pop3client | one connection, plain or TLS; a baseline of messages | commands and their replies, STLS, Quit; `EmailClient`, which polls for new messages | replies that come late, half-read answers, a mailbox that changes between polls |
| web3utils | bitcoin, EVM, tron and solana wallets, a default one of each | transfers: read remote state, sign, broadcast, wait; package-level `InitDefault`, `Default`, `Close` | remote state that is stale when used, broadcasts whose answer is lost, fees that depend on what they pay for, a wallet closed in use |
| logger | none | output | none |

What makes each of them correct, in the order of importance:

- **worker pool**: tasks start in order of acceptance and within the limit;
  accepted tasks end; Stop releases everybody and loses only tasks not begun;
  WaitIdle waits for the pool to be idle.
- **file writer**: a line goes to the file it is meant for, in the directory set;
  no handle leaks; calls return.
- **websocket client**: one connection and one set of heartbeats; none leaks;
  each is closed once; Close returns.
- **proxy pool**: no use beyond a proxy's limit and none lost; one refresh at a
  time; nothing is handed out that is not in the pool; calls return.
- **HTTP clients**: requests go the way that was asked for, or are refused;
  cookies and credentials go where they belong; every body is closed once, by
  its owner; an expired timer harms only what it was set for.
- **POP3 client**: replies belong to their commands; new messages are seen.
- **wallets**: one transfer is one transaction, and what it tells its caller about it
  is true; it neither takes the coins or the nonce of another nor pays a wrong fee; the
  default wallet is the one asked for last.

`PROJECT.json` lists under `hazards` every place where these could go wrong in
a way a test would hardly reach, with the properties that watch over it.

## The modules

### Worker pool

`WorkerPool` is `workerpool.Pool`. A step is one atomic access, one channel
operation or one critical section. `dispatcher` is where the dispatcher goroutine
is, `task[t]` how far a task has come; `Receive`, `LockMu`, `TestLimit`, ... are the
dispatcher's steps, `SubmitBegin` to `SubmitSend` those of a Submit, and so on. `Cond.Wait` is two steps, so
that a signal can be lost between them. Integers are `int32` through `Half`.
`TaskPool` is what a pool promises, without a goroutine in sight; `WorkerPool`
implements it by `KeepsPromise`. `WorkerPoolDefault` is the package-level pool of
`singleton.go`: `defaultMu` guards the pointer, but calls act on the pool after
releasing it.

### File writer

`FileWriter` is `filewriter.FileWriter`: `mu`, never held across another lock, so a section under
it is a step; a lock per file, held by an append while it uses its handle, and by
`Close` and `SetDir`, which take those that exist when they begin, in order. Opening
and writing may fail. `FileWriterDefault` is the package-level writer, which `Default`
builds outside the lock. Building it may fail (`BuildFails`), and so may the writer's own
SetDir: then the default directory has changed and the writer's has not, which
`unswitched` records.

### Websocket client

`WebSocketClient`: the calls `Connect`, `Close`, `Reconnect` and `Listen`, the
senders and the heartbeats, each with its own program counter. Connections and stop channels are named by
the call that dialled. `Break` is the peer or the network. Shutting a connection down joins
the errors of its close frame and of closing it (`closeErr`); on one, Reconnect gives up. gorilla/websocket is
external: a write may block while its connection is open and fails when it is not.

### Proxy pool

`ProxyPool` is the pool: `Get` with its refresh, `Refresh`, `AddProxy`, `Remove`,
`Clear`, `Cleanup` and the setters. Time is the set of proxies that have expired,
which grows at any moment. The API answers a list or fails. `granted` and `peak`
are history: uses since the last reset, and the highest limit there was.
`ProxyManager` is `Proxy`, with the loop of `MustGetProxy`; a pool there succeeds
or fails.

### HTTP clients

- `StreamBody` is `streamBody` of httpclienttls: one reader, closers, the idle
  timer, a context with the first cause.
- `DoStream` is one call of `DoStream` with its redirects. `uploads` and
  `responses` record who owns the bodies of each hop; `cause` and `timer` are the
  context and the header timer; `auth`, `explicit` and `jar` are what a request
  may carry of credentials and cookies, and `away` says whether the redirects have left
  the first origin: until then they are kept (an explicit cookie, until the server sets it), and
  afterwards they never come back.
- `UploadBody` is `uploadBody`: `Close` against the callback of the context, and the check of the length.
- `TLSClient` and `HTTPClient` are the settings of the two clients against requests under
  way. A jar holds the numbers of the jars whose requests have set cookies in it,
  so that a cookie in the wrong jar shows. Both implement `HTTPPolicy`: a request
  goes the way last asked for or is refused.
- `BrowserHeaders` is what httpclienttls tells servers about a chain of redirects:
  `Farther` keeps the worst that `FetchSite` has said so far, as the code does hop by hop;
  `SiteIsHonest` compares it with all targets of the chain (`visited`). One key stands
  for the client hints and for `Sec-Fetch-Mode`, `-Dest` and `-User`.
- `DoRequest` is `doRequest` of httpclient over redirects: which value of a cookie, the
  explicit one or the jar's, goes to which host. net/http is external, and `sticky` says
  which of its two behaviours the program is built with: since Go 1.23.5 an explicit header
  stays dropped for the rest of a chain that has left the domain of the first host; before,
  each hop was compared with the one before it. `Opaque` hosts are those that idna rejects,
  IPv6 addresses among them.

`Exchange` composes `StreamBody` and `UploadBody`: with HTTP/2 an upload may go on while
the response is read, and both hang on one context. The step of the stream that ends
the context is the `Cancel` of the upload.

### Mailboxes

`POP3Client` is one session. What the server has sent and the client has not read is
`due`, a sequence of lines; `n` in a line is the command it answers, which nothing on
the wire says. Every read can time out, in the middle of a line too, and break. `hears`
is what the server expects: text, TLS, a handshake, or nothing any more. `EmailClient`
extends it by the methods of `EmailClient` in the code, each a sequence of such commands
(`at` is what it waits for) on a mailbox of which the server shows a session a snapshot.

`ProxyDial` is one dial through a proxy, with the differences of the three packages that have
one (`dialer` says which). In httpclienttls the end of a context closes the connection from a
callback (`Callback`), while the dial goes on to its end; `Join`, `Check` and `CloseRaw` are its
deferred functions in the order they run. In websocket a goroutine dials and then shakes hands (`HelperDials`, `HelperShakes`) for
a caller who may be gone, without a deadline; in pop3client a timeout is all there is. The SOCKS5 of
golang.org/x/net is external: it ends with its context if it is given one, and closes
what it cannot use.

### Wallets

`Payment` is what every transfer promises, whatever the chain: at most one
transaction, an error only if none was handed over or the answer to the broadcast was
lost, a confirmation only of what was carried out. A failure may be told of a transaction
that ran without effect in a block which the chain drops later ("failing"), as solana tells
it before it looks at the commitment. `EVMWallet`, `BitcoinWallet`,
`TronWallet` and `SolanaWallet` implement it by `KeepsPromise`; each is the calls of
`TransferCoin`, `TransferToken` or `TransferAll`, one request to the network a step.
What the network does is external and as free as it may be: it refuses, replaces and
drops transactions, runs them in vain, and loses answers. Of the amounts,
`BitcoinWallet` keeps all, since they choose the coins and make the fee: `SelectUTXOs`, `Fund` (the
loop of `NewUnsignedTransaction`), `Verify` and the sweep are translated. The library asks
first for the fee of one P2WPKH input (`FirstSize`) whatever the address is, and a
legacy input may be larger signed than estimated (`Growth`: an uncompressed key takes about 32
bytes more). All this is against an index that lags behind the node (`indexed`) and may misread a coin. The other
wallets reduce amounts to whether they suffice. `EVMWallet` keeps nonces, `SolanaWallet` blockhashes
and signatures, of which two equal transfers have one. `WalletDefault` is the
`singleton.go` of all four packages (`kind` says which), with what the endpoints are and
which wallet still has its client.

### Services

`Services` composes the mailboxes, the proxy dials and the wallets as `Library` does the parts below:
they share nothing, and `part` names the one that moves.

### The parts behind one lock

`Library` composes the parts that are small because one lock guards them: `TLSClient`,
`HTTPClient`, `DoRequest`, `BrowserHeaders`, the two package-level defaults and `ProxyManager`. They share
no state, so a behaviour of all of them projects to a behaviour of each, and an
invariant of one part cannot depend on the others. `part` names the one that moves in a
behaviour; the others stay as they were made. One run therefore checks them all, at the
cost of the sum of their states and not of the product.

Modules named `MC...` give TLC functions and sets a `.cfg` cannot write. Definitions
that a comment calls a mutant are wrong on purpose: each is a plausible slip in one
definition, and the property it is paired with in `PROJECT.json` must fail under it.

## The runs

| run | module | checks | shows |
|---|---|---|---|
| `WorkerPool_safety` | `MCWorkerPool` | `TypeOK`, `ShrinkOvershootsByOne`, `NeverParkedIdle`, `KeepsPromise` | Three concurrent Submit calls on a queue of two, a Resize, a Stop and a WaitIdle in every interleaving: the counters agree with the goroutines, and every step is one of the abstract pool TaskPool (order, limit, no task lost but by Stop). |
| `WorkerPool_progress` | `MCWorkerPool` | `PoolGoesOn` | Four tasks that end unless they wait in a Submit of their own, a queue of one, a pool of one or two, a Resize and a Stop: accepted tasks end unless every worker is stuck in a Submit, which Stop releases, and a Resize whose broadcast finds the dispatcher waiting; and the dispatcher ends after Stop. |
| `FileWriter_writer` | `MCFileWriter` | `NoHandleLeaks`, `SwitchDisturbsOnlyNew`, `EveryCallReturns` | Three appends to two files, a Close and a SetDir in every interleaving, with opens and writes that fail: who may hold which handle, and that calls which wait for each other's locks return. |
| `WebSocketClient_client` | `MCWebSocketClient` | `NoConnLeaks`, `ShutOnce`, `CloseReturns`, `HeartbeatsEnd` | A Connect, a Reconnect, a cancellable Listen and a heartbeat in every interleaving, with connections that break and writes that block at any time. |
| `ProxyPool_pool` | `MCProxyPool` | `ListIsSound`, `UsesWithinLimit`, `GrantsFromPool`, `CallsReturn` | A Get with its background refresh, a Refresh, a holder who counts uses, and callers of AddProxy, Remove, Clear, Cleanup and the setters: no use is lost or beyond the limit, what is handed out is in the pool, and every call returns although callbacks use the pool. |
| `Exchange_stream` | `Exchange` | `ReadsEndCleanly`, `UploadKeepsItsWord`, `EndIsFinal`, `ExchangeEnds` | A reader and two Close calls of a streamed response, its idle timer and its deadline, with an upload of the same exchange that the transport reads and closes and the shared context cancels. |
| `DoStream_call` | `MCDoStream` | `HandoverIsClean`, `CredentialsStayHome`, `BodyNotResent`, `RedirectKeepsBody`, `CallReturns` | Every kind of body, every chain of two redirects between two origins, every failure, and a header timer, a deadline and a caller that cancel at any time. |
| `Library_parts` | `MCLibrary` | `PartsTypeOK`, `ClearedStaysCleared`, `CookiesTellTrue`, `HeadersTellTrue`, `DefaultsInOrder`, `FollowsPolicy`, `PlainFollowsPolicy` | The settings of both HTTP clients against requests under way, the redirects of httpclient under either net/http, to a host that has no comparable name among others, the browser headers of httpclienttls over theirs, the package-level pool and writer, and the proxy manager. |
| `Services_parts` | `MCServices` | `ServicesTypeOK`, `SessionsInStep`, `NewMailIsNew`, `DialsEndCleanly`, `FeesAreRight`, `DefaultsFollowInit`, `NothingReplaced`, `TransfersKeepPromise` | The mailbox with answers that come late, refusals, broken connections and mail that comes and goes; the dials through a proxy under a context that ends; concurrent transfers of every wallet with lost answers, replaced, evicted and failed transactions and a bitcoin index that is behind; and the default wallet under InitDefaultX, CloseDefaultX and a user's Close. |

Bounds, and why they are enough:

- Worker pool, safety: three Submits, a queue of two, limits made of 0, 1 and 2, one
  Resize, one Stop, one WaitIdle; tasks are interchangeable. The queue fills, the
  dispatcher waits for a worker, a Resize shrinks the pool below the count of active
  workers, and Stop meets each of these; a further task or resize repeats one of those
  situations. The order of `TaskPool` needs three tasks.
- Worker pool, progress: four tasks, one of them submitted from within another, a queue
  of one, a pool of one or two, a Resize to one or two and a Stop. With one worker that is
  just enough for the pool to be stuck: a worker in a Submit, the queue full and the
  dispatcher waiting for that worker. So `PoolGoesOn` is about a pool that is stuck and is
  released by Stop, or by Resize, as much as about one that works.
- File writer: three appends, two of them to one file, one Close, one SetDir: two files
  are what calls that take all locks can wait for each other over, and two appends are
  what can share a handle. `FileWriter_lost` needs one append to each of two files.
- Websocket: a Connect, a Reconnect, a Listen with its context, the protocol heartbeat
  as the writer that can block. Two Connects, a Close and the heartbeat in
  `WebSocketClient_loops`.
- Proxy pool: one address, two proxies in memory at a time (`Items`; one nobody refers
  to is used again, so it bounds them at a time and not over time), one use each.
  A limit that changes and any number of Gets are covered by the theorem `UsesBounded`.
- Exchange: two Close calls on each side besides the reader's own; a third finds the
  same `sync.Once`. An upload of three bytes, read in pieces of none to two, can end in
  time, too soon or too late.
- `DoStream`: two redirects, since every decision looks one hop back or at the first;
  two origins that share the host, so that scheme and port matter.
- `DoRequest`: four hosts, one within another and one without a comparable name
  (`"::1"`), chains of four, since `overrides` and `previousURL` look one hop back and
  net/http one back or at the first, and limits of none, 0 and 2; with either net/http.
- Browser headers: five targets, two of them of one site, one on this machine; chains of
  any length, since only the set of what they have visited is kept.
- Clients: two requests, two proxies, two jars: `MaxJars` bounds ClearCookies.
- Defaults: two goroutines, three pools and three writers over the whole behaviour, two
  directories: one to be replaced, one replacing it, one come too late.
- Manager: a `GetProxy` and a `MustGetProxy`, two URLs, three limits.
- POP3 alone: three commands, one of them with a long answer: one that gives up, one
  that reads what it left, one that shows the harm. With STLS, off port 995.
- E-mail: two accounts, two messages, three calls: a first connection, a poll after mail
  has come or gone, and one after a change of account. Each poll is a session on port
  995, so that `MaxCalls` never stops one.
- Proxy dials: one of each of the six kinds, its context ending at any moment, before and
  after the dial has returned. pop3client is taken with a timeout, without which its
  CONNECT waits like its SOCKS5.
- Bitcoin: two coins of 8 and 9, transfers of 8 and of 5 on one wallet object and a
  sweep on another. An input is one unit and the P2WPKH input asked for first is two, as
  for taproot: the coin of 9 would pay 8 and its own fee, and does not suffice alone. Signing may add one for
  each input of a legacy address. One coin may be misread; one transfer does not verify. Dust is 3.
- EVM: two coin transfers and one of a token with a lower gas price. Tron: the same
  calls. Solana: two equal transfers and another, two blocks, a blockhash good for one
  (`Valid` is the number of blocks it survives, none).
- Default wallets: each of the four packages, one user with a call at a time, one URL,
  one endpoint, three wallets over the whole behaviour.

No cfg checks for deadlock except `DoStream_call`, which ends in a step of its own:
everywhere else all calls may have returned, and nobody has to make another.

## Disagreements found

Runs that expect a violation: the code does something else than its comments or
tests say. `PROJECT.json` quotes the lines.

- `WorkerPool_waitidle`, `WaitIdleCompletes` (`src/workerpool/pool.go:149`): WaitIdle can return while the dispatcher holds a task that is neither queued nor counted as active.
- `FileWriter_lost`, `NoAppendLosesItsHandle` (`src/filewriter/writer.go:221`): SetDir closes the handle under the first append to a file whose lock it has not seen.
- `WebSocketClient_loops`, `OneHeartbeatLoop` (`src/websocket/client.go:209`): A Close between the installation of a connection and the start of its heartbeat leaves a heartbeat no Close can stop.

Claims that fail in the same way, for which no run is kept. Each was refuted by TLC on
an instance of the sizes above; those named are definitions one can put into a `.cfg`.

- A Resize between the dispatcher's test of the limit and its `Wait` is lost: the
  dispatcher sleeps below the new limit until some worker ends
  (`ResizeWakesDispatcher` in `WorkerPool`; pool.go:114, 120).
- A Submit past its check can put its task into the queue Stop has drained: it is
  accepted and never runs (`StopEmptiesQueue`; pool.go:107, 168).
- Two overlapping setters leave the package-level pool or writer with the value of one
  and the default with that of the other; a `Default` that is building a writer misses
  a `SetDefaultDir` (`SetsApply` in `WorkerPoolDefault`, singleton.go:25, and in
  `FileWriterDefault`, writer.go:87).
- A Close of the file writer that finds the map empty returns while a SetDir has still
  to close a handle it has detached (writer.go:187, 206).
- Reconnect gives up without dialling when the close frame of the broken connection
  cannot be written (`ReconnectDials` in `WebSocketClient`; client.go:249).
- A Connect that adds to the `WaitGroup` while a Close is waking from `Wait` makes it
  panic (`CloseNeverPanics`; client.go:579), and a Close waits for the heartbeats of
  connections made after it. `CloseReturns` therefore says of a closing call that it returns,
  without panicking, or is `Overtaken`: woken while a connect is about to add. Without
  that alternative it is violated.
- A `SetDefaultDir` whose writer cannot make the directory returns an error when the default has
  changed already: the next writer uses the new directory, the present one the old
  (`DefaultsInOrder` without `unswitched`; writer.go:100, 210).
- Four tasks block a pool of one worker and a queue of one for good, when one of them
  submits another (pool.go:107, 120): `PoolGoesOn` without `Stuck`. Stop releases it.
- A Get that finds the pool empty while another one refreshes it gives up
  (`EmptyGetRefreshes` in `ProxyPool`; pool.go:245).
- A `StopGetProxy` taken back while the loop sleeps goes unseen (proxy.go:252).
- The explicit value of a cookie does not always take precedence over the jar's, whatever
  request.go:336 says (`Precedence` in `DoRequest`). With the net/http of today (Go 1.23.5
  and later), which compares a hop with the first URL, a chain from a to b and on within b
  sends neither value there (request.go:224 compares with the hop before), and one from a
  to a subdomain and back sends both. A host that idna rejects, such as an IPv6 address, is sent
  both with either. `CookiesTellTrue` is what holds: the jar's value alone once the
  server has set the cookie, the explicit one alone along redirects into a domain, and
  `Precedence` itself before Go 1.23.5 between hosts that can be compared.
- A limit of n redirects follows n - 1 (`FollowsAsMany`; client.go:327).
- A POP3 answer that comes after its deadline is read as the answer of the next command,
  and what a torn line leaves can look like any answer (`InStep` without `slipped`;
  client.go:379). The client does not close a connection it has given up on.
- After a STLS that was refused, or whose handshake failed, the client keeps the
  connection, and later commands, a password among them, go out in the clear
  (client.go:298, 302): `TalksTLS` is about sessions that are, or are said to be, encrypted.
- STLS on port 995 was meant to answer that TLS is established (client.go:290), but the
  test above it (client.go:287) has already returned an error, since the handshake of
  `connect` has set `tlsEstablished`.
- A mailbox that has lost as many messages as it has gained hides the new ones, whatever
  email_client.go:191 says (`NoneMeansNoMore` is as much as holds). SetEmail leaves
  the session of the account before to `GetEmailStats` and `GetEmailContent`
  (email_client.go:67, 159).
- A SOCKS5 dial of websocket that its context has ended leaves the goroutine dialling: the
  connection it gets afterwards, or has while it shakes hands, is never closed (`FailureCloses`
  of `ProxyDial` without its exception; websocket/proxy.go:112), and its handshake has no
  deadline, so that it may hang for ever with the connection open (websocket/proxy.go:106). The SOCKS5 handshake of pop3client has no deadline
  (`WaitsEnd` without its; pop3client/proxy.go:82).
- Tron and solana return `false` for a wait that timed out as for a transaction that
  failed; only the identifier and the text beside it tell (tron/wallet.go:656,
  solana/wallet.go:439). Two equal solana transfers with one blockhash
  are one transaction, and both calls succeed (solana/wallet.go:449). Solana tells of a
  failure before it looks at the commitment (solana/wallet.go:432), so that the block may be
  dropped and the transaction carried out after all: what it says of a success is final,
  what it says of a failure need not be.
- A taproot coin that pays for a transfer and for its own input is refused when it does
  not pay for a P2WPKH input, which txauthor asks for first (transaction.go:566):
  `InsufficientIsTrue` of `BitcoinWallet` without its last alternative. A transfer from uncompressed legacy keys
  is refused for a fee that is too low (transaction.go:287), unless the dust it leaves
  to the fee covers what signing adds.
- Two wallet objects for one bitcoin address have a mutex each: their transfers replace
  each other (`ReplacedOnlyIfUnseen` without its premise on `Wallet`; transaction.go:170).
- A default wallet that could not connect, or that a user closed, stays the default and
  refuses every call until InitDefault (evm/singleton.go:31), and an InitDefault under
  a call makes it dereference a nil client (evm/wallet.go:181).

## Fairness

Goroutines are scheduled and a call that has begun goes on: weak fairness on its
steps. Go's mutexes hand over to a waiter after a millisecond; since finitely many calls
compete for each of them here, a mutex is free from some time on, and weak fairness says
as much. Timers fire and functions registered with `AfterFunc` run. Nobody is obliged to
make a call. Never assumed: that a task ends (except in `TerminatingSpec`, which
`WorkerPool_progress` uses and its `about` says so), that a server answers, that a write on
an open connection ends, that a transport closes an upload. A transport answers once the
context is cancelled, as net/http and fhttp document. `Library` and `Services` state safety alone and have no fairness.

## The proofs

tlapm checks every theorem for all values of the constants that satisfy the assumptions
of the module, which only say what the code's types do (sets are finite where there is a
counter, names differ from nil, bounds are naturals). Where the table names a property,
a run checks it on its instance, too.

- `WorkerPoolProofs`: `TypeInv` strengthens `TypeOK` by what the queue holds (each
  task once, all of them queued), without which a receive could start a task
  twice. `PoolInv` then relates where the dispatcher is to the count and the
  limit: at "recheck" and "start" there is room, and only there can the limit
  shrink below the count, so it is exceeded by one start; a parked dispatcher
  implies an active worker, whose end signals it. `AcceptInv` says that a task counted as accepted
  is past its Submit, and a queued one is in the queue, for `WaitIdleDrains`. For `KeepsPromise`
  each step of the pool is a step of `TaskPool` or stutters: `StopInv` says that Stop sets its flag first
  and once, and the lemmas on lines say what becomes of the sequence of waiting tasks when the
  head of the queue starts or Stop drops what is left.
- `FileWriterProofs`: `HandleInv` says which handles are cached, `SnapshotInv`
  what a Close or SetDir has locked: an append that writes with a handle no longer
  cached must have been missed by a SetDir's snapshot. Close never does this, as
  it sets `closed` before it takes its snapshot.
- `WebSocketClientProofs`: `ConnInv` says who holds a connection at each point.
- `ProxyPoolProofs`: `CountInv` bounds what a compare-and-swap has seen by the
  highest limit of the proxy it is about to count. `ListInv` says that the list names each
  address once, and that the proxy whose use a Get is counting is in the list: whoever would take
  it out waits for the lock that the Get holds. What the
  filter keeps (`Kept`, a function defined by recursion) is found by induction on the
  prefix, from the least counterexample of the order of the naturals: the
  library's induction theorems take a predicate, which the provers cannot instantiate.
- `ExchangeProofs`: `HalvesStep` shows that a step of the exchange is, of either half, a step or
  none (the end of the context is a step of both), so an invariant of a half is one of the exchange.
  `BodyInv` says that one caller at most is within the `once`, before the body below is
  closed, and that an end is kept as the terminal error. `UploadInv` says how far the callback
  is when a Close waits for it or is past it; that only a Close past it can have stopped it
  is needed so that none waits for a callback that will never run; it keeps sent and
  remaining in sum.
- `DoStreamProofs`: `HopInv` gives the owner of the bodies of each hop at each
  point of the call; `BodyInv` relates the body to be sent to the uploads so far; the
  timer is off wherever the call looks at its outcome. `HomeInv` says of each hop whether the chain
  has left the first origin, and that the credentials are as that asks.
- `LibraryProofs`: `PartsStep` projects a step of `Library` to its parts, `PartsInv` joins their
  invariants. `ClientInv` and `PlainInv`: without an error the settings are the ones asked
  for, so each step is one of `HTTPPolicy` or stutters, and a cleared client stays so.
  `HeaderInv`: the site a request names is the farthest its chain has been at. `ChainInv`: who is told
  a cookie on a chain of redirects, with either net/http and with any hosts that cannot be
  compared: what net/http and the filter believe agrees while the redirects keep to a domain, and,
  before Go 1.23.5, between comparable hosts. `PoolInv`,
  `WriterInv` and `ManagerInv`: the package-level objects, where the calls of a setter take
  turns, and the manager, whose pool works with what the manager was told.
- `ServicesProofs`: the same for `Services`. `SessionInv` and `EmailInv` say what a
  mailbox object knows of its connection and of the last count; `DialInv` who closes a connection
  on each path of a dial; `BtcInv`, `EVMInv`, `TronInv` and `SolanaInv` relate where a transfer
  is to what the network has of it. From these the four wallets
  refine `Payment` (`TransfersImplementPayment`), and a bitcoin transfer is
  replaced only by one that could not see it. `FeeInv` is about what a bitcoin transfer pays:
  a list has one value for each coin, and what a transaction spends is a part of the list, worth
  what the list says once it is verified, since the change of a transaction that was handed over
  stays as it is. It rests on lemmas about `Total` (a fold over a set: the same whichever
  element comes first), about `Largest` (no other coins, as many, are worth more) and about the
  recursion of `Fund` (each turn asks for a higher fee, up to the fee of the whole list, so the
  function exists, and it never fails where some coins would do). `DefaultInv` is about the default wallets.

| module | theorem | property | says |
|---|---|---|---|
| `WorkerPoolProofs` | `TypeCorrect` | `TypeOK` | activeCount is the number of worker goroutines and every task is in exactly one place, for any number of tasks and callers. |
| `WorkerPoolProofs` | `ConcurrencyBounded` |  | Never more worker goroutines than the largest limit set so far. |
| `WorkerPoolProofs` | `ShrinkBounded` | `ShrinkOvershootsByOne` | After a Resize at most one worker is started at or above the new limit. |
| `WorkerPoolProofs` | `LateStartBounded` |  | At most one task starts after Stop has won its CAS. |
| `WorkerPoolProofs` | `WaitIdleSeesQueue` |  | Whatever was accepted before a WaitIdle has left the queue when it returns, for any number of tasks and any interleaving of its two reads. |
| `WorkerPoolProofs` | `PoolKeepsPromise` | `KeepsPromise` | Every step of the pool is a step of the abstract TaskPool or none: tasks start in the order they were accepted, within the limit, and are dropped only after Stop. |
| `WorkerPoolProofs` | `ParkedIsSignalled` | `NeverParkedIdle` | The dispatcher never waits on the condition variable with no worker left to signal it. |
| `FileWriterProofs` | `TypeCorrect` |  | File locks are held by exactly those calls that may use what they guard. |
| `FileWriterProofs` | `HandlesNeverLeak` | `NoHandleLeaks` | Every open file is cached in the present directory or about to be closed by a call under way. |
| `FileWriterProofs` | `LostHandlesAreFresh` |  | Only a SetDir whose snapshot lacks a file's lock closes its handle under an append; Close never does. |
| `FileWriterProofs` | `StaleDirBounded` |  | No line reaches a directory the writer has left once the SetDir that left it has returned. |
| `FileWriterProofs` | `SwitchIsBounded` | `SwitchDisturbsOnlyNew` | A SetDir disturbs only appends to files its snapshot lacks, and only while it is under way. |
| `WebSocketClientProofs` | `TypeCorrect` |  | A stop channel is closed once, and whoever writes has a connection that was dialled. |
| `WebSocketClientProofs` | `ConnectionsNeverLeak` | `NoConnLeaks` | A connection not yet closed is the client's or some call under way will install or close it. |
| `WebSocketClientProofs` | `EachShutOnce` | `ShutOnce` | Every connection is shut by at most one closing call, and never while the client still uses it. |
| `ProxyPoolProofs` | `RefreshesExclude` |  | At most one refresh is between taking and releasing refreshMu. |
| `ProxyPoolProofs` | `UsesBounded` | `UsesWithinLimit` | No use of a proxy is lost or exceeds the limit, for any number of Gets and holders. |
| `ProxyPoolProofs` | `PoolListsEachOnce` | `ListIsSound` | The pool lists proxies it has made, each address once, whatever refreshes and callers add, remove and clean up at once; by induction over what its filter keeps. |
| `ProxyPoolProofs` | `GrantsAreListed` | `GrantsFromPool` | A Get counts a use only of a proxy that the pool lists at that moment. |
| `ExchangeProofs` | `HalvesKeepToThemselves` |  | In an exchange the response behaves as StreamBody says and the upload as UploadBody says, so that what is proved of either holds of both at once. |
| `ExchangeProofs` | `TypeCorrect` |  | The bodies below the response and the upload are each closed once at most, however many close them. |
| `ExchangeProofs` | `CleanReads` | `ReadsEndCleanly` | With any number of closers no Read meets a closed body, nor leaves a timer that could cancel the next. |
| `ExchangeProofs` | `EndStaysFinal` | `EndIsFinal` | Once a Read has returned the end, every later one does. |
| `ExchangeProofs` | `UploadsKeepTheirWord` | `UploadKeepsItsWord` | Once a Close of an upload has returned nothing touches the request body, and an upload of known length ends there or with an error, for every length and any number of Close calls. |
| `DoStreamProofs` | `TypeCorrect` |  | The hop stays within MaxRedirects, and a response is judged only when there is one. |
| `DoStreamProofs` | `NeverLeaks` |  | However the call ends it holds no body any more, for any limit of redirects. |
| `DoStreamProofs` | `CredentialsNeverLeaveHome` | `CredentialsStayHome` | Authorization and explicit cookies go to the first origin only, go along until a redirect leaves it and never come back, for any set of origins. |
| `DoStreamProofs` | `NeverResent` | `BodyNotResent` | A reader is sent once, and a body once dropped is not sent again. |
| `DoStreamProofs` | `StreamOutlivesTimer` |  | A stream handed over was not cancelled by the header timer and never will be. |
| `DoStreamProofs` | `HandsOverCleanly` | `HandoverIsClean` | However the call ends, what it holds is what it hands over, and nothing of its own can cancel that. |
| `DoStreamProofs` | `BodyGoesAlong` | `RedirectKeepsBody` | A redirect that preserves the method is followed with the body or not at all. |
| `LibraryProofs` | `LibraryTypes` | `PartsTypeOK` | Without an error either client has below it what its settings say, cookies of httpclient stay in the jar of their request, and no chain of redirects is longer than its limit. |
| `LibraryProofs` | `NeverRepopulated` | `ClearedStaysCleared` | Cleared cookies stay cleared, for any number of requests under way. |
| `LibraryProofs` | `Implements` | `FollowsPolicy` | httpclienttls implements HTTPPolicy: a request goes the way last asked for or is refused. |
| `LibraryProofs` | `PlainImplements` | `PlainFollowsPolicy` | So does httpclient, although an unusable proxy leaves it with a direct transport. |
| `LibraryProofs` | `HeadersAreHonest` | `HeadersTellTrue` | Sec-Fetch-Site is honest and client hints stay with trustworthy targets, for any targets and any chain. |
| `LibraryProofs` | `CookiesAreRight` | `CookiesTellTrue` | With either net/http a host is sent the value of the jar alone once the server has set the cookie, and the explicit one alone along redirects into a domain; before Go 1.23.5, and between hosts that can be compared, never both and never neither; for any hosts, domains and redirects. |
| `LibraryProofs` | `DefaultsAreInOrder` | `DefaultsInOrder` | No default pool or writer is lost while it runs; setters that do not overlap, and the proxy manager's, reach the one in use, for any number of callers. |
| `ServicesProofs` | `ServicesTypes` | `ServicesTypeOK` | The mutex of a bitcoin wallet has one holder, no two of its live transactions spend one coin, and evm nonces are handed out in order, for any number of wallets and transfers. |
| `ServicesProofs` | `SessionsStayInStep` | `SessionsInStep` | A POP3 call that succeeds has read the answer to its own command unless an earlier one slipped, and nothing goes out in the clear after TLS. |
| `ServicesProofs` | `CountsTellNewMail` | `NewMailIsNew` | What GetNewEmail returns is the newest and new, and that there is none means no more came than were removed, for any mail. |
| `ServicesProofs` | `FeesAlwaysRight` | `FeesAreRight` | A bitcoin transfer says that coins do not suffice only if no choice of the listed coins, as many as a transaction may have, pays amount and fee; but for a coin that pays for itself and not for a P2WPKH input; and one whose coins were verified pays for its size, and at most dust, or what signatures may take beyond the estimate, more. |
| `ServicesProofs` | `DialsAlwaysEndCleanly` | `DialsEndCleanly` | A dial through a proxy hands out an open connection that nothing else closes, or leaves none, whenever its context ends. |
| `ServicesProofs` | `TransfersImplementPayment` | `TransfersKeepPromise` | The transfers of all four wallets implement Payment, for any number of them under way. |
| `ServicesProofs` | `TransfersLeaveEachOther` | `NothingReplaced` | No transfer takes the coins or the nonce of another, unless the two overlapped (evm) or the index was behind (bitcoin). |
| `ServicesProofs` | `DefaultsAlwaysFollow` | `DefaultsFollowInit` | The default wallet is the one asked for last, and those it replaced are closed. |

Only model-checked: every liveness property, as tlapm has no ENABLED.
Only proved, with no run of their own: `TypeOK` of `FileWriter`, `WebSocketClient`,
`StreamBody`, `UploadBody` and `DoStream`, and the properties the table leaves blank.

## What is not modelled

See `components` in `PROJECT.json`. Left out for good: the logger (output), the
programs under `test/`, message parsing of the mail client, the tables and the order of browser
headers, conversions of the websocket codec, address and key
derivation, signatures, amounts as text, and the queries of the wallets that change
nothing, the history of tron among them. Within the modelled parts: texts, logging,
the names of headers; the contents of lines, bodies and messages; the number of decimals of
a token, for which evm/wallet.go:515 takes 18 when the node cannot be asked; defaults that
evm/wallet.go:384 writes into the options of its caller, which two calls must not share;
a change address of its own for a bitcoin transfer.

Not yet modelled: the settings of the websocket client.

## Plan

Every invariant and every action property that a passing run checks is proved. Left to do:

1. Lemmas that a reader may want as theorems: what `Fund` chooses in terms of the coins alone, and
   the bounds of `Descendants`, by which the node replaces transactions.
2. The settings of the websocket client.
3. Safety parts of what the liveness runs show: that a call that waits is waited for by nobody who
   waits for it (`CallsReturn` of the writer, `CloseReturns` of the websocket client), as an
   invariant on the order of the locks.
