------------------------------ MODULE ServicesProofs ---------------------------
(*****************************************************************************)
(* Theorems about Services, for every value of its constants that satisfies  *)
(* the assumptions: any mail and any accounts, any transfers, coins and      *)
(* deadlines.  Each part has an inductive invariant of its own (X..Inv, X..Init *)
(* and X..Step); at the end the parts are put together.                      *)
(*****************************************************************************)
EXTENDS Services, TLAPS, FiniteSetTheorems, SequenceTheorems, WellFoundedInduction

-------------------------------------------------------------------------------
(*****************************************************************************)
(* The dials through a proxy.                                                *)
(*****************************************************************************)
(* Where a dial is says what it has.  A connection that is neither open nor  *)
(* given up can only have been closed by the callback, which runs only when  *)
(* the context has ended: the check of the context that comes after the wait *)
(* for the callback therefore misses none.                                   *)
DialInv ==
  /\ Proxied!TypeOK
  /\ dialer \in Proxied!Dialers /\ ctx \in {"live", "ended"}
  /\ deadline \in BOOLEAN /\ failed \in BOOLEAN
  /\ dialPc \in {"dial", "deadline", "arm", "clear", "join", "check", "close",
                 "return", "select", "done"} \cup Proxied!Waits
  /\ callback \in {"running", "done"} => ctx = "ended"
  /\ dialPc = "dial" => raw = "none" /\ callback = "none" /\ ~ failed /\ ~ deadline /\ helper = "none"
  /\ dialPc \in {"deadline", "arm"} =>
       /\ raw = "open" /\ callback = "none" /\ ~ failed
       /\ dialer \in Proxied!Tunnels \cup {"mail"}
       /\ dialPc = "arm" => deadline /\ dialer \in Proxied!Tunnels
  /\ dialPc \in Proxied!Waits \cup {"clear"} =>
       /\ ~ failed
       /\ raw = "open" \/ callback = "done"
       /\ dialer \in Proxied!Tunnels => deadline /\ callback \in {"armed", "running", "done"}
       /\ dialer = "mail" => deadline
       /\ dialPc = "handshake" => dialer \in {"secure", "mailsocks"}
       /\ dialer = "mailsocks" => dialPc = "handshake" /\ ~ deadline
       /\ dialer \in Proxied!Tunnels \cup Proxied!Timed
  /\ dialPc \in {"join", "check"} =>
       /\ dialer \in Proxied!Tunnels \cup {"context"}
       /\ failed /\ dialer = "context" => raw = "none"
       /\ failed \/ (~ deadline /\ (raw = "open" \/ callback = "done"))
       /\ dialer = "context" => dialPc = "check" /\ raw # "closed"
       /\ dialPc = "check" => callback \in {"none", "stopped", "done"}
  /\ dialPc = "close" =>
       /\ dialer # "context"
       /\ failed \/ (~ deadline /\ raw = "open" /\ callback \in {"none", "stopped"})
       /\ callback \in {"none", "stopped", "done"}
  /\ dialPc = "return" =>
       /\ IF failed THEN raw # "open"
          ELSE raw = "open" /\ ~ deadline /\ callback \in {"none", "stopped"}
       /\ callback \in {"none", "stopped", "done"}
  /\ dialPc \in {"select", "done"} \/ dialer = "helper" =>
       callback \in {"none", "stopped", "done"}
  /\ dialled = "conn" => Proxied!HandsOutOpen
  /\ dialled = "error" => Proxied!FailureCloses
  /\ dialer = "helper" => dialPc \in {"dial", "select", "done"} /\ ~ deadline
  /\ dialer # "helper" => dialPc # "select" /\ helper = "none"
  /\ dialer = "helper" /\ dialPc = "select" => helper \in {"dialling", "handshake", "conn", "error"}
  /\ dialer = "helper" => callback = "none"
  /\ dialer = "helper" =>
       /\ helper \in {"handshake", "conn", "taken"} => raw = "open"
       /\ helper \in {"none", "dialling"} => raw = "none"
       /\ helper = "error" => raw # "open"
  /\ dialled = "conn" /\ dialer = "helper" => helper = "taken"
  /\ dialled = "error" /\ dialer = "helper" =>
       helper \in {"dialling", "handshake", "conn", "error"} /\ (helper # "error" => ctx = "ended")

(* A dial that has not begun satisfies it.                                   *)
LEMMA DialInit == Proxied!Init => DialInv
  BY DEF Proxied!Init, DialInv, Proxied!TypeOK, Proxied!Dialers, Proxied!Waits,
         Proxied!Tunnels, Proxied!Timed

(* Every step of a dial, of its callback and of its helper preserves it.     *)
LEMMA DialStep == DialInv /\ [Proxied!Next]_dialVars => DialInv'
<1> SUFFICES ASSUME DialInv, [Proxied!Next]_dialVars PROVE DialInv'
  OBVIOUS
<1> USE DEF DialInv, Proxied!TypeOK, Proxied!Dialers, Proxied!Tunnels, Proxied!Timed,
            Proxied!Waits, Proxied!HandsOutOpen, Proxied!FailureCloses,
            Proxied!Fails, Proxied!GoTo
<1>1. CASE Proxied!Dial
  <2>1. CASE failed' = TRUE
    <3>1. dialPc' \in {"check", "return"} /\ (dialPc' = "check" <=> dialer = "context")
      BY <1>1, <2>1 DEF Proxied!Dial
    <3>2. UNCHANGED <<dialer, raw, deadline, ctx, callback, helper, dialled>>
      BY <1>1, <2>1 DEF Proxied!Dial
    <3> QED BY <1>1, <2>1, <3>1, <3>2 DEF Proxied!Dial
  <2>2. CASE failed' # TRUE
    <3>1. dialPc = "dial" /\ dialer # "helper" /\ raw' = "open"
      BY <1>1, <2>2 DEF Proxied!Dial
    <3>2. UNCHANGED <<dialer, failed, deadline, ctx, callback, helper, dialled>>
      BY <1>1, <2>2 DEF Proxied!Dial
    <3>3. dialPc' = IF dialer \in {"tunnel", "secure", "mail"} THEN "deadline"
                    ELSE IF dialer = "context" THEN "check" ELSE "handshake"
      BY <1>1, <2>2 DEF Proxied!Dial
    <3> QED BY <2>2, <3>1, <3>2, <3>3
  <2> QED BY <2>1, <2>2
<1>2. CASE Proxied!SetDeadline
  <2>1. /\ dialPc = "deadline"
        /\ UNCHANGED <<dialer, raw, ctx, callback, helper, dialled>>
    BY <1>2 DEF Proxied!SetDeadline
  <2>2. CASE failed'
    BY <1>2, <2>1, <2>2 DEF Proxied!SetDeadline
  <2>3. CASE ~ failed'
    <3>1. /\ deadline' = TRUE /\ failed' = failed
          /\ dialPc' = IF dialer \in Proxied!Tunnels THEN "arm" ELSE "request"
      BY <1>2, <2>1, <2>3 DEF Proxied!SetDeadline
    <3> QED BY <2>1, <3>1
  <2> QED BY <2>2, <2>3
<1>3. CASE Proxied!Arm
  BY <1>3 DEF Proxied!Arm
<1>4. CASE Proxied!Talk
  <2>1. dialPc \in Proxied!Waits
        /\ UNCHANGED <<dialer, raw, deadline, ctx, callback, helper, dialled>>
    BY <1>4 DEF Proxied!Talk
  <2>2. CASE failed'
    <3>1. failed' = TRUE /\ dialPc' = IF dialer \in Proxied!Tunnels THEN "join" ELSE "close"
      BY <1>4, <2>1, <2>2 DEF Proxied!Talk, Proxied!AfterError
    <3> QED BY <2>1, <3>1
  <2>3. CASE ~ failed'
    <3>1. /\ raw = "open" /\ failed' = failed
          /\ dialPc = "handshake" => dialPc' = IF dialer = "secure" THEN "request" ELSE "return"
          /\ dialPc = "request" => dialPc' = "response"
          /\ dialPc = "response" => dialPc' = "clear"
      BY <1>4, <2>1, <2>3 DEF Proxied!Talk
    <3> QED BY <2>1, <3>1
  <2> QED BY <2>2, <2>3
<1>5. CASE Proxied!ClearDeadline
  <2>1. dialPc = "clear" /\ UNCHANGED <<dialer, raw, ctx, callback, helper, dialled>>
    BY <1>5 DEF Proxied!ClearDeadline
  <2>2. CASE failed'
    <3>1. failed' = TRUE /\ dialPc' = "join" /\ deadline' = deadline /\ dialer \in Proxied!Tunnels
      BY <1>5, <2>1, <2>2 DEF Proxied!ClearDeadline
    <3> QED BY <2>1, <3>1
  <2>3. CASE ~ failed'
    <3>1. /\ raw = "open" /\ deadline' = FALSE /\ failed' = failed
          /\ dialPc' = IF dialer \in Proxied!Tunnels THEN "join" ELSE "return"
      BY <1>5, <2>1, <2>3 DEF Proxied!ClearDeadline
    <3> QED BY <2>1, <3>1
  <2> QED BY <2>2, <2>3
<1>6. CASE Proxied!Join
  BY <1>6 DEF Proxied!Join
<1>7. CASE Proxied!Check
  BY <1>7 DEF Proxied!Check
<1>8. CASE Proxied!CloseRaw
  BY <1>8 DEF Proxied!CloseRaw
<1>9. CASE Proxied!Return
  BY <1>9 DEF Proxied!Return
<1>10. CASE Proxied!Spawn
  BY <1>10 DEF Proxied!Spawn
<1>11. CASE Proxied!HelperDials
  BY <1>11 DEF Proxied!HelperDials
<1>16. CASE Proxied!HelperShakes
  BY <1>16 DEF Proxied!HelperShakes
<1>12. CASE Proxied!Select
  BY <1>12 DEF Proxied!Select
<1>13. CASE Proxied!ContextEnds
  BY <1>13 DEF Proxied!ContextEnds
<1>14. CASE Proxied!Callback
  BY <1>14 DEF Proxied!Callback
<1>15. CASE UNCHANGED dialVars
  BY <1>15 DEF dialVars
<1> QED
  BY <1>1, <1>2, <1>3, <1>4, <1>5, <1>6, <1>7, <1>8, <1>9, <1>10, <1>11, <1>12, <1>13, <1>14, <1>15,
     <1>16
  DEF Proxied!Next

-------------------------------------------------------------------------------
(*****************************************************************************)
(* The default wallets.                                                      *)
(*****************************************************************************)
WalletRecords == [dialled : URLs \cup {Unset} \cup Endpoints, client : {"open", "nil"},
                  made : {"open", "nil"}]

(* The state behind DefaultsFollowInit.  The configuration in force is the   *)
(* one asked for last; a wallet that has a client was made with it; a call   *)
(* runs only on a wallet that was made with one.                             *)
DefaultInv ==
  /\ Default!TypeOK
  /\ kind \in Default!Kinds
  /\ wallets \in Seq(WalletRecords)
  /\ saved \in [url : URLs \cup {Unset}, endpoint : Endpoints \cup {NoURL}]
  /\ asked = saved
  /\ initCount \in Nat
  /\ using \in [Users -> [wallet : Nat, stage : {"none", "taken", "running", "refused",
                                                 "served", "panicked"}]]
  /\ \A w \in 1 .. Len(wallets) : wallets[w].client = "open" => wallets[w].made = "open"
  /\ \A u \in Users : using[u].stage \in {"running", "panicked"} =>
                        wallets[using[u].wallet].made = "open"
  /\ Default!DefaultFollowsInit
  /\ Default!FailsOnlyWhenClosed

(* No wallet has been asked for.                                             *)
LEMMA DefaultInit == Default!Init => DefaultInv
<1> SUFFICES ASSUME Default!Init PROVE DefaultInv
  OBVIOUS
<1>1. /\ wallets = <<>> /\ default = 0 /\ Len(wallets) = 0 /\ initCount = 0
      /\ saved = [url |-> Unset, endpoint |-> NoURL] /\ asked = saved /\ kind \in Default!Kinds
      /\ using = [u \in Users |-> [wallet |-> 0, stage |-> "none"]]
  BY DEF Default!Init, Default!Config
<1> QED
  BY <1>1 DEF DefaultInv, Default!TypeOK, Default!DefaultFollowsInit,
              Default!FailsOnlyWhenClosed, Default!Down

(* Closing a wallet takes its client and nothing else.                       *)
LEMMA DefaultCloses ==
  ASSUME DefaultInv, NEW w \in 0 .. Len(wallets)
  PROVE  /\ Default!Closed(w) \in Seq(WalletRecords)
         /\ Len(Default!Closed(w)) = Len(wallets)
         /\ \A i \in 1 .. Len(wallets) :
              /\ Default!Closed(w)[i].dialled = wallets[i].dialled
              /\ Default!Closed(w)[i].made = wallets[i].made
              /\ i # w => Default!Closed(w)[i].client = wallets[i].client
              /\ i = w => Default!Closed(w)[i].client =
                            IF kind = "bitcoin" THEN wallets[i].client ELSE "nil"
<1>1. wallets \in Seq(WalletRecords)
  BY DEF DefaultInv
<1>2. CASE w = 0 \/ kind = "bitcoin"
  BY <1>1, <1>2 DEF Default!Closed
<1>3. CASE w # 0 /\ kind # "bitcoin"
  <2>1. Default!Closed(w) = [wallets EXCEPT ![w] = [wallets[w] EXCEPT !.client = "nil"]]
    BY <1>3 DEF Default!Closed
  <2>2. w \in 1 .. Len(wallets) /\ wallets[w] \in WalletRecords
    BY <1>1, <1>3
  <2>3. [wallets[w] EXCEPT !.client = "nil"] \in WalletRecords
    BY <2>2 DEF WalletRecords
  <2>4. /\ [wallets[w] EXCEPT !.client = "nil"].dialled = wallets[w].dialled
        /\ [wallets[w] EXCEPT !.client = "nil"].made = wallets[w].made
        /\ [wallets[w] EXCEPT !.client = "nil"].client = "nil"
    BY <2>2 DEF WalletRecords
  <2> QED BY <1>1, <1>3, <2>1, <2>2, <2>3, <2>4
<1> QED BY <1>2, <1>3

(* A new wallet comes last, dials what it was told, and is the default.      *)
LEMMA DefaultCreates ==
  ASSUME Default!DefaultsAssumption, DefaultInv, NEW others \in Seq(WalletRecords),
         Len(others) = Len(wallets),
         NEW c \in [url : URLs \cup {Unset}, endpoint : Endpoints \cup {NoURL}],
         Default!Create(c, others)
  PROVE  /\ default' = Len(wallets) + 1 /\ Len(wallets) \in Nat
         /\ wallets' \in Seq(WalletRecords) /\ Len(wallets') = Len(wallets) + 1
         /\ \A i \in 1 .. Len(wallets) : wallets'[i] = others[i]
         /\ wallets'[default'].dialled = Default!Dialled(c)
         /\ wallets'[default'].client = wallets'[default'].made
<1>1. PICK client \in Default!Clients(c) :
        wallets' = Append(others, Default!NewWallet(c, client))
  BY DEF Default!Create
<1>2. client \in {"open", "nil"}
  BY DEF Default!Clients, DefaultInv, Default!Kinds
<1>3. /\ Default!NewWallet(c, client) \in WalletRecords
      /\ Default!NewWallet(c, client).dialled = Default!Dialled(c)
      /\ Default!NewWallet(c, client).client = Default!NewWallet(c, client).made
  BY <1>2 DEF Default!NewWallet, Default!Dialled, WalletRecords
<1>4. default' = Len(wallets) + 1 /\ wallets \in Seq(WalletRecords)
  BY DEF Default!Create, DefaultInv
<1> QED BY <1>1, <1>3, <1>4

(* A step that makes a new default of what was asked for last, with every    *)
(* other wallet closed, keeps the invariant.                                 *)
LEMMA DefaultStep ==
  ASSUME Default!DefaultsAssumption, DefaultInv, [Default!Next]_defaultVars
  PROVE  DefaultInv'
<1> USE DEF Default!TypeOK, Default!Down
<1>0. /\ wallets \in Seq(WalletRecords) /\ Len(wallets) \in Nat
      /\ default \in 0 .. Len(wallets)
      /\ \A w \in 1 .. Len(wallets) : wallets[w].client \in {"open", "nil"}
      /\ saved \in [url : URLs \cup {Unset}, endpoint : Endpoints \cup {NoURL}]
  <2>1. wallets \in Seq(WalletRecords) /\ default \in 0 .. Len(wallets)
        /\ saved \in [url : URLs \cup {Unset}, endpoint : Endpoints \cup {NoURL}]
    BY DEF DefaultInv
  <2>2. \A w \in 1 .. Len(wallets) : wallets[w] \in WalletRecords
    BY <2>1
  <2> QED BY <2>1, <2>2 DEF WalletRecords
<1>00. /\ \A w \in 1 .. Len(wallets) : wallets[w].client = "open" => wallets[w].made = "open"
       /\ kind # "bitcoin" =>
            \A w \in 1 .. Len(wallets) : w # default => wallets[w].client = "nil"
  BY DEF DefaultInv, Default!DefaultFollowsInit
<1>I. ASSUME NEW url \in URLs, NEW e \in Endpoints \cup {NoURL},
             Default!Create(Default!Config(url, e), Default!Closed(default)),
             saved' = Default!Config(url, e), asked' = Default!Config(url, e),
             initCount' = initCount + 1, UNCHANGED <<kind, using, byUser>>
      PROVE  DefaultInv'
  <2> DEFINE others == Default!Closed(default)
             c == Default!Config(url, e)
  <2>1. c \in [url : URLs \cup {Unset}, endpoint : Endpoints \cup {NoURL}]
        /\ c.url = url /\ c.endpoint = e
    BY DEF Default!Config
  <2>2. /\ others \in Seq(WalletRecords) /\ Len(others) = Len(wallets)
        /\ \A i \in 1 .. Len(wallets) :
             /\ others[i].made = wallets[i].made
             /\ others[i].client = wallets[i].client \/ others[i].client = "nil"
             /\ kind # "bitcoin" => others[i].client = "nil"
    <3>1. /\ others \in Seq(WalletRecords) /\ Len(others) = Len(wallets)
          /\ \A i \in 1 .. Len(wallets) :
               /\ others[i].made = wallets[i].made
               /\ i # default => others[i].client = wallets[i].client
               /\ i = default => others[i].client =
                                   IF kind = "bitcoin" THEN wallets[i].client ELSE "nil"
      BY <1>0, DefaultCloses
    <3> HIDE DEF others
    <3> QED BY <1>00, <3>1
  <2>3. /\ default' = Len(wallets) + 1
        /\ wallets' \in Seq(WalletRecords) /\ Len(wallets') = Len(wallets) + 1
        /\ \A i \in 1 .. Len(wallets) : wallets'[i] = others[i]
        /\ wallets'[default'].dialled = Default!Dialled(c)
        /\ wallets'[default'].client = wallets'[default'].made
    BY <1>I, <2>1, <2>2, DefaultCreates
  <2> HIDE DEF others, c
  <2>4. \A u \in Users : using[u].wallet \in 0 .. Len(wallets) /\ using[u].wallet # default'
    BY <1>0, <2>3 DEF DefaultInv
  <2>5. Default!TypeOK'
    BY <1>0, <1>I, <2>1, <2>3, <2>4 DEF DefaultInv, c
  <2>6. \A w \in 1 .. Len(wallets') : wallets'[w].client = "open" => wallets'[w].made = "open"
    <3>1. \A i \in 1 .. Len(wallets) :
            wallets'[i].client = "open" => wallets'[i].made = "open"
      BY <1>00, <2>2, <2>3
    <3> QED BY <1>0, <2>3, <3>1
  <2>7. \A u \in Users : using[u].stage \in {"running", "panicked"} =>
                           wallets'[using[u].wallet].made = "open"
    <3> SUFFICES ASSUME NEW u \in Users, using[u].stage \in {"running", "panicked"}
                 PROVE  wallets'[using[u].wallet].made = "open"
      OBVIOUS
    <3>1. using[u].wallet \in 1 .. Len(wallets) /\ wallets[using[u].wallet].made = "open"
      BY <1>0, <2>4 DEF DefaultInv
    <3> QED BY <2>2, <2>3, <3>1
  <2>8. Default!DefaultFollowsInit'
    <3>1. wallets'[default'].dialled = Default!Dialled(asked')
      BY <2>3, <1>I DEF c
    <3>2. kind # "bitcoin" => \A w \in 1 .. Len(wallets') : w # default' => wallets'[w].client = "nil"
      BY <1>0, <2>2, <2>3
    <3> QED BY <1>I, <2>3, <3>1, <3>2 DEF Default!DefaultFollowsInit, Default!Dialled
  <2>9. Default!FailsOnlyWhenClosed'
    BY <1>I, <2>4 DEF Default!FailsOnlyWhenClosed
  <2> QED BY <1>0, <1>I, <2>1, <2>3, <2>5, <2>6, <2>7, <2>8, <2>9 DEF DefaultInv, c
<1>U. ASSUME UNCHANGED <<kind, default, saved, initCount, wallets, asked, byUser>>,
             NEW u \in Users, NEW w \in 1 .. Len(wallets),
             NEW stage \in {"taken", "running", "refused", "served", "panicked"},
             Default!Calls(u, w, stage),
             stage \in {"running", "panicked"} => wallets[w].made = "open",
             stage \in {"refused", "panicked"} =>
               \/ w \in byUser \/ w # default
               \/ stage = "refused" /\ wallets[w].made = "nil"
      PROVE  DefaultInv'
  <2>1. /\ using' \in [Users -> [wallet : Nat, stage : {"none", "taken", "running", "refused",
                                                        "served", "panicked"}]]
        /\ using'[u].wallet = w /\ using'[u].stage = stage
        /\ \A v \in Users \ {u} : using'[v] = using[v]
    BY <1>0, <1>U DEF DefaultInv, Default!Calls
  <2>2. Default!TypeOK'
    BY <1>0, <1>U, <2>1 DEF DefaultInv
  <2>3. \A v \in Users : using'[v].stage \in {"running", "panicked"} =>
                           wallets[using'[v].wallet].made = "open"
    BY <1>U, <2>1 DEF DefaultInv
  <2>4. Default!FailsOnlyWhenClosed'
    BY <1>U, <2>1 DEF DefaultInv, Default!FailsOnlyWhenClosed
  <2>5. Default!DefaultFollowsInit'
    BY <1>U DEF DefaultInv, Default!DefaultFollowsInit, Default!Dialled
  <2> QED BY <1>U, <2>1, <2>2, <2>3, <2>4, <2>5 DEF DefaultInv
<1>C. ASSUME NEW w \in 1 .. Len(wallets), wallets' = Default!Closed(w),
             \/ default' = default /\ byUser' = byUser \cup {w}
             \/ w = default /\ default' = 0 /\ byUser' = byUser,
             UNCHANGED <<kind, saved, initCount, using, asked>>
      PROVE  DefaultInv'
  <2>1. /\ wallets' \in Seq(WalletRecords) /\ Len(wallets') = Len(wallets)
        /\ \A i \in 1 .. Len(wallets) :
             /\ wallets'[i].dialled = wallets[i].dialled
             /\ wallets'[i].made = wallets[i].made
             /\ i # w => wallets'[i].client = wallets[i].client
             /\ i = w => wallets'[i].client = IF kind = "bitcoin" THEN wallets[i].client ELSE "nil"
    BY <1>0, <1>C, DefaultCloses
  <2>2. Default!TypeOK'
    BY <1>0, <1>C, <2>1 DEF DefaultInv
  <2>3. \A i \in 1 .. Len(wallets') : wallets'[i].client = "open" => wallets'[i].made = "open"
    BY <2>1 DEF DefaultInv
  <2>4. \A u \in Users : using[u].stage # "none" => using[u].wallet \in 1 .. Len(wallets)
    BY <1>0 DEF DefaultInv
  <2>5. \A u \in Users : using[u].stage \in {"running", "panicked"} =>
                           wallets'[using[u].wallet].made = "open"
    BY <2>1, <2>4 DEF DefaultInv
  <2>6. Default!DefaultFollowsInit'
    BY <1>0, <1>C, <2>1 DEF DefaultInv, Default!DefaultFollowsInit, Default!Dialled
  <2>7. Default!FailsOnlyWhenClosed'
    BY <1>0, <1>C, <2>1, <2>4 DEF DefaultInv, Default!FailsOnlyWhenClosed
  <2> QED BY <1>C, <2>1, <2>2, <2>3, <2>5, <2>6, <2>7 DEF DefaultInv
<1>1. ASSUME NEW url \in URLs, Default!InitDefault(url) PROVE DefaultInv'
  BY <1>1, <1>I DEF Default!InitDefault
<1>2. ASSUME NEW url \in URLs, NEW e \in Endpoints \cup {NoURL},
             Default!InitDefaultTronWithEndpoints(url, e)
      PROVE  DefaultInv'
  BY <1>2, <1>I DEF Default!InitDefaultTronWithEndpoints
<1>3. CASE Default!CloseDefault
  BY <1>3, <1>C, <1>0 DEF Default!CloseDefault
<1>4. ASSUME NEW w \in 1 .. Len(wallets), Default!UserCloses(w) PROVE DefaultInv'
  BY <1>4, <1>C DEF Default!UserCloses
<1>5. ASSUME NEW u \in Users, Default!TakeDefault(u) PROVE DefaultInv'
  <2>1. CASE default # 0 /\ UNCHANGED <<default, wallets>>
    BY <1>5, <2>1, <1>0, <1>U DEF Default!TakeDefault
  <2>2. CASE default = 0 /\ Default!Create(saved, wallets)
    <3>1. /\ default' = Len(wallets) + 1
          /\ wallets' \in Seq(WalletRecords) /\ Len(wallets') = Len(wallets) + 1
          /\ \A i \in 1 .. Len(wallets) : wallets'[i] = wallets[i]
          /\ wallets'[default'].dialled = Default!Dialled(saved)
          /\ wallets'[default'].client = wallets'[default'].made
      BY <1>0, <2>2, DefaultCreates
    <3>2. /\ Default!Calls(u, default', "taken")
          /\ UNCHANGED <<kind, saved, initCount, asked, byUser>>
      BY <1>5 DEF Default!TakeDefault
    <3>3. /\ using' \in [Users -> [wallet : Nat, stage : {"none", "taken", "running", "refused",
                                                          "served", "panicked"}]]
          /\ using'[u].wallet = default' /\ using'[u].stage = "taken"
          /\ \A v \in Users \ {u} : using'[v] = using[v]
      BY <1>0, <3>1, <3>2 DEF DefaultInv, Default!Calls
    <3>4. \A v \in Users \ {u} : /\ using[v].wallet \in 0 .. Len(wallets)
                                 /\ using[v].stage # "none" => using[v].wallet # 0
      BY DEF DefaultInv
    <3>5. Default!TypeOK'
      <4>1. default' \in 0 .. Len(wallets') /\ initCount' <= Len(wallets')
        BY <1>0, <3>1, <3>2 DEF DefaultInv
      <4>2. saved'.url \in URLs \cup {Unset} /\ saved'.endpoint \in Endpoints \cup {NoURL}
        BY <1>0, <3>2
      <4>3. \A v \in Users : /\ using'[v].wallet \in 0 .. Len(wallets')
                             /\ using'[v].stage # "none" => using'[v].wallet # 0
        BY <1>0, <3>1, <3>3, <3>4
      <4> QED BY <4>1, <4>2, <4>3
    <3>6. \A w \in 1 .. Len(wallets') : wallets'[w].client = "open" => wallets'[w].made = "open"
      <4>1. \A i \in 1 .. Len(wallets) :
              wallets'[i].client = "open" => wallets'[i].made = "open"
        BY <1>00, <3>1
      <4> QED BY <1>0, <3>1, <4>1
    <3>7. \A v \in Users : using'[v].stage \in {"running", "panicked"} =>
                             wallets'[using'[v].wallet].made = "open"
      <4> SUFFICES ASSUME NEW v \in Users \ {u}, using[v].stage \in {"running", "panicked"}
                   PROVE  wallets'[using[v].wallet].made = "open"
        BY <3>3
      <4>1. using[v].wallet \in 1 .. Len(wallets) /\ wallets[using[v].wallet].made = "open"
        BY <1>0, <3>4 DEF DefaultInv
      <4> QED BY <3>1, <4>1
    <3>8. Default!DefaultFollowsInit'
      <4>1. kind # "bitcoin" =>
              \A w \in 1 .. Len(wallets') : w # default' => wallets'[w].client = "nil"
        <5>1. kind # "bitcoin" =>
                \A w \in 1 .. Len(wallets) : w # default => wallets[w].client = "nil"
          BY DEF DefaultInv, Default!DefaultFollowsInit
        <5>2. \A w \in 1 .. Len(wallets') :
                w # default' => w \in 1 .. Len(wallets) /\ wallets'[w] = wallets[w]
          BY <1>0, <3>1
        <5>3. \A w \in 1 .. Len(wallets) : w # default
          BY <1>0, <2>2
        <5> QED BY <5>1, <5>2, <5>3
      <4> QED BY <3>1, <3>2, <4>1
              DEF DefaultInv, Default!DefaultFollowsInit, Default!Dialled
    <3>9. Default!FailsOnlyWhenClosed'
      BY <1>0, <3>1, <3>2, <3>3, <3>4 DEF DefaultInv, Default!FailsOnlyWhenClosed
    <3> QED BY <1>0, <3>1, <3>2, <3>3, <3>5, <3>6, <3>7, <3>8, <3>9 DEF DefaultInv
  <2> QED BY <1>5, <2>1, <2>2 DEF Default!TakeDefault
<1>6. ASSUME NEW u \in Users, Default!RequireClient(u) PROVE DefaultInv'
  <2> DEFINE w == using[u].wallet
             stage == IF wallets[w].client = "nil" THEN "refused" ELSE "running"
  <2>1. w \in 1 .. Len(wallets) /\ using[u].stage = "taken" /\ Default!Calls(u, w, stage)
        /\ UNCHANGED <<kind, default, saved, initCount, wallets, asked, byUser>>
    BY <1>0, <1>6 DEF DefaultInv, Default!RequireClient
  <2>2. stage = "running" => wallets[w].made = "open"
    BY <1>0, <2>1 DEF DefaultInv
  <2>3. stage = "refused" => w \in byUser \/ w # default \/ wallets[w].made = "nil"
    BY <1>0, <2>1 DEF DefaultInv, Default!DefaultFollowsInit
  <2> QED BY <2>1, <2>2, <2>3, <1>U
<1>7. ASSUME NEW u \in Users, Default!Request(u) PROVE DefaultInv'
  <2> DEFINE w == using[u].wallet
  <2>1. /\ w \in 1 .. Len(wallets) /\ wallets[w].made = "open"
        /\ UNCHANGED <<kind, default, saved, initCount, wallets, asked, byUser>>
        /\ \/ Default!Calls(u, w, "served")
           \/ wallets[w].client = "nil" /\ Default!Calls(u, w, "panicked")
    BY <1>0, <1>7 DEF DefaultInv, Default!Request
  <2>2. wallets[w].client = "nil" => w \in byUser \/ w # default
    BY <1>0, <2>1 DEF DefaultInv, Default!DefaultFollowsInit
  <2> QED BY <2>1, <2>2, <1>U
<1>8. CASE UNCHANGED defaultVars
  BY <1>8 DEF defaultVars, DefaultInv, Default!DefaultFollowsInit, Default!Dialled,
              Default!FailsOnlyWhenClosed
<1>9. CASE Default!Next
  BY <1>9, <1>1, <1>2, <1>3, <1>4, <1>5, <1>6, <1>7 DEF Default!Next
<1> QED BY <1>8, <1>9

-------------------------------------------------------------------------------
(*****************************************************************************)
(* The transfers of tron and solana.                                         *)
(*****************************************************************************)
(* A call of tron has nothing handed over before its broadcast, and          *)
(* something once it has been answered; it is blind only if the answer was   *)
(* lost.                                                                     *)
TronInv ==
  /\ Tron!TypeOK
  /\ tronTold \in [Transfers -> {"nothing", "error", "sent", "confirmed", "failed"}]
  /\ tronHanded \in [Transfers -> Tron!Promise!Fates]
  /\ tronBlind \in [Transfers -> BOOLEAN]
  /\ \A t \in Transfers :
       /\ tronPc[t] \in {"balance", "feelimit", "build", "broadcast"} =>
            tronHanded[t] = "no"
       /\ tronPc[t] \in {"sent", "wait"} => tronHanded[t] # "no"
       /\ tronPc[t] = "lost" => tronBlind[t]

(* No call of tron has begun, as Payment says.                               *)
LEMMA TronInit == Tron!Init => TronInv /\ Tron!Promise!Init
  BY DEF Tron!Init, TronInv, Tron!TypeOK, Tron!Promise!Fates, Tron!Promise!Init

(* Every step of a tron transfer preserves it, and is a step of Payment.     *)
LEMMA TronStep ==
  ASSUME TronInv, [Tron!Next]_tronVars
  PROVE  TronInv' /\ [Tron!Promise!Next]_(Tron!Promise!paymentVars)
<1> USE DEF TronInv, Tron!TypeOK, Tron!Promise!Fates
<1>a. ASSUME NEW t \in Transfers, NEW from, NEW to, Tron!Step(t, from, to),
             \/ from \in {"balance", "feelimit", "build", "broadcast"}
                /\ to \in {"balance", "feelimit", "build", "broadcast"}
             \/ from = "sent" /\ to = "wait"
      PROVE  TronInv' /\ UNCHANGED Tron!Promise!paymentVars
  BY <1>a DEF Tron!Step, Tron!Go, Tron!Promise!paymentVars
<1>b. ASSUME NEW t \in Transfers, NEW from, NEW r, Tron!Tell(t, from, r),
             from # "done", r \in {"error", "sent", "confirmed", "failed"},
             \/ r = "error" /\ (tronHanded[t] = "no" \/ tronBlind[t])
             \/ r = "sent" /\ tronHanded[t] # "no"
             \/ r = "confirmed" /\ tronHanded[t] = "done"
             \/ r = "failed" /\ tronHanded[t] = "reverted"
      PROVE  TronInv' /\ Tron!Promise!Tell(t, r)
  <2>1. TronInv'
    BY <1>b DEF Tron!Tell, Tron!Go
  <2>2. Tron!Promise!Tell(t, r)
    BY <1>b DEF Tron!Tell, Tron!Go, Tron!Promise!Tell
  <2> QED BY <2>1, <2>2
<1>c. ASSUME NEW t \in Transfers, Tron!Settle(t)
      PROVE  TronInv' /\ Tron!Promise!Network
  <2>1. TronInv'
    BY <1>c DEF Tron!Settle
  <2>2. Tron!Promise!Network
    BY <1>c DEF Tron!Settle, Tron!Promise!Network, Tron!Promise!MayBecome
  <2> QED BY <2>1, <2>2
<1>1. ASSUME NEW t \in Transfers, Tron!Balance(t)
      PROVE  TronInv' /\ [Tron!Promise!Next]_(Tron!Promise!paymentVars)
  <2>1. CASE Tron!Tell(t, "balance", "error")
    <3>1. tronHanded[t] = "no"
      BY <2>1 DEF Tron!Tell, Tron!Go
    <3> QED BY <2>1, <3>1, <1>b DEF Tron!Promise!Next
  <2>2. CASE Tron!Step(t, "balance", IF t \in Token THEN "feelimit" ELSE "build")
    BY <2>2, <1>a
  <2> QED BY <1>1, <2>1, <2>2 DEF Tron!Balance
<1>2. ASSUME NEW t \in Transfers, Tron!FeeLimit(t)
      PROVE  TronInv' /\ [Tron!Promise!Next]_(Tron!Promise!paymentVars)
  BY <1>2, <1>a DEF Tron!FeeLimit
<1>3. ASSUME NEW t \in Transfers, Tron!Build(t)
      PROVE  TronInv' /\ [Tron!Promise!Next]_(Tron!Promise!paymentVars)
  <2>1. CASE Tron!Tell(t, "build", "error")
    <3>1. tronHanded[t] = "no"
      BY <2>1 DEF Tron!Tell, Tron!Go
    <3> QED BY <2>1, <3>1, <1>b DEF Tron!Promise!Next
  <2>2. CASE Tron!Step(t, "build", "broadcast")
    BY <2>2, <1>a
  <2> QED BY <1>3, <2>1, <2>2 DEF Tron!Build
<1>4. ASSUME NEW t \in Transfers, Tron!Broadcast(t)
      PROVE  TronInv' /\ [Tron!Promise!Next]_(Tron!Promise!paymentVars)
  <2>1. CASE Tron!Tell(t, "broadcast", "error")
    <3>1. tronHanded[t] = "no"
      BY <2>1 DEF Tron!Tell, Tron!Go
    <3> QED BY <2>1, <3>1, <1>b DEF Tron!Promise!Next
  <2>2. CASE ~ Tron!Tell(t, "broadcast", "error")
    <3>1. /\ tronPc[t] = "broadcast" /\ tronHanded[t] = "no" /\ tronTold[t] = "nothing"
          /\ tronHanded' = [tronHanded EXCEPT ![t] = "taken"]
          /\ UNCHANGED tronTold
          /\ \/ tronPc' = [tronPc EXCEPT ![t] = "sent"] /\ UNCHANGED tronBlind
             \/ /\ tronPc' = [tronPc EXCEPT ![t] = "lost"]
                /\ tronBlind' = [tronBlind EXCEPT ![t] = TRUE]
      BY <1>4, <2>2 DEF Tron!Broadcast, Tron!Go
    <3>2. TronInv'
      BY <3>1
    <3>3. Tron!Promise!Network
      BY <3>1 DEF Tron!Promise!Network, Tron!Promise!MayBecome
    <3> QED BY <3>2, <3>3 DEF Tron!Promise!Next
  <2> QED BY <2>1, <2>2
<1>5. ASSUME NEW t \in Transfers, Tron!TellLost(t)
      PROVE  TronInv' /\ [Tron!Promise!Next]_(Tron!Promise!paymentVars)
  <2>1. tronBlind[t]
    BY <1>5 DEF Tron!TellLost, Tron!Tell, Tron!Go
  <2> QED BY <1>5, <2>1, <1>b DEF Tron!TellLost, Tron!Promise!Next
<1>6. ASSUME NEW t \in Transfers, Tron!Sent(t)
      PROVE  TronInv' /\ [Tron!Promise!Next]_(Tron!Promise!paymentVars)
  <2>1. CASE t \in Waiting
    BY <1>6, <2>1, <1>a DEF Tron!Sent
  <2>2. CASE t \notin Waiting
    <3>1. Tron!Tell(t, "sent", "sent") /\ tronHanded[t] # "no"
      BY <1>6, <2>2 DEF Tron!Sent, Tron!Tell, Tron!Go
    <3> QED BY <3>1, <1>b DEF Tron!Promise!Next
  <2> QED BY <2>1, <2>2
<1>7. ASSUME NEW t \in Transfers, Tron!WaitForTransactionReceipt(t)
      PROVE  TronInv' /\ [Tron!Promise!Next]_(Tron!Promise!paymentVars)
  <2>1. \/ tronHanded[t] = "done" /\ Tron!Tell(t, "wait", "confirmed")
        \/ tronHanded[t] = "reverted" /\ Tron!Tell(t, "wait", "failed")
        \/ tronHanded[t] # "no" /\ Tron!Tell(t, "wait", "sent")
    BY <1>7 DEF Tron!WaitForTransactionReceipt, Tron!TransactionInfoSucceeded,
                Tron!Tell, Tron!Go
  <2> QED BY <2>1, <1>b DEF Tron!Promise!Next
<1>8. ASSUME NEW t \in Transfers, Tron!Settle(t)
      PROVE  TronInv' /\ [Tron!Promise!Next]_(Tron!Promise!paymentVars)
  BY <1>8, <1>c DEF Tron!Promise!Next
<1>9. CASE UNCHANGED tronVars
  BY <1>9 DEF tronVars, Tron!Promise!paymentVars
<1>10. CASE Tron!Next
  BY <1>10, <1>1, <1>2, <1>3, <1>4, <1>5, <1>6, <1>7, <1>8
  DEF Tron!Next, Tron!TransferCoin, Tron!TransferToken, Tron!Finish
<1> QED BY <1>9, <1>10
(* A call of solana is among those whose transaction the cluster has taken   *)
(* once its request to send was answered or its answer lost, and not before. *)
SolanaInv ==
  /\ Solana!TypeOK
  /\ block \in Solana!Blocks
  /\ solTold \in [Transfers -> {"nothing", "error", "sent", "confirmed", "failed"}]
  /\ solBlind \in [Transfers -> BOOLEAN]
  /\ fate \in [Solana!Signatures -> Solana!Promise!Fates]
  /\ solSent \subseteq Transfers
  /\ \A t \in Transfers :
       /\ solPc[t] = "done" <=> solTold[t] # "nothing"
       /\ solPc[t] \in {"mint", "fee", "balance", "send"} => t \notin solSent
       /\ solPc[t] \in {"sent", "wait"} => t \in solSent
       /\ solPc[t] = "lost" => solBlind[t]

(* No call of solana has begun, as Payment says.                             *)
LEMMA SolanaInit == Solana!CallsAssumption /\ Solana!Init => SolanaInv /\ Solana!Promise!Init
<1> SUFFICES ASSUME Solana!CallsAssumption, Solana!Init
             PROVE  SolanaInv /\ Solana!Promise!Init
  OBVIOUS
<1>1. SolanaInv
  BY DEF Solana!CallsAssumption, Solana!Init, SolanaInv, Solana!TypeOK, Solana!Promise!Fates,
         Solana!Blocks
<1>2. Solana!Promise!Init
  BY DEF Solana!Init, Solana!Promise!Init, Solana!Handed
<1> QED BY <1>1, <1>2

(* The signature of a call is one of the signatures.                         *)
LEMMA SolanaSignature ==
  ASSUME SolanaInv, NEW t \in Transfers
  PROVE  /\ Solana!Signature(t) \in Solana!Signatures
         /\ Solana!Handed \in [Transfers -> Solana!Promise!Fates]
         /\ Solana!Handed[t] = IF t \in solSent THEN fate[Solana!Signature(t)] ELSE "no"
         /\ t \in solSent <=> Solana!Handed[t] # "no"
<1> USE DEF SolanaInv, Solana!TypeOK
<1>1. \A u \in Transfers : Solana!Signature(u) \in Solana!Signatures
  BY DEF Solana!Signature, Solana!Signatures
<1>2. Solana!Handed \in [Transfers -> Solana!Promise!Fates]
  BY <1>1 DEF Solana!Handed, Solana!Promise!Fates
<1>3. Solana!Handed[t] = IF t \in solSent THEN fate[Solana!Signature(t)] ELSE "no"
  BY DEF Solana!Handed
<1>4. t \in solSent => fate[Solana!Signature(t)] # "no"
  BY <1>1
<1> QED BY <1>1, <1>2, <1>3, <1>4

(* Every step of a solana transfer preserves it, and is a step of Payment.   *)
LEMMA SolanaStep ==
  ASSUME Solana!CallsAssumption, SolanaInv, [Solana!Next]_solVars
  PROVE  SolanaInv' /\ [Solana!Promise!Next]_(Solana!Promise!paymentVars)
<1> USE DEF SolanaInv, Solana!TypeOK
<1>0. \A u \in Transfers :
        /\ Solana!Signature(u) \in Solana!Signatures
        /\ Solana!Handed[u] = IF u \in solSent THEN fate[Solana!Signature(u)] ELSE "no"
        /\ u \in solSent <=> Solana!Handed[u] # "no"
  BY SolanaSignature
<1>H. Solana!Handed \in [Transfers -> Solana!Promise!Fates]
  BY DEF Solana!Handed, Solana!Signatures, Solana!Signature, Solana!Promise!Fates
<1>a. ASSUME NEW t \in Transfers, NEW from, NEW to, Solana!Step(t, from, to),
             \/ from \in {"mint", "balance"} /\ to \in {"fee", "send"}
             \/ from = "sent" /\ to = "wait"
      PROVE  SolanaInv' /\ UNCHANGED Solana!Promise!paymentVars
  <2>1. SolanaInv'
    BY <1>a DEF Solana!Step, Solana!Go, Solana!Signature
  <2>2. UNCHANGED Solana!Promise!paymentVars
    BY <1>a DEF Solana!Step, Solana!Promise!paymentVars, Solana!Handed, Solana!Signature
  <2> QED BY <2>1, <2>2
<1>b. ASSUME NEW t \in Transfers, NEW from, NEW r, Solana!Tell(t, from, r),
             from # "done", r \in {"error", "sent", "confirmed", "failed"},
             \/ r = "error" /\ (t \notin solSent \/ solBlind[t])
             \/ r = "sent" /\ t \in solSent
             \/ r = "confirmed" /\ Solana!Handed[t] = "done"
             \/ r = "failed" /\ Solana!Handed[t] \in {"failing", "reverted"}
      PROVE  SolanaInv' /\ Solana!Promise!Tell(t, r)
  <2>1. SolanaInv'
    BY <1>b DEF Solana!Tell, Solana!Go, Solana!Signature
  <2>2. Solana!Promise!Tell(t, r)
    <3>1. Solana!Handed' = Solana!Handed
      BY <1>b DEF Solana!Tell, Solana!Handed, Solana!Signature
    <3> QED BY <1>b, <1>0, <3>1 DEF Solana!Tell, Solana!Go, Solana!Promise!Tell
  <2> QED BY <2>1, <2>2
<1>c. ASSUME NEW c \in Transfers, Solana!Takes(c), solPc[c] = "send",
             \/ solPc' = [solPc EXCEPT ![c] = "sent"] /\ UNCHANGED solBlind
             \/ /\ solPc' = [solPc EXCEPT ![c] = "lost"]
                /\ solBlind' = [solBlind EXCEPT ![c] = TRUE]
      PROVE  SolanaInv' /\ Solana!Promise!Network
  <2> DEFINE s == Solana!Signature(c)
  <2>1. /\ solSent' = solSent \cup {c} /\ c \notin solSent
        /\ UNCHANGED <<blockhash, solTold, block>>
        /\ \A u \in Transfers : Solana!Signature(u)' = Solana!Signature(u)
    BY <1>c DEF Solana!Takes, Solana!Signature
  <2>2. /\ fate' \in [Solana!Signatures -> Solana!Promise!Fates]
        /\ s \in Solana!Signatures
        /\ fate'[s] # "no"
        /\ fate[s] # "no" => fate'[s] = fate[s]
        /\ \A z \in Solana!Signatures : z # s => fate'[z] = fate[z]
    BY <1>c, <1>0 DEF Solana!Takes, Solana!Promise!Fates
  <2>3. \A z \in Solana!Signatures :
           fate'[z] # "no" <=> \E u \in solSent' : Solana!Signature(u)' = z
    BY <2>1, <2>2, <1>0
  <2>4. SolanaInv'
    <3>1. /\ solPc' \in [Transfers -> {"mint", "fee", "balance", "send", "sent", "lost",
                                        "wait", "done"}]
          /\ solBlind' \in [Transfers -> BOOLEAN]
          /\ \A u \in Transfers : u # c => solPc'[u] = solPc[u] /\ solBlind'[u] = solBlind[u]
          /\ solPc'[c] = "sent" \/ (solPc'[c] = "lost" /\ solBlind'[c])
      BY <1>c
    <3>2. \A u \in Transfers :
            /\ solPc'[u] = "done" <=> solTold'[u] # "nothing"
            /\ solPc'[u] \in {"mint", "fee", "balance", "send"} => u \notin solSent'
            /\ solPc'[u] \in {"sent", "wait"} => u \in solSent'
            /\ solPc'[u] = "lost" => solBlind'[u]
      BY <1>c, <2>1, <3>1
    <3> QED BY <2>1, <2>2, <2>3, <3>1, <3>2
  <2>5. \A u \in Transfers :
          /\ Solana!Handed'[u] = IF u \in solSent' THEN fate'[Solana!Signature(u)] ELSE "no"
    BY <2>1 DEF Solana!Handed
  <2>6. Solana!Handed' \in [Transfers -> Solana!Promise!Fates]
    BY <2>4, <2>1, <2>2, <1>0 DEF Solana!Handed, Solana!Promise!Fates
  <2>7. \A u \in Transfers : Solana!Handed'[u] = Solana!Handed[u]
                             \/ (Solana!Handed[u] = "no" /\ solTold[u] = "nothing")
    <3> SUFFICES ASSUME NEW u \in Transfers, u # c
                 PROVE Solana!Handed'[u] = Solana!Handed[u]
      BY <1>0, <1>c, <2>1
    <3>1. CASE u \in solSent
      BY <3>1, <2>5, <2>1, <2>2, <1>0
    <3>2. CASE u \notin solSent
      BY <3>2, <2>5, <2>1, <1>0
    <3> QED BY <3>1, <3>2
  <2>8. Solana!Promise!Network
    <3>1. solBlind' \in [Transfers -> BOOLEAN]
      BY <1>c
    <3>2. UNCHANGED solTold
      BY <2>1
    <3>3. \A u \in Transfers : Solana!Promise!MayBecome(u, Solana!Handed'[u])
      BY <2>7 DEF Solana!Promise!MayBecome
    <3>4. \A u \in Transfers : solBlind[u] => solBlind'[u]
      BY <1>c
    <3>5. \A u \in Transfers : solTold[u] # "nothing" => solBlind'[u] = solBlind[u]
      BY <1>c
    <3> QED BY <2>6, <3>1, <3>2, <3>3, <3>4, <3>5, Zenon DEF Solana!Promise!Network
  <2> QED BY <2>4, <2>8
<1>1. ASSUME NEW t \in Transfers, Solana!Mint(t) \/ Solana!Balance(t)
      PROVE  SolanaInv' /\ [Solana!Promise!Next]_(Solana!Promise!paymentVars)
  <2>1. ASSUME NEW from \in {"mint", "balance"}, Solana!Tell(t, from, "error")
        PROVE  SolanaInv' /\ [Solana!Promise!Next]_(Solana!Promise!paymentVars)
    <3>1. t \notin solSent
      BY <2>1 DEF Solana!Tell, Solana!Go
    <3> QED BY <2>1, <3>1, <1>b DEF Solana!Promise!Next
  <2>2. CASE Solana!Step(t, "mint", "fee") \/ Solana!Step(t, "balance", "send")
    BY <2>2, <1>a
  <2> QED BY <1>1, <2>1, <2>2 DEF Solana!Mint, Solana!Balance
<1>2. ASSUME NEW t \in Transfers, Solana!EstimateFee(t)
      PROVE  SolanaInv' /\ [Solana!Promise!Next]_(Solana!Promise!paymentVars)
  <2>1. CASE Solana!Tell(t, "fee", "error")
    <3>1. t \notin solSent
      BY <2>1 DEF Solana!Tell, Solana!Go
    <3> QED BY <2>1, <3>1, <1>b DEF Solana!Promise!Next
  <2>2. CASE ~ Solana!Tell(t, "fee", "error")
    <3>1. /\ solPc[t] = "fee" /\ solPc' = [solPc EXCEPT ![t] = "balance"]
          /\ blockhash' = [blockhash EXCEPT ![t] = block]
          /\ UNCHANGED <<solTold, solSent, block, fate, solBlind>>
      BY <1>2, <2>2 DEF Solana!EstimateFee, Solana!Go
    <3>2. t \notin solSent
      BY <3>1
    <3>3. \A u \in solSent : Solana!Signature(u)' = Solana!Signature(u)
      BY <3>1, <3>2 DEF Solana!Signature
    <3>4. SolanaInv'
      BY <3>1, <3>2, <3>3
    <3>5. Solana!Handed' = Solana!Handed
      BY <3>1, <3>2, <3>3 DEF Solana!Handed
    <3> QED BY <3>1, <3>4, <3>5 DEF Solana!Promise!paymentVars
  <2> QED BY <2>1, <2>2
<1>3. ASSUME NEW t \in Transfers, Solana!Send(t)
      PROVE  SolanaInv' /\ [Solana!Promise!Next]_(Solana!Promise!paymentVars)
  <2>1. CASE Solana!Tell(t, "send", "error")
    <3>1. t \notin solSent
      BY <2>1 DEF Solana!Tell, Solana!Go
    <3> QED BY <2>1, <3>1, <1>b DEF Solana!Promise!Next
  <2>2. CASE ~ Solana!Tell(t, "send", "error")
    BY <1>3, <2>2, <1>c DEF Solana!Send, Solana!Go, Solana!Promise!Next
  <2> QED BY <2>1, <2>2
<1>4. ASSUME NEW t \in Transfers, Solana!TellLost(t)
      PROVE  SolanaInv' /\ [Solana!Promise!Next]_(Solana!Promise!paymentVars)
  <2>1. solBlind[t]
    BY <1>4 DEF Solana!TellLost, Solana!Tell, Solana!Go
  <2> QED BY <1>4, <2>1, <1>b DEF Solana!TellLost, Solana!Promise!Next
<1>5. ASSUME NEW t \in Transfers, Solana!Sent(t)
      PROVE  SolanaInv' /\ [Solana!Promise!Next]_(Solana!Promise!paymentVars)
  <2>1. CASE t \in Waiting
    BY <1>5, <2>1, <1>a DEF Solana!Sent
  <2>2. CASE t \notin Waiting
    <3>1. Solana!Tell(t, "sent", "sent") /\ t \in solSent
      BY <1>5, <2>2 DEF Solana!Sent, Solana!Tell, Solana!Go
    <3> QED BY <3>1, <1>b DEF Solana!Promise!Next
  <2> QED BY <2>1, <2>2
<1>6. ASSUME NEW t \in Transfers, Solana!WaitForTransactionReceipt(t)
      PROVE  SolanaInv' /\ [Solana!Promise!Next]_(Solana!Promise!paymentVars)
  <2>1. solPc[t] = "wait" /\ t \in solSent
    BY <1>6 DEF Solana!WaitForTransactionReceipt, Solana!Tell, Solana!Go
  <2>2. \/ Solana!Handed[t] = "done" /\ Solana!Tell(t, "wait", "confirmed")
        \/ Solana!Handed[t] \in {"failing", "reverted"} /\ Solana!Tell(t, "wait", "failed")
        \/ t \in solSent /\ Solana!Tell(t, "wait", "sent")
    BY <1>6, <2>1, <1>0 DEF Solana!WaitForTransactionReceipt
  <2> QED BY <2>2, <1>b DEF Solana!Promise!Next
<1>7. CASE Solana!NewBlock
  <2>1. block' \in Solana!Blocks /\ UNCHANGED <<solPc, blockhash, solTold, solSent, fate, solBlind>>
    BY <1>7 DEF Solana!NewBlock, Solana!Blocks, Solana!CallsAssumption
  <2>2. SolanaInv'
    BY <2>1 DEF Solana!Signature
  <2>3. Solana!Handed' = Solana!Handed
    BY <2>1 DEF Solana!Handed, Solana!Signature
  <2> QED BY <2>1, <2>2, <2>3 DEF Solana!Promise!paymentVars
<1>8. ASSUME NEW s \in Solana!Signatures, Solana!Settle(s)
      PROVE  SolanaInv' /\ [Solana!Promise!Next]_(Solana!Promise!paymentVars)
  <2>1. /\ fate[s] \in {"taken", "failing"}
        /\ \E f \in {"taken", "failing", "done", "reverted", "dropped"} : fate' = [fate EXCEPT ![s] = f]
        /\ UNCHANGED <<solPc, blockhash, solTold, solSent, block, solBlind>>
        /\ \A u \in Transfers : Solana!Signature(u)' = Solana!Signature(u)
    BY <1>8 DEF Solana!Settle, Solana!Signature
  <2>2. /\ fate' \in [Solana!Signatures -> Solana!Promise!Fates]
        /\ \A z \in Solana!Signatures : z # s => fate'[z] = fate[z]
        /\ fate'[s] # "no"
    BY <2>1 DEF Solana!Promise!Fates
  <2>3. SolanaInv'
    BY <2>1, <2>2
  <2>4. \A u \in Transfers :
          Solana!Handed'[u] = IF u \in solSent THEN fate'[Solana!Signature(u)] ELSE "no"
    BY <2>1 DEF Solana!Handed
  <2>5. Solana!Handed' \in [Transfers -> Solana!Promise!Fates]
    BY <2>1, <2>2, <1>0 DEF Solana!Handed, Solana!Promise!Fates
  <2>6. \A u \in Transfers : \/ Solana!Handed'[u] = Solana!Handed[u]
                             \/ /\ Solana!Handed[u] \in {"taken", "failing"}
                                /\ Solana!Handed'[u] # "no"
    BY <2>1, <2>2, <2>4, <1>0
  <2>7. Solana!Promise!Network
    BY <2>1, <2>5, <2>6 DEF Solana!Promise!Network, Solana!Promise!MayBecome
  <2> QED BY <2>3, <2>7 DEF Solana!Promise!Next
<1>9. CASE UNCHANGED solVars
  <2>1. SolanaInv'
    BY <1>9 DEF solVars, Solana!Signature
  <2>2. Solana!Handed' = Solana!Handed
    BY <1>9 DEF solVars, Solana!Handed, Solana!Signature
  <2> QED BY <1>9, <2>1, <2>2 DEF solVars, Solana!Promise!paymentVars
<1>10. CASE Solana!Next
  BY <1>10, <1>1, <1>2, <1>3, <1>4, <1>5, <1>6, <1>7, <1>8
  DEF Solana!Next, Solana!TransferCoin, Solana!TransferToken, Solana!Call
<1> QED BY <1>9, <1>10

-------------------------------------------------------------------------------
(*****************************************************************************)
(* The transfers of evm: the nonces.                                         *)
(*****************************************************************************)
(* A set of naturals with an element has a least one.                        *)
LEMMA LeastNatural ==
  ASSUME NEW T, T \subseteq Nat, T # {}
  PROVE  \E m \in T : \A k \in T : m <= k
<1>1. PICK m \in T : \A k \in T : <<k, m>> \notin OpToRel(<, Nat)
  BY NatLessThanWellFounded, WFMin
<1>2. \A k \in T : ~ (k < m)
  BY <1>1 DEF OpToRel
<1> QED BY <1>2

(* A call of evm has nothing handed over before it sends, and something once *)
(* that was answered.  The account's nonce counts what was carried out.      *)
(* While a call holds a nonce that it has read, whatever the pool has for    *)
(* that nonce came after it read.                                            *)
EVMInv ==
  /\ EVM!TypeOK
  /\ evmTold \in [Transfers -> {"nothing", "error", "sent", "confirmed", "failed"}]
  /\ evmHanded \in [Transfers -> EVM!Promise!Fates]
  /\ evmBlind \in [Transfers -> BOOLEAN]
  /\ since \in [Transfers -> SUBSET Transfers]
  /\ mined = Cardinality({t \in Transfers : evmHanded[t] \in {"done", "reverted"}})
  /\ \A t \in Transfers :
       /\ evmPc[t] = "done" <=> evmTold[t] # "nothing"
       /\ evmPc[t] \in {"prepare", "nonce", "quote", "send"} => evmHanded[t] = "no"
       /\ evmPc[t] \in {"sent", "wait"} => evmHanded[t] # "no"
       /\ evmPc[t] = "lost" => evmBlind[t]
       /\ evmPc[t] \in {"quote", "send"} /\ evmPool[nonce[t]] # NoTransfer =>
            evmPool[nonce[t]] \in since[t]

(* What the step that hands over promises of what it replaces.               *)
EVMReplaces ==
  \A n \in EVM!Nonces :
    evmPool[n] # NoTransfer /\ evmPool'[n] \notin {NoTransfer, evmPool[n]} =>
      evmPool[n] \in since[evmPool'[n]]

(* A name for what the instance of FiniteSets inside EVM says of Transfers.   *)
LEMMA EVMFinite ==
  ASSUME EVM!SubsetsAssumption
  PROVE  /\ IsFiniteSet(Transfers) /\ Cardinality(Transfers) \in Nat
         /\ EVM!Cardinality(Transfers) = Cardinality(Transfers)
         /\ EVM!Nonces = 0 .. Cardinality(Transfers)
         /\ NoTransfer \notin Transfers
<1>1. EVM!IsFiniteSet(Transfers) <=> IsFiniteSet(Transfers)
  BY DEF EVM!IsFiniteSet, IsFiniteSet
<1>2. EVM!Cardinality(Transfers) = Cardinality(Transfers)
  BY DEF EVM!Cardinality, Cardinality
<1>3. IsFiniteSet(Transfers) /\ NoTransfer \notin Transfers
  BY <1>1 DEF EVM!SubsetsAssumption
<1>4. Cardinality(Transfers) \in Nat
  BY <1>3, FS_CardinalityType
<1> QED BY <1>2, <1>3, <1>4 DEF EVM!Nonces

(* No call of evm has begun, as Payment says.                                *)
LEMMA EVMInit == EVM!SubsetsAssumption /\ EVM!Init => EVMInv /\ EVM!Promise!Init
<1> SUFFICES ASSUME EVM!SubsetsAssumption, EVM!Init PROVE EVMInv /\ EVM!Promise!Init
  OBVIOUS
<1>1. Cardinality(Transfers) \in Nat
  BY EVMFinite
<1>2. {t \in Transfers : evmHanded[t] \in {"done", "reverted"}} = {}
  BY DEF EVM!Init
<1>3. mined = Cardinality({t \in Transfers : evmHanded[t] \in {"done", "reverted"}})
  BY <1>2, FS_EmptySet DEF EVM!Init
<1>4. EVM!TypeOK
  BY <1>1, EVMFinite DEF EVM!Init, EVM!TypeOK
<1>5. EVMInv
  BY <1>1, <1>3, <1>4 DEF EVM!Init, EVMInv, EVM!Promise!Fates
<1> QED BY <1>5 DEF EVM!Init, EVM!Promise!Init

(* PendingNonceAt answers with a nonce the pool has nothing for.  What was   *)
(* carried out and what the pool holds are transactions of different calls,  *)
(* and none of them is of the call that asks: there are fewer than nonces.   *)
LEMMA PendingNonceIsFree ==
  ASSUME EVM!SubsetsAssumption, EVMInv, NEW t \in Transfers, evmPc[t] = "nonce"
  PROVE  EVM!PendingNonce \in EVM!Nonces /\ evmPool[EVM!PendingNonce] = NoTransfer
<1> DEFINE N == Cardinality(Transfers)
           Free == {n \in EVM!Nonces : n >= mined /\ (n = N \/ evmPool[n] = NoTransfer)}
           Mined == {u \in Transfers : evmHanded[u] \in {"done", "reverted"}}
           Taken == {u \in Transfers : evmHanded[u] = "taken"}
<1>1. N \in Nat /\ mined \in Nat /\ mined <= N /\ EVM!Nonces = 0 .. N
  BY EVMFinite DEF EVMInv, EVM!TypeOK
<1>2. N \in Free /\ Free \subseteq Nat
  BY <1>1
<1>3. \E n \in Free : \A k \in Free : n <= k
  BY <1>2, LeastNatural
<1>4. \E n \in EVM!Nonces : /\ n >= mined
                            /\ n = N \/ evmPool[n] = NoTransfer
                            /\ \A m \in mined .. n - 1 : evmPool[m] # NoTransfer
  <2>1. PICK n \in Free : \A k \in Free : n <= k
    BY <1>3
  <2>2. n \in 0 .. N /\ n >= mined /\ (n = N \/ evmPool[n] = NoTransfer)
    BY <2>1, <1>1
  <2>3. ASSUME NEW m \in mined .. n - 1 PROVE evmPool[m] # NoTransfer
    <3>1. m \in EVM!Nonces /\ m >= mined /\ ~ (n <= m)
      BY <1>1, <2>2
    <3> QED BY <3>1, <2>1
  <2> QED BY <2>2, <2>3, <1>1
<1>5. /\ EVM!PendingNonce \in EVM!Nonces
      /\ EVM!PendingNonce = N \/ evmPool[EVM!PendingNonce] = NoTransfer
      /\ \A m \in mined .. EVM!PendingNonce - 1 : evmPool[m] # NoTransfer
  BY <1>4, EVMFinite DEF EVM!PendingNonce
<1>6. ASSUME EVM!PendingNonce = N PROVE FALSE
  <2> DEFINE f == [m \in mined .. N - 1 |-> evmPool[m]]
  <2>1. \A m \in mined .. N - 1 : /\ evmPool[m] \in Taken
                                  /\ nonce[evmPool[m]] = m
    <3> TAKE m \in mined .. N - 1
    <3>1. m \in EVM!Nonces /\ evmPool[m] # NoTransfer
      BY <1>1, <1>5, <1>6
    <3> QED BY <3>1 DEF EVMInv, EVM!TypeOK
  <2>2. f \in Injection(mined .. N - 1, Taken)
    BY <2>1 DEF Injection, IsInjective
  <2>3. IsFiniteSet(Transfers) /\ IsFiniteSet(Taken) /\ IsFiniteSet(Mined)
    BY FS_Subset, EVMFinite
  <2>4. Cardinality(mined .. N - 1) <= Cardinality(Taken)
    BY <2>2, <2>3, FS_Injection
  <2>5. Cardinality(mined .. N - 1) = N - mined
    <3>1. mined \in Int /\ N - 1 \in Int
      BY <1>1
    <3>2. Cardinality(mined .. N - 1) = IF mined > N - 1 THEN 0 ELSE (N - 1) - mined + 1
      BY <3>1, FS_Interval
    <3> HIDE DEF N
    <3> QED BY <1>1, <3>2
  <2>6. Cardinality(Mined \cup Taken) = Cardinality(Mined) + Cardinality(Taken)
    <3>1. Mined \cap Taken = {}
      OBVIOUS
    <3>2. Cardinality(Mined \cup Taken)
            = Cardinality(Mined) + Cardinality(Taken) - Cardinality(Mined \cap Taken)
      BY <2>3, FS_Union
    <3>3. Cardinality(Mined) \in Nat /\ Cardinality(Taken) \in Nat
      BY <2>3, FS_CardinalityType
    <3> HIDE DEF Mined, Taken
    <3> QED BY <3>1, <3>2, <3>3, FS_EmptySet
  <2>7. Cardinality(Mined \cup Taken) <= N - 1
    <3>1. Mined \cup Taken \in SUBSET (Transfers \ {t})
      BY DEF EVMInv
    <3>2. IsFiniteSet(Transfers \ {t}) /\ Cardinality(Transfers \ {t}) = N - 1
      BY <2>3, FS_RemoveElement
    <3> QED BY <3>1, <3>2, FS_Subset
  <2>8. mined = Cardinality(Mined)
    BY DEF EVMInv
  <2>9. Cardinality(Taken) \in Nat
    BY <2>3, FS_CardinalityType
  <2> HIDE DEF N, Mined, Taken
  <2> QED BY <1>1, <2>4, <2>5, <2>6, <2>7, <2>8, <2>9
<1> QED BY <1>5, <1>6

(* Handing over: t gives the pool its transaction for its nonce.             *)
LEMMA EVMTakes ==
  ASSUME EVM!SubsetsAssumption, EVMInv, NEW t \in Transfers, evmPc[t] = "send",
         EVM!NodeTakes(t), UNCHANGED <<nonce, evmTold>>,
         \/ evmPc' = [evmPc EXCEPT ![t] = "sent"] /\ UNCHANGED evmBlind
         \/ /\ evmPc' = [evmPc EXCEPT ![t] = "lost"]
            /\ evmBlind' = [evmBlind EXCEPT ![t] = TRUE]
  PROVE  EVMInv' /\ EVM!Promise!Network /\ EVMReplaces
<1> USE DEF EVMInv, EVM!TypeOK
<1> DEFINE n == nonce[t]
           before == evmPool[n]
<1>1. /\ n \in EVM!Nonces /\ before \in Transfers \cup {NoTransfer}
      /\ before # NoTransfer => before # t /\ evmHanded[before] = "taken" /\ before \in since[t]
      /\ evmHanded[t] = "no" /\ evmTold[t] = "nothing" /\ NoTransfer \notin Transfers
  BY DEF EVM!SubsetsAssumption
<1>2. /\ mined' = mined /\ evmPool' = [evmPool EXCEPT ![n] = t]
      /\ evmHanded' \in [Transfers -> EVM!Promise!Fates]
      /\ evmHanded'[t] = "taken"
      /\ before # NoTransfer => evmHanded'[before] = "dropped"
      /\ \A u \in Transfers : u # t /\ u # before => evmHanded'[u] = evmHanded[u]
      /\ since' = [u \in Transfers |->
                    IF u # t /\ evmPc[u] \in {"quote", "send"} THEN since[u] \cup {t} ELSE {}]
  BY <1>1 DEF EVM!NodeTakes, EVM!Promise!Fates
<1>3. /\ evmPc' \in [Transfers -> {"prepare", "nonce", "quote", "send", "sent", "lost",
                                   "wait", "done"}]
      /\ \A u \in Transfers : u # t => evmPc'[u] = evmPc[u]
      /\ evmPc'[t] \in {"sent", "lost"}
  OBVIOUS
<1>4. /\ evmBlind' \in [Transfers -> BOOLEAN]
      /\ \A u \in Transfers : u # t => evmBlind'[u] = evmBlind[u]
      /\ evmPc'[t] = "lost" => evmBlind'[t]
  <2>1. CASE UNCHANGED evmBlind /\ evmPc' = [evmPc EXCEPT ![t] = "sent"]
    BY <2>1
  <2>2. CASE evmBlind' = [evmBlind EXCEPT ![t] = TRUE]
    BY <2>2
  <2> QED BY <2>1, <2>2
<1>5. \A k \in EVM!Nonces :
        /\ evmPool'[k] = IF k = n THEN t ELSE evmPool[k]
        /\ evmPool'[k] \in Transfers \cup {NoTransfer}
        /\ evmPool'[k] # NoTransfer =>
             evmHanded'[evmPool'[k]] = "taken" /\ nonce[evmPool'[k]] = k
  BY <1>1, <1>2
<1>6. evmPool' \in [EVM!Nonces -> Transfers \cup {NoTransfer}]
  BY <1>2, <1>5
<1>7. EVM!TypeOK'
  BY <1>2, <1>3, <1>5, <1>6
<1>8. {u \in Transfers : evmHanded'[u] \in {"done", "reverted"}}
        = {u \in Transfers : evmHanded[u] \in {"done", "reverted"}}
  BY <1>1, <1>2
<1>9. \A u \in Transfers :
        /\ evmPc'[u] = "done" <=> evmTold[u] # "nothing"
        /\ evmPc'[u] \in {"prepare", "nonce", "quote", "send"} => evmHanded'[u] = "no"
        /\ evmPc'[u] \in {"sent", "wait"} => evmHanded'[u] # "no"
        /\ evmPc'[u] = "lost" => evmBlind'[u]
  BY <1>1, <1>2, <1>3, <1>4
<1>10. ASSUME NEW u \in Transfers, evmPc'[u] \in {"quote", "send"},
              evmPool'[nonce[u]] # NoTransfer
       PROVE  evmPool'[nonce[u]] \in since'[u]
  <2>1. u # t /\ evmPc[u] \in {"quote", "send"} /\ since'[u] = since[u] \cup {t}
    BY <1>2, <1>3, <1>10
  <2>2. nonce[u] \in EVM!Nonces
    OBVIOUS
  <2> QED BY <1>5, <1>10, <2>1, <2>2
<1>11. since' \in [Transfers -> SUBSET Transfers]
  BY <1>2
<1>12. EVMInv'
  <2>1. /\ evmTold' \in [Transfers -> {"nothing", "error", "sent", "confirmed", "failed"}]
        /\ mined' = Cardinality({u \in Transfers : evmHanded'[u] \in {"done", "reverted"}})
    BY <1>2, <1>8
  <2> QED BY <2>1, <1>2, <1>4, <1>7, <1>9, <1>10, <1>11
<1>13. EVM!Promise!Network
  <2>1. \A u \in Transfers : EVM!Promise!MayBecome(u, evmHanded'[u])
    BY <1>1, <1>2 DEF EVM!Promise!MayBecome
  <2>2. \A u \in Transfers : evmBlind[u] => evmBlind'[u]
    OBVIOUS
  <2>3. \A u \in Transfers : evmTold[u] # "nothing" => evmBlind'[u] = evmBlind[u]
    BY <1>1, <1>4
  <2>4. UNCHANGED evmTold /\ evmHanded' \in [Transfers -> EVM!Promise!Fates]
        /\ evmBlind' \in [Transfers -> BOOLEAN]
    BY <1>2, <1>4
  <2> QED BY <2>1, <2>2, <2>3, <2>4, Zenon DEF EVM!Promise!Network
<1>14. EVMReplaces
  BY <1>1, <1>5 DEF EVMReplaces
<1> QED BY <1>12, <1>13, <1>14

(* Every step of an evm transfer preserves it, is a step of Payment, and     *)
(* replaces no transaction but one of a call that overlapped.                *)
LEMMA EVMStep ==
  ASSUME EVM!SubsetsAssumption, EVMInv, [EVM!Next]_evmVars
  PROVE  EVMInv' /\ [EVM!Promise!Next]_(EVM!Promise!paymentVars) /\ EVMReplaces
<1> USE DEF EVMInv, EVM!TypeOK
<1> DEFINE Goal == EVMInv' /\ [EVM!Promise!Next]_(EVM!Promise!paymentVars) /\ EVMReplaces
<1> HIDE DEF Goal
<1>0. ASSUME evmPool' = evmPool PROVE EVMReplaces
  BY <1>0 DEF EVMReplaces
<1>a. ASSUME NEW t \in Transfers, NEW from, NEW to, EVM!Pass(t, from, to),
             <<from, to>> \in {<<"prepare", "nonce">>, <<"quote", "send">>, <<"sent", "wait">>}
      PROVE  Goal
  <2>1. /\ evmPc[t] = from /\ evmPc' = [evmPc EXCEPT ![t] = to]
        /\ UNCHANGED <<nonce, evmTold, evmBlind, since, mined, evmPool, evmHanded>>
    BY <1>a DEF EVM!Pass, EVM!GoTo, EVM!nodeVars
  <2>2. EVMInv'
    BY <1>a, <2>1
  <2> QED BY <2>1, <2>2, <1>0 DEF Goal, EVM!Promise!paymentVars
<1>b. ASSUME NEW t \in Transfers, NEW r, EVM!Tell(t, r), evmPc[t] # "done",
             UNCHANGED <<nonce, evmBlind, mined, evmPool, evmHanded>>,
             since' = since \/ since' = [since EXCEPT ![t] = {}],
             \/ r = "error" /\ (evmHanded[t] = "no" \/ evmBlind[t])
             \/ r = "sent" /\ evmHanded[t] # "no"
             \/ r = "confirmed" /\ evmHanded[t] = "done"
             \/ r = "failed" /\ evmHanded[t] = "reverted"
      PROVE  Goal
  <2>1. /\ evmPc' = [evmPc EXCEPT ![t] = "done"] /\ evmTold' = [evmTold EXCEPT ![t] = r]
        /\ evmTold[t] = "nothing"
        /\ r \in {"error", "sent", "confirmed", "failed"}
    BY <1>b DEF EVM!Tell, EVM!GoTo
  <2>2. \A u \in Transfers : u # t => since'[u] = since[u]
    BY <1>b
  <2>3. since' \in [Transfers -> SUBSET Transfers]
    BY <1>b
  <2>4. EVMInv'
    <3>1. EVM!TypeOK'
      BY <1>b, <2>1
    <3>2. \A u \in Transfers :
            evmPc'[u] \in {"quote", "send"} /\ evmPool[nonce[u]] # NoTransfer =>
              evmPool[nonce[u]] \in since'[u]
      BY <2>1, <2>2
    <3>3. evmTold' \in [Transfers -> {"nothing", "error", "sent", "confirmed", "failed"}]
      BY <2>1
    <3>4. \A u \in Transfers :
            /\ evmPc'[u] = "done" <=> evmTold'[u] # "nothing"
            /\ evmPc'[u] \in {"prepare", "nonce", "quote", "send"} => evmHanded[u] = "no"
            /\ evmPc'[u] \in {"sent", "wait"} => evmHanded[u] # "no"
            /\ evmPc'[u] = "lost" => evmBlind[u]
      BY <2>1
    <3> QED BY <1>b, <2>3, <3>1, <3>2, <3>3, <3>4
  <2>5. EVM!Promise!Tell(t, r)
    BY <1>b, <2>1 DEF EVM!Promise!Tell
  <2> QED BY <1>b, <2>1, <2>4, <2>5, <1>0 DEF Goal, EVM!Promise!Next
<1>c. ASSUME NEW t \in Transfers, NEW step \in {"prepare", "nonce", "quote", "send", "lost"},
             EVM!Fail(t, step)
      PROVE  Goal
  <2>1. /\ evmPc[t] = step /\ EVM!Tell(t, "error")
        /\ since' = [since EXCEPT ![t] = {}]
        /\ UNCHANGED <<nonce, evmBlind, mined, evmPool, evmHanded>>
    BY <1>c DEF EVM!Fail, EVM!nodeVars
  <2>2. evmHanded[t] = "no" \/ evmBlind[t]
    BY <2>1
  <2> QED BY <2>1, <2>2, <1>b
<1>1. ASSUME NEW t \in Transfers, EVM!PrepareCoin(t) \/ EVM!PrepareToken(t) PROVE Goal
  BY <1>1, <1>a, <1>c DEF EVM!PrepareCoin, EVM!PrepareToken
<1>2. ASSUME NEW t \in Transfers, EVM!ReadNonce(t) PROVE Goal
  <2>1. CASE EVM!Fail(t, "nonce")
    BY <2>1, <1>c
  <2>2. CASE ~ EVM!Fail(t, "nonce")
    <3>1. /\ evmPc[t] = "nonce" /\ evmPc' = [evmPc EXCEPT ![t] = "quote"]
          /\ nonce' = [nonce EXCEPT ![t] = EVM!PendingNonce]
          /\ since' = [since EXCEPT ![t] = {}]
          /\ UNCHANGED <<evmTold, evmBlind, mined, evmPool, evmHanded>>
      BY <1>2, <2>2 DEF EVM!ReadNonce, EVM!GoTo, EVM!nodeVars
    <3>2. EVM!PendingNonce \in EVM!Nonces /\ evmPool[EVM!PendingNonce] = NoTransfer
      BY <3>1, PendingNonceIsFree
    <3>3. \A k \in EVM!Nonces : evmPool[k] # t
      BY <3>1 DEF EVM!SubsetsAssumption
    <3>4. nonce' \in [Transfers -> EVM!Nonces] /\ since' \in [Transfers -> SUBSET Transfers]
      BY <3>1, <3>2
    <3>5. EVM!TypeOK'
      BY <3>1, <3>3, <3>4
    <3>6. \A u \in Transfers :
            evmPc'[u] \in {"quote", "send"} /\ evmPool[nonce'[u]] # NoTransfer =>
              evmPool[nonce'[u]] \in since'[u]
      BY <3>1, <3>2
    <3>7. EVMInv'
      BY <3>1, <3>4, <3>5, <3>6
    <3> QED BY <3>1, <3>7, <1>0 DEF Goal, EVM!Promise!paymentVars
  <2> QED BY <2>1, <2>2
<1>3. ASSUME NEW t \in Transfers, EVM!Quote(t) PROVE Goal
  BY <1>3, <1>a, <1>c DEF EVM!Quote
<1>4. ASSUME NEW t \in Transfers, EVM!SendRefused(t) \/ EVM!TellLost(t) PROVE Goal
  BY <1>4, <1>c DEF EVM!SendRefused, EVM!TellLost
<1>5. ASSUME NEW t \in Transfers, EVM!SendAccepted(t) \/ EVM!SendLost(t) PROVE Goal
  <2>1. EVMInv' /\ EVM!Promise!Network /\ EVMReplaces
    BY <1>5, EVMTakes DEF EVM!SendAccepted, EVM!SendLost, EVM!GoTo
  <2> QED BY <2>1 DEF Goal, EVM!Promise!Next
<1>6. ASSUME NEW t \in Transfers, EVM!Sent(t) PROVE Goal
  <2>1. CASE EVM!Pass(t, "sent", "wait")
    BY <2>1, <1>a
  <2>2. CASE ~ EVM!Pass(t, "sent", "wait")
    <3>1. /\ evmPc[t] = "sent" /\ EVM!Tell(t, "sent") /\ since' = since
          /\ UNCHANGED <<nonce, evmBlind, mined, evmPool, evmHanded>>
      BY <1>6, <2>2 DEF EVM!Sent, EVM!nodeVars
    <3> QED BY <3>1, <1>b
  <2> QED BY <2>1, <2>2
<1>7. ASSUME NEW t \in Transfers, EVM!Receipt(t) \/ EVM!GiveUp(t) PROVE Goal
  <2>1. /\ evmPc[t] = "wait" /\ since' = since
        /\ UNCHANGED <<nonce, evmBlind, mined, evmPool, evmHanded>>
        /\ \/ evmHanded[t] = "done" /\ EVM!Tell(t, "confirmed")
           \/ evmHanded[t] = "reverted" /\ EVM!Tell(t, "failed")
           \/ evmHanded[t] # "no" /\ EVM!Tell(t, "sent")
    BY <1>7 DEF EVM!Receipt, EVM!GiveUp, EVM!nodeVars
  <2> QED BY <2>1, <1>b
<1>8. CASE EVM!Mine
  <2> DEFINE t == evmPool[mined]
             Done == {u \in Transfers : evmHanded[u] \in {"done", "reverted"}}
  <2>1. PICK end \in {"done", "reverted"} : evmHanded' = [evmHanded EXCEPT ![t] = end]
    BY <1>8 DEF EVM!Mine
  <2>2. /\ t \in Transfers /\ evmHanded[t] = "taken"
        /\ evmPool' = [evmPool EXCEPT ![mined] = NoTransfer] /\ mined' = mined + 1
        /\ UNCHANGED <<evmPc, nonce, evmTold, evmBlind, since>>
    BY <1>8 DEF EVM!Mine
  <2>3. /\ evmHanded' \in [Transfers -> EVM!Promise!Fates]
        /\ evmHanded'[t] = end
        /\ \A u \in Transfers : u # t => evmHanded'[u] = evmHanded[u]
    BY <2>1, <2>2 DEF EVM!Promise!Fates
  <2>4. {u \in Transfers : evmHanded'[u] \in {"done", "reverted"}} = Done \cup {t}
    BY <2>2, <2>3
  <2>5. Done \subseteq Transfers /\ t \notin Done /\ mined = Cardinality(Done)
    BY <2>2
  <2>6. Cardinality(Done \cup {t}) = mined + 1 /\ mined + 1 <= Cardinality(Transfers)
    <3>1. IsFiniteSet(Transfers) /\ IsFiniteSet(Done)
      BY <2>5, FS_Subset, EVMFinite
    <3>2. Cardinality(Done \cup {t}) = mined + 1
      <4>1. Cardinality(Done \cup {t})
              = IF t \in Done THEN Cardinality(Done) ELSE Cardinality(Done) + 1
        BY <3>1, FS_AddElement
      <4> QED BY <4>1, <2>5
    <3>3. Cardinality(Done \cup {t}) <= Cardinality(Transfers)
      BY <3>1, <2>2, <2>5, FS_Subset
    <3> QED BY <3>2, <3>3
  <2>7. mined' \in EVM!Nonces
    BY EVMFinite, <2>2, <2>6
  <2>8. \A k \in EVM!Nonces :
          /\ evmPool'[k] = IF k = mined THEN NoTransfer ELSE evmPool[k]
          /\ evmPool'[k] # NoTransfer => evmPool'[k] # t
    BY <2>2
  <2>9. evmPool' \in [EVM!Nonces -> Transfers \cup {NoTransfer}]
    BY <2>2
  <2>10. EVM!TypeOK'
    BY <2>2, <2>3, <2>7, <2>8, <2>9
  <2>11. \A u \in Transfers :
           /\ evmPc[u] \in {"prepare", "nonce", "quote", "send"} => evmHanded'[u] = "no"
           /\ evmPc[u] \in {"sent", "wait"} => evmHanded'[u] # "no"
    BY <2>2, <2>3
  <2>12. mined' = Cardinality({u \in Transfers : evmHanded'[u] \in {"done", "reverted"}})
    BY <2>2, <2>4, <2>6
  <2>13. \A u \in Transfers :
           evmPc[u] \in {"quote", "send"} /\ evmPool'[nonce[u]] # NoTransfer =>
             evmPool'[nonce[u]] \in since[u]
    BY <2>8
  <2>14. EVMInv'
    BY <2>2, <2>3, <2>10, <2>11, <2>12, <2>13
  <2>15. EVM!Promise!Network
    BY <2>2, <2>3 DEF EVM!Promise!Network, EVM!Promise!MayBecome
  <2>16. EVMReplaces
    BY <2>8 DEF EVMReplaces
  <2> QED BY <2>14, <2>15, <2>16 DEF Goal, EVM!Promise!Next
<1>9. CASE EVM!Evict
  <2>1. PICK n \in EVM!Nonces :
          /\ evmPool[n] # NoTransfer
          /\ evmHanded' = [evmHanded EXCEPT ![evmPool[n]] = "dropped"]
          /\ evmPool' = [evmPool EXCEPT ![n] = NoTransfer]
          /\ UNCHANGED <<evmPc, nonce, evmTold, evmBlind, since, mined>>
    BY <1>9 DEF EVM!Evict
  <2> DEFINE t == evmPool[n]
  <2>2. t \in Transfers /\ evmHanded[t] = "taken"
    BY <2>1
  <2>3. /\ evmHanded' \in [Transfers -> EVM!Promise!Fates]
        /\ evmHanded'[t] = "dropped"
        /\ \A u \in Transfers : u # t => evmHanded'[u] = evmHanded[u]
    BY <2>1, <2>2 DEF EVM!Promise!Fates
  <2>4. {u \in Transfers : evmHanded'[u] \in {"done", "reverted"}}
          = {u \in Transfers : evmHanded[u] \in {"done", "reverted"}}
    BY <2>2, <2>3
  <2>5. \A k \in EVM!Nonces :
          /\ evmPool'[k] = IF k = n THEN NoTransfer ELSE evmPool[k]
          /\ evmPool'[k] # NoTransfer => evmPool'[k] # t
    BY <2>1
  <2>6. evmPool' \in [EVM!Nonces -> Transfers \cup {NoTransfer}]
    BY <2>1
  <2>7. EVM!TypeOK'
    BY <2>1, <2>3, <2>5, <2>6
  <2>8. \A u \in Transfers :
          /\ evmPc[u] \in {"prepare", "nonce", "quote", "send"} => evmHanded'[u] = "no"
          /\ evmPc[u] \in {"sent", "wait"} => evmHanded'[u] # "no"
    BY <2>2, <2>3
  <2>9. \A u \in Transfers :
          evmPc[u] \in {"quote", "send"} /\ evmPool'[nonce[u]] # NoTransfer =>
            evmPool'[nonce[u]] \in since[u]
    BY <2>5
  <2>10. EVMInv'
    BY <2>1, <2>3, <2>4, <2>7, <2>8, <2>9
  <2>11. EVM!Promise!Network
    BY <2>1, <2>2, <2>3 DEF EVM!Promise!Network, EVM!Promise!MayBecome
  <2>12. EVMReplaces
    BY <2>5 DEF EVMReplaces
  <2> QED BY <2>10, <2>11, <2>12 DEF Goal, EVM!Promise!Next
<1>10. CASE UNCHANGED evmVars
  <2>1. EVMInv'
    BY <1>10 DEF evmVars
  <2> QED BY <1>10, <2>1, <1>0 DEF evmVars, Goal, EVM!Promise!paymentVars
<1>11. CASE EVM!Next
  <2>1. ASSUME NEW t \in Transfers, EVM!Transfer(t) PROVE Goal
    BY <2>1, <1>2, <1>3, <1>4, <1>5, <1>6, <1>7 DEF EVM!Transfer
  <2>2. ASSUME NEW t \in Transfers, EVM!TransferCoin(t) \/ EVM!TransferToken(t) PROVE Goal
    BY <2>1, <2>2, <1>1 DEF EVM!TransferCoin, EVM!TransferToken
  <2>3. EVM!Mine \/ EVM!Evict \/ \E t \in Transfers : EVM!TransferCoin(t) \/ EVM!TransferToken(t)
    BY <1>11 DEF EVM!Next
  <2> HIDE DEF EVMInv, EVM!TypeOK
  <2> QED BY <2>3, <2>2, <1>8, <1>9 DEF Goal
<1> QED BY <1>10, <1>11 DEF Goal

-------------------------------------------------------------------------------
(*****************************************************************************)
(* The transfers of bitcoin: the coins.                                      *)
(*****************************************************************************)
Choosing == {"author", "verify", "post"}

(* Where a call of bitcoin is says what it holds and what it was told.        *)
BtcCall(t) ==
  /\ btcPc[t] = "done" <=> btcTold[t] # "nothing"
  /\ btcPc[t] \in Bitcoin!InMutex <=> holder[Wallet[t]] = t
  /\ btcPc[t] \in {"start", "lock", "list"} \cup Choosing =>
       btcHanded[t] = "no" /\ t \notin late
  /\ btcPc[t] \in {"sent", "wait"} => btcHanded[t] # "no"
  /\ btcPc[t] = "lost" => btcBlind[t]
  /\ t \in late => btcBlind[t] /\ btcHanded[t] = "no"
  /\ btcPc[t] = "author" => list[t] # {}
  /\ btcPc[t] \in {"verify", "post"} \/ t \in late => tx[t].in # {}

BtcCalls ==
  /\ btcPc \in [Payments -> Bitcoin!InMutex \cup {"start", "lock", "sent", "wait", "done"}]
  /\ holder \in [{Wallet[t] : t \in Payments} -> Payments \cup {NoTransfer}]
  /\ list = [t \in Payments |-> list[t]]
  /\ tx = [t \in Payments |-> tx[t]]
  /\ unseen = [t \in Payments |-> unseen[t]]
  /\ btcTold \in [Payments -> {"nothing", "error", "sent", "confirmed", "failed"}]
  /\ btcBlind \in [Payments -> BOOLEAN]
  /\ late \subseteq Payments
  /\ \A t \in Payments : BtcCall(t)

(* The transactions the node holds spend different coins, which are there;   *)
(* the index has the ancestors of what it has.                               *)
BtcPool ==
  /\ btcHanded \in [Payments -> Bitcoin!Promise!Fates]
  /\ indexed \subseteq Payments
  /\ \A t \in Payments : btcHanded[t] # "no" => tx[t].in # {}
  /\ \A t \in indexed : btcHanded[t] # "no"
  /\ \A t, u \in Bitcoin!InPool \cup Bitcoin!Chain : t # u => tx[t].in \cap tx[u].in = {}
  /\ \A t \in Bitcoin!InPool :
       tx[t].in \subseteq Bitcoin!Coins \cup Bitcoin!Chain \cup Bitcoin!InPool
  /\ \A t \in indexed \cap Bitcoin!InPool : tx[t].in \subseteq Bitcoin!Coins \cup indexed

(* The coins from which u chooses, and then those it chose.                  *)
Chosen(u) == IF btcPc[u] = "author" THEN {x.coin : x \in list[u]} ELSE tx[u].in

(* The transactions K that the index had when u listed: u spends no coin     *)
(* that they spend, and their ancestors in the pool are among them.  What    *)
(* else the same wallet has in the pool is what the index did not have.      *)
Knew(u, K) ==
  /\ \A v \in K : btcHanded[v] # "no" /\ Chosen(u) \cap tx[v].in = {}
  /\ \A v \in K \cap Bitcoin!InPool : tx[v].in \subseteq Bitcoin!Coins \cup K
  /\ \A v \in Bitcoin!InPool : Wallet[v] = Wallet[u] /\ ~ btcBlind[v] => v \in unseen[u] \cup K

BtcKnew == \A u \in Payments :
             btcPc[u] \in Choosing => \E K \in SUBSET Payments : Knew(u, K)

BtcInv == BtcCalls /\ BtcPool /\ BtcKnew

(* What no transfer of the same wallet object does to another, see           *)
(* ReplacedOnlyIfUnseen.                                                     *)
BtcReplaces ==
  \A t, u \in Payments :
    /\ btcHanded[t] = "taken" /\ btcHanded'[t] = "dropped"
    /\ btcHanded[u] = "no" /\ btcHanded'[u] = "taken"
    /\ Wallet[t] = Wallet[u] /\ ~ btcBlind'[t] /\ ~ btcBlind'[u]
    => t \in unseen[u]

(* No call of bitcoin has begun, as Payment says.                            *)
LEMMA BtcInit ==
  Bitcoin!WalletAssumption /\ Bitcoin!Init => BtcInv /\ Bitcoin!Promise!Init
<1> SUFFICES ASSUME Bitcoin!WalletAssumption, Bitcoin!Init
             PROVE  BtcInv /\ Bitcoin!Promise!Init
  OBVIOUS
<1>1. BtcCalls
  BY DEF Bitcoin!WalletAssumption, Bitcoin!Init, BtcCalls, BtcCall, Bitcoin!InMutex, Choosing
<1>2. BtcPool
  BY DEF Bitcoin!Init, BtcPool, Bitcoin!Promise!Fates, Bitcoin!InPool, Bitcoin!Chain
<1>3. BtcKnew
  BY DEF Bitcoin!Init, BtcKnew, Choosing
<1> QED BY <1>1, <1>2, <1>3 DEF BtcInv, Bitcoin!Init, Bitcoin!Promise!Init

(* The descendants of transactions of the pool are in the pool, and every    *)
(* set of its transactions that has the children of its members has them.    *)
LEMMA BtcDescendants ==
  ASSUME BtcPool, NEW s \in SUBSET Bitcoin!InPool
  PROVE  /\ s \subseteq Bitcoin!Descendants(s)
         /\ Bitcoin!Descendants(s) \subseteq Bitcoin!InPool
         /\ \A v \in Bitcoin!InPool :
              tx[v].in \cap Bitcoin!Descendants(s) # {} => v \in Bitcoin!Descendants(s)
         /\ \A c \in SUBSET Payments :
              /\ s \subseteq c
              /\ \A v \in Bitcoin!InPool : tx[v].in \cap c # {} => v \in c
              => Bitcoin!Descendants(s) \subseteq c
<1> DEFINE Closed(c) == /\ s \subseteq c
                        /\ {v \in Bitcoin!InPool : tx[v].in \cap c # {}} \subseteq c
           D == Bitcoin!Descendants(s)
<1>1. \A u : u \in D <=> u \in Payments /\ \A c \in SUBSET Payments : Closed(c) => u \in c
  BY DEF Bitcoin!Descendants
<1>2. Bitcoin!InPool \subseteq Payments
  BY DEF Bitcoin!InPool
<1>3. Closed(Bitcoin!InPool)
  OBVIOUS
<1>4. \A v \in Bitcoin!InPool : tx[v].in \cap D # {} => v \in D
  <2> SUFFICES ASSUME NEW v \in Bitcoin!InPool, NEW x \in tx[v].in \cap D,
                      NEW c \in SUBSET Payments, Closed(c)
               PROVE  v \in c
    BY <1>1, <1>2
  <2>1. x \in c
    BY <1>1
  <2> QED BY <2>1
<1>5. s \subseteq D
  BY <1>1, <1>2
<1>6. D \subseteq Bitcoin!InPool
  BY <1>1, <1>2, <1>3
<1>7. \A c \in SUBSET Payments :
        /\ s \subseteq c
        /\ \A v \in Bitcoin!InPool : tx[v].in \cap c # {} => v \in c
        => D \subseteq c
  BY <1>1
<1> QED BY <1>4, <1>5, <1>6, <1>7

(* The node takes the transaction of t: what is dropped for it are           *)
(* transactions of the pool, and the pool is in order again.                 *)
LEMMA BtcNodeTakes ==
  ASSUME Bitcoin!WalletAssumption, BtcPool, NEW t \in Payments, Bitcoin!NodeTakes(t),
         btcHanded[t] = "no", tx[t].in # {}, UNCHANGED tx
  PROVE  /\ BtcPool'
         /\ btcHanded'[t] = "taken"
         /\ \A v \in Payments \ {t} :
              \/ btcHanded'[v] = btcHanded[v]
              \/ btcHanded[v] = "taken" /\ btcHanded'[v] = "dropped"
                 /\ v \in Bitcoin!Conflicts(t)
<1> USE DEF BtcPool, Bitcoin!InPool, Bitcoin!Chain
<1> DEFINE S == {u \in Bitcoin!InPool : tx[u].in \cap tx[t].in # {}}
           D == Bitcoin!Conflicts(t)
<1>1. /\ S \subseteq D /\ D \subseteq Bitcoin!InPool
      /\ \A v \in Bitcoin!InPool : tx[v].in \cap D # {} => v \in D
  <2>1. S \in SUBSET Bitcoin!InPool /\ D = Bitcoin!Descendants(S)
    BY DEF Bitcoin!Conflicts
  <2> QED BY <2>1, BtcDescendants
<1>2. /\ btcHanded' = [u \in Payments |-> IF u = t THEN "taken"
                                          ELSE IF u \in D THEN "dropped" ELSE btcHanded[u]]
      /\ indexed' = indexed /\ tx' = tx
      /\ tx[t].in \subseteq Bitcoin!Coins \cup Bitcoin!Chain \cup (Bitcoin!InPool \ D)
      /\ tx[t].in \cap Bitcoin!Spent(Bitcoin!Chain) = {}
  BY DEF Bitcoin!NodeTakes, Bitcoin!Acceptable
<1> HIDE DEF D
<1>3. /\ Bitcoin!InPool' = (Bitcoin!InPool \ D) \cup {t}
      /\ Bitcoin!Chain' = Bitcoin!Chain
      /\ t \notin Bitcoin!InPool /\ t \notin Bitcoin!Chain
  BY <1>1, <1>2
<1>4. \A v \in Payments \ {t} :
        \/ btcHanded'[v] = btcHanded[v]
        \/ btcHanded[v] = "taken" /\ btcHanded'[v] = "dropped" /\ v \in D
  BY <1>1, <1>2
<1>5. /\ btcHanded' \in [Payments -> Bitcoin!Promise!Fates]
      /\ \A v \in Payments : btcHanded'[v] # "no" => tx[v].in # {}
      /\ \A v \in indexed : btcHanded'[v] # "no"
  BY <1>1, <1>2 DEF Bitcoin!Promise!Fates
<1>6. \A u, v \in Bitcoin!InPool' \cup Bitcoin!Chain' : u # v => tx[u].in \cap tx[v].in = {}
  <2>1. \A u \in (Bitcoin!InPool \ D) \cup Bitcoin!Chain : tx[u].in \cap tx[t].in = {}
    <3>1. \A u \in Bitcoin!Chain : tx[u].in \subseteq Bitcoin!Spent(Bitcoin!Chain)
      BY DEF Bitcoin!Spent
    <3>2. \A u \in Bitcoin!InPool \ D : tx[u].in \cap tx[t].in = {}
      BY <1>1
    <3> QED BY <1>2, <3>1, <3>2
  <2> QED BY <1>3, <2>1
<1>7. \A v \in Bitcoin!InPool' :
        tx[v].in \subseteq Bitcoin!Coins \cup Bitcoin!Chain' \cup Bitcoin!InPool'
  BY <1>1, <1>2, <1>3
<1>8. \A v \in indexed \cap Bitcoin!InPool' : tx[v].in \subseteq Bitcoin!Coins \cup indexed
  BY <1>2, <1>3
<1>9. BtcPool'
  BY <1>2, <1>5, <1>6, <1>7, <1>8 DEF Bitcoin!Coins
<1> QED BY <1>2, <1>4, <1>9 DEF D

(* The pool stays in order when neither it nor the index moves, and no       *)
(* transaction that was handed over changes.                                 *)
LEMMA BtcPoolKept ==
  ASSUME BtcPool, UNCHANGED <<btcHanded, indexed>>,
         \A v \in Payments : btcHanded[v] # "no" => tx'[v] = tx[v]
  PROVE  BtcPool'
<1>1. Bitcoin!InPool' = Bitcoin!InPool /\ Bitcoin!Chain' = Bitcoin!Chain
  BY DEF Bitcoin!InPool, Bitcoin!Chain
<1>2. \A v \in Bitcoin!InPool \cup Bitcoin!Chain \cup indexed : tx'[v] = tx[v]
  BY DEF BtcPool, Bitcoin!InPool, Bitcoin!Chain
<1> QED BY <1>1, <1>2 DEF BtcPool

(* What u knew when it listed stays true while u chooses: only a transaction *)
(* of another wallet object, or a blind one, may be new in the pool.         *)
LEMMA BtcKnewKept ==
  ASSUME BtcPool, NEW u \in Payments, NEW K \in SUBSET Payments, Knew(u, K),
         Chosen(u)' \subseteq Chosen(u), unseen'[u] = unseen[u],
         \A v \in Payments : btcHanded[v] # "no" => btcHanded'[v] # "no" /\ tx'[v] = tx[v],
         \A v \in Payments : btcHanded'[v] = "taken" =>
           \/ btcHanded[v] = "taken" /\ (btcBlind'[v] \/ ~ btcBlind[v])
           \/ btcHanded[v] = "no" /\ (Wallet[v] # Wallet[u] \/ btcBlind'[v])
  PROVE  Knew(u, K)'
<1>1. \A v \in K : btcHanded[v] # "no" /\ btcHanded'[v] # "no" /\ tx'[v] = tx[v]
  BY DEF Knew
<1>2. \A v \in K : btcHanded'[v] # "no" /\ Chosen(u)' \cap tx'[v].in = {}
  BY <1>1 DEF Knew
<1>3. \A v \in K \cap Bitcoin!InPool' : tx'[v].in \subseteq Bitcoin!Coins \cup K
  <2>1. K \cap Bitcoin!InPool' \subseteq K \cap Bitcoin!InPool
    BY <1>1 DEF Bitcoin!InPool
  <2> QED BY <1>1, <2>1 DEF Knew
<1>4. \A v \in Bitcoin!InPool' : Wallet[v] = Wallet[u] /\ ~ btcBlind'[v] => v \in unseen'[u] \cup K
  BY DEF Knew, Bitcoin!InPool
<1> QED BY <1>2, <1>3, <1>4 DEF Knew, Bitcoin!Coins

(* Nothing changes for a call that does not move, except what becomes of its *)
(* transaction.                                                              *)
LEMMA BtcStays ==
  ASSUME NEW v \in Payments, BtcCall(v), btcPc'[v] = btcPc[v], btcTold'[v] = btcTold[v],
         holder'[Wallet[v]] = v <=> holder[Wallet[v]] = v,
         list'[v] = list[v], tx'[v] = tx[v], btcBlind'[v] = btcBlind[v],
         v \in late' <=> v \in late,
         btcHanded'[v] = "no" <=> btcHanded[v] = "no"
  PROVE  BtcCall(v)'
  BY DEF BtcCall

(* A step of one call that asks the network for nothing it keeps.            *)
LEMMA BtcCallStep ==
  ASSUME BtcInv, NEW t \in Payments,
         UNCHANGED <<btcHanded, late, indexed, btcBlind>>,
         \A v \in Payments \ {t} : /\ btcPc'[v] = btcPc[v] /\ list'[v] = list[v]
                                   /\ tx'[v] = tx[v] /\ unseen'[v] = unseen[v],
         btcHanded[t] # "no" => tx'[t] = tx[t],
         btcPc'[t] \in Choosing =>
           /\ btcPc[t] \in Choosing /\ unseen'[t] = unseen[t]
           /\ Chosen(t)' \subseteq Chosen(t)
  PROVE  BtcPool' /\ BtcKnew' /\ BtcReplaces
<1>1. BtcPool'
  <2>1. \A v \in Payments : btcHanded[v] # "no" => tx'[v] = tx[v]
    OBVIOUS
  <2> QED BY <2>1, BtcPoolKept DEF BtcInv
<1>2. ASSUME NEW u \in Payments, btcPc'[u] \in Choosing
      PROVE  \E K \in SUBSET Payments : Knew(u, K)'
  <2>1. btcPc[u] \in Choosing /\ unseen'[u] = unseen[u] /\ Chosen(u)' \subseteq Chosen(u)
    BY <1>2 DEF Chosen
  <2>2. PICK K \in SUBSET Payments : Knew(u, K)
    BY <2>1 DEF BtcInv, BtcKnew
  <2>3. \A v \in Payments : btcHanded[v] # "no" => btcHanded'[v] # "no" /\ tx'[v] = tx[v]
    OBVIOUS
  <2>4. \A v \in Payments : btcHanded'[v] = "taken" =>
          \/ btcHanded[v] = "taken" /\ (btcBlind'[v] \/ ~ btcBlind[v])
          \/ btcHanded[v] = "no" /\ (Wallet[v] # Wallet[u] \/ btcBlind'[v])
    OBVIOUS
  <2>5. Knew(u, K)'
    BY <2>1, <2>2, <2>3, <2>4, BtcKnewKept DEF BtcInv
  <2> QED BY <2>5
<1>3. BtcKnew'
  BY <1>2 DEF BtcKnew
<1>4. BtcReplaces
  BY DEF BtcReplaces
<1> QED BY <1>1, <1>3, <1>4

(* A step in which only the call of t moves, told nothing yet, or what it is *)
(* told.                                                                     *)
LEMMA BtcTell ==
  ASSUME BtcInv, NEW t \in Payments, NEW r, Bitcoin!Tell(t, r), btcPc[t] # "done",
         UNCHANGED <<btcHanded, btcBlind>>,
         \/ r = "error" /\ (btcHanded[t] = "no" \/ btcBlind[t])
         \/ r = "sent" /\ btcHanded[t] # "no"
         \/ r = "confirmed" /\ btcHanded[t] = "done"
  PROVE  /\ Bitcoin!Promise!Tell(t, r) /\ r \in {"error", "sent", "confirmed", "failed"}
         /\ btcTold' \in [Payments -> {"nothing", "error", "sent", "confirmed", "failed"}]
         /\ btcTold'[t] # "nothing"
         /\ \A v \in Payments \ {t} : btcTold'[v] = btcTold[v]
         /\ btcPc' \in [Payments -> Bitcoin!InMutex \cup {"start", "lock", "sent", "wait", "done"}]
         /\ btcPc'[t] = "done" /\ \A v \in Payments \ {t} : btcPc'[v] = btcPc[v]
  BY DEF BtcInv, BtcCalls, BtcCall, Bitcoin!Tell, Bitcoin!GoTo, Bitcoin!Promise!Tell

(* Letting go of the mutex, and what is left of the call.                    *)
LEMMA BtcUnlock ==
  ASSUME Bitcoin!WalletAssumption, BtcInv, NEW t \in Payments, Bitcoin!Unlock(t),
         btcPc[t] \in Bitcoin!InMutex
  PROVE  /\ holder' \in [{Wallet[v] : v \in Payments} -> Payments \cup {NoTransfer}]
         /\ holder'[Wallet[t]] # t
         /\ \A v \in Payments \ {t} : holder'[Wallet[v]] = v <=> holder[Wallet[v]] = v
<1>1. /\ holder' = [holder EXCEPT ![Wallet[t]] = NoTransfer]
      /\ holder[Wallet[t]] = t /\ NoTransfer \notin Payments
      /\ holder \in [{Wallet[v] : v \in Payments} -> Payments \cup {NoTransfer}]
  BY DEF Bitcoin!Unlock, BtcInv, BtcCalls, BtcCall, Bitcoin!WalletAssumption
<1> QED BY <1>1

(* An error under the mutex.                                                 *)
LEMMA BtcFail ==
  ASSUME Bitcoin!WalletAssumption, BtcInv, NEW t \in Payments,
         NEW step \in {"list", "author", "verify", "post"}, Bitcoin!Fail(t, step)
  PROVE  BtcInv' /\ [Bitcoin!Promise!Next]_(Bitcoin!Promise!paymentVars) /\ BtcReplaces
<1>1. /\ btcPc[t] = step /\ Bitcoin!Tell(t, "error") /\ Bitcoin!Unlock(t)
      /\ list' = [list EXCEPT ![t] = {}] /\ tx' = [tx EXCEPT ![t] = Bitcoin!NoTx]
      /\ unseen' = [unseen EXCEPT ![t] = {}]
      /\ UNCHANGED <<btcHanded, late, indexed, btcBlind>>
  BY DEF Bitcoin!Fail, Bitcoin!netVars
<1>2. btcHanded[t] = "no" /\ t \notin late
  BY <1>1 DEF BtcInv, BtcCalls, BtcCall, Choosing
<1>3. /\ Bitcoin!Promise!Tell(t, "error")
      /\ btcTold' \in [Payments -> {"nothing", "error", "sent", "confirmed", "failed"}]
      /\ btcTold'[t] # "nothing"
      /\ \A v \in Payments \ {t} : btcTold'[v] = btcTold[v]
      /\ btcPc' \in [Payments -> Bitcoin!InMutex \cup {"start", "lock", "sent", "wait", "done"}]
      /\ btcPc'[t] = "done" /\ \A v \in Payments \ {t} : btcPc'[v] = btcPc[v]
  BY <1>1, <1>2, BtcTell
<1>4. /\ holder' \in [{Wallet[v] : v \in Payments} -> Payments \cup {NoTransfer}]
      /\ holder'[Wallet[t]] # t
      /\ \A v \in Payments \ {t} : holder'[Wallet[v]] = v <=> holder[Wallet[v]] = v
  BY <1>1, BtcUnlock DEF Bitcoin!InMutex
<1>5. /\ list' = [v \in Payments |-> list'[v]]
      /\ tx' = [v \in Payments |-> tx'[v]]
      /\ unseen' = [v \in Payments |-> unseen'[v]]
      /\ \A v \in Payments \ {t} : /\ list'[v] = list[v] /\ tx'[v] = tx[v]
                                   /\ unseen'[v] = unseen[v]
  BY <1>1 DEF BtcInv, BtcCalls
<1>6. BtcCalls'
  <2>1. BtcCall(t)'
    BY <1>1, <1>2, <1>3, <1>4 DEF BtcCall, Bitcoin!InMutex, Choosing
  <2>2. ASSUME NEW v \in Payments \ {t} PROVE BtcCall(v)'
    BY <1>1, <1>3, <1>4, <1>5, BtcStays DEF BtcInv, BtcCalls
  <2> QED BY <1>1, <1>3, <1>4, <1>5, <2>1, <2>2 DEF BtcInv, BtcCalls
<1>7. BtcPool' /\ BtcKnew' /\ BtcReplaces
  BY <1>1, <1>2, <1>3, <1>5, BtcCallStep DEF Choosing
<1> QED BY <1>3, <1>6, <1>7 DEF BtcInv, Bitcoin!Promise!Next

(* The node takes the transaction of t, from the call that holds the mutex,  *)
(* or from one that has lost sight of it.                                    *)
LEMMA BtcTakes ==
  ASSUME Bitcoin!WalletAssumption, BtcInv, NEW t \in Payments, Bitcoin!NodeTakes(t),
         btcHanded[t] = "no", tx[t].in # {}, UNCHANGED <<tx, btcTold>>,
         \A v \in Payments \ {t} : /\ btcPc'[v] = btcPc[v] /\ list'[v] = list[v]
                                   /\ unseen'[v] = unseen[v] /\ btcBlind'[v] = btcBlind[v],
         btcPc'[t] \notin Choosing, btcBlind' \in [Payments -> BOOLEAN],
         btcBlind[t] => btcBlind'[t],
         btcPc[t] = "post" \/ (btcBlind[t] /\ btcBlind'[t])
  PROVE  /\ BtcPool' /\ BtcKnew' /\ BtcReplaces /\ Bitcoin!Promise!Network
         /\ \A v \in Payments \ {t} : btcHanded'[v] = "no" <=> btcHanded[v] = "no"
         /\ btcHanded'[t] = "taken"
<1>1. /\ BtcPool'
      /\ btcHanded'[t] = "taken"
      /\ \A v \in Payments \ {t} :
           \/ btcHanded'[v] = btcHanded[v]
           \/ btcHanded[v] = "taken" /\ btcHanded'[v] = "dropped"
              /\ v \in Bitcoin!Conflicts(t)
  BY BtcNodeTakes DEF BtcInv
<1>2. ASSUME NEW u \in Payments, btcPc'[u] \in Choosing
      PROVE  \E K \in SUBSET Payments : Knew(u, K)'
  <2>1. u # t /\ btcPc[u] \in Choosing /\ unseen'[u] = unseen[u] /\ Chosen(u)' \subseteq Chosen(u)
    BY <1>2 DEF Chosen
  <2>2. PICK K \in SUBSET Payments : Knew(u, K)
    BY <2>1 DEF BtcInv, BtcKnew
  <2>3. \A v \in Payments : btcHanded[v] # "no" => btcHanded'[v] # "no" /\ tx'[v] = tx[v]
    BY <1>1
  <2>4. Wallet[t] # Wallet[u] \/ btcBlind'[t]
    <3>1. CASE btcPc[t] = "post"
      <4>1. holder[Wallet[t]] = t /\ holder[Wallet[u]] = u
        BY <2>1, <3>1 DEF BtcInv, BtcCalls, BtcCall, Bitcoin!InMutex, Choosing
      <4> QED BY <2>1, <4>1
    <3> QED BY <3>1
  <2>5. \A v \in Payments : btcHanded'[v] = "taken" =>
          \/ btcHanded[v] = "taken" /\ (btcBlind'[v] \/ ~ btcBlind[v])
          \/ btcHanded[v] = "no" /\ (Wallet[v] # Wallet[u] \/ btcBlind'[v])
    BY <1>1, <2>4
  <2>6. Knew(u, K)'
    BY <2>1, <2>2, <2>3, <2>5, BtcKnewKept DEF BtcInv
  <2> QED BY <2>6
<1>3. BtcKnew'
  BY <1>2 DEF BtcKnew
<1>4. BtcReplaces
  <2> SUFFICES ASSUME NEW v \in Payments, v \in Bitcoin!Conflicts(t), btcHanded[v] = "taken",
                      Wallet[v] = Wallet[t], ~ btcBlind'[v], ~ btcBlind'[t]
               PROVE  v \in unseen[t]
    BY <1>1 DEF BtcReplaces
  <2>1. btcPc[t] = "post" /\ v # t
    OBVIOUS
  <2>2. PICK K \in SUBSET Payments : Knew(t, K)
    BY <2>1 DEF BtcInv, BtcKnew, Choosing
  <2> DEFINE c == Bitcoin!InPool \ K
             S == {u \in Bitcoin!InPool : tx[u].in \cap tx[t].in # {}}
  <2>3. S \subseteq c
    BY <2>1, <2>2 DEF Knew, Chosen
  <2>4. \A u \in Bitcoin!InPool : tx[u].in \cap c # {} => u \in c
    <3> SUFFICES ASSUME NEW u \in Bitcoin!InPool \cap K, NEW x \in tx[u].in \cap c PROVE FALSE
      OBVIOUS
    <3>1. x \in Bitcoin!Coins /\ x \in Payments
      BY <2>2 DEF Knew, Bitcoin!InPool
    <3> QED BY <3>1 DEF Bitcoin!WalletAssumption
  <2>5. c \in SUBSET Payments /\ S \in SUBSET Bitcoin!InPool
    BY DEF Bitcoin!InPool
  <2>6. Bitcoin!Descendants(S) \subseteq c
    <3>1. \A d \in SUBSET Payments :
            /\ S \subseteq d
            /\ \A u \in Bitcoin!InPool : tx[u].in \cap d # {} => u \in d
            => Bitcoin!Descendants(S) \subseteq d
      BY <2>5, BtcDescendants DEF BtcInv
    <3> HIDE DEF c, S
    <3> QED BY <2>3, <2>4, <2>5, <3>1
  <2>7. v \in c
    BY <2>6 DEF Bitcoin!Conflicts
  <2>8. ~ btcBlind[v]
    BY <2>1
  <2> QED BY <2>2, <2>7, <2>8 DEF Knew
<1>5. Bitcoin!Promise!Network
  <2>0. \A v \in Payments : btcPc[v] = "done" <=> btcTold[v] # "nothing"
    BY DEF BtcInv, BtcCalls, BtcCall
  <2>1. \A v \in Payments : Bitcoin!Promise!MayBecome(v, btcHanded'[v])
    BY <1>1, <2>0 DEF Bitcoin!Promise!MayBecome
  <2>2. \A v \in Payments : btcBlind[v] => btcBlind'[v]
    OBVIOUS
  <2>3. \A v \in Payments : btcTold[v] # "nothing" => btcBlind'[v] = btcBlind[v]
    BY <2>0
  <2>4. UNCHANGED btcTold /\ btcHanded' \in [Payments -> Bitcoin!Promise!Fates]
    BY <1>1 DEF BtcPool
  <2> QED BY <2>1, <2>2, <2>3, <2>4, Zenon DEF Bitcoin!Promise!Network
<1> QED BY <1>1, <1>3, <1>4, <1>5

(* Every step of a bitcoin transfer preserves it, is a step of Payment, and  *)
(* replaces no transaction of the same wallet but one the index did not show. *)
LEMMA BtcStep ==
  ASSUME Bitcoin!WalletAssumption, BtcInv, [Bitcoin!Next]_btcVars
  PROVE  BtcInv' /\ [Bitcoin!Promise!Next]_(Bitcoin!Promise!paymentVars) /\ BtcReplaces
<1> DEFINE Goal == BtcInv' /\ [Bitcoin!Promise!Next]_(Bitcoin!Promise!paymentVars)
                   /\ BtcReplaces
           Steps == Bitcoin!InMutex \cup {"start", "lock", "sent", "wait", "done"}
<1> HIDE DEF Goal
<1>0. /\ \A v \in Payments : BtcCall(v)
      /\ btcPc \in [Payments -> Steps]
      /\ holder \in [{Wallet[t] : t \in Payments} -> Payments \cup {NoTransfer}]
      /\ list = [t \in Payments |-> list[t]] /\ tx = [t \in Payments |-> tx[t]]
      /\ unseen = [t \in Payments |-> unseen[t]]
      /\ btcTold \in [Payments -> {"nothing", "error", "sent", "confirmed", "failed"}]
      /\ btcBlind \in [Payments -> BOOLEAN] /\ late \subseteq Payments
      /\ BtcPool /\ BtcKnew
  BY DEF BtcInv, BtcCalls
<1>T. ASSUME NEW t \in Payments, NEW r, Bitcoin!Tell(t, r),
             btcPc[t] \in {"start", "lost", "sent", "wait"},
             UNCHANGED <<list, tx, btcHanded, late, indexed, btcBlind, unseen>>,
             \/ btcPc[t] \in {"start", "sent", "wait"} /\ holder' = holder
             \/ btcPc[t] = "lost" /\ Bitcoin!Unlock(t),
             \/ r = "error" /\ (btcHanded[t] = "no" \/ btcBlind[t])
             \/ r = "sent" /\ btcHanded[t] # "no"
             \/ r = "confirmed" /\ btcHanded[t] = "done"
      PROVE  Goal
  <2>1. /\ Bitcoin!Promise!Tell(t, r) /\ r \in {"error", "sent", "confirmed", "failed"}
        /\ btcTold' \in [Payments -> {"nothing", "error", "sent", "confirmed", "failed"}]
        /\ btcTold'[t] # "nothing"
        /\ \A v \in Payments \ {t} : btcTold'[v] = btcTold[v]
        /\ btcPc' \in [Payments -> Steps]
        /\ btcPc'[t] = "done" /\ \A v \in Payments \ {t} : btcPc'[v] = btcPc[v]
    BY <1>T, BtcTell
  <2>2. /\ holder' \in [{Wallet[v] : v \in Payments} -> Payments \cup {NoTransfer}]
        /\ holder'[Wallet[t]] # t
        /\ \A v \in Payments \ {t} : holder'[Wallet[v]] = v <=> holder[Wallet[v]] = v
    <3>1. CASE btcPc[t] = "lost" /\ Bitcoin!Unlock(t)
      BY <3>1, BtcUnlock DEF Bitcoin!InMutex
    <3>2. CASE btcPc[t] \in {"start", "sent", "wait"} /\ holder' = holder
      BY <3>2, <1>0 DEF BtcCall, Bitcoin!InMutex
    <3> QED BY <1>T, <3>1, <3>2
  <2>3. BtcCall(t)'
    BY <1>T, <1>0, <2>1, <2>2 DEF BtcCall, Bitcoin!InMutex, Choosing
  <2>4. ASSUME NEW v \in Payments \ {t} PROVE BtcCall(v)'
    BY <1>T, <1>0, <2>1, <2>2, BtcStays
  <2>5. BtcCalls'
    BY <1>T, <1>0, <2>1, <2>2, <2>3, <2>4 DEF BtcCalls
  <2>6. BtcPool' /\ BtcKnew' /\ BtcReplaces
    BY <1>T, <2>1, BtcCallStep DEF Choosing
  <2> QED BY <2>1, <2>5, <2>6 DEF Goal, BtcInv, Bitcoin!Promise!Next
<1>M. ASSUME NEW t \in Payments, NEW from, NEW to, btcPc[t] = from,
             btcPc' = [btcPc EXCEPT ![t] = to],
             UNCHANGED <<list, tx, btcTold, btcHanded, late, indexed, btcBlind, unseen>>,
             \/ from = "start" /\ to = "lock" /\ holder' = holder
             \/ /\ from = "lock" /\ to = "list" /\ holder[Wallet[t]] = NoTransfer
                /\ holder' = [holder EXCEPT ![Wallet[t]] = t]
             \/ from = "verify" /\ to = "post" /\ holder' = holder
             \/ from = "sent" /\ to = "wait" /\ holder' = holder
      PROVE  Goal
  <2>1. /\ btcPc' \in [Payments -> Steps] /\ btcPc'[t] = to
        /\ \A v \in Payments \ {t} : btcPc'[v] = btcPc[v]
    BY <1>M, <1>0 DEF Bitcoin!InMutex
  <2>2. /\ holder' \in [{Wallet[v] : v \in Payments} -> Payments \cup {NoTransfer}]
        /\ \A v \in Payments \ {t} : holder'[Wallet[v]] = v <=> holder[Wallet[v]] = v
        /\ to \in Bitcoin!InMutex <=> holder'[Wallet[t]] = t
    BY <1>M, <1>0 DEF Bitcoin!WalletAssumption, Bitcoin!InMutex, BtcCall
  <2>3. BtcCall(t)'
    BY <1>M, <1>0, <2>1, <2>2 DEF BtcCall, Bitcoin!InMutex, Choosing
  <2>4. ASSUME NEW v \in Payments \ {t} PROVE BtcCall(v)'
    BY <1>M, <1>0, <2>1, <2>2, BtcStays
  <2>5. BtcCalls'
    BY <1>M, <1>0, <2>1, <2>2, <2>3, <2>4 DEF BtcCalls
  <2>6. btcPc'[t] \in Choosing => btcPc[t] \in Choosing /\ Chosen(t)' \subseteq Chosen(t)
    BY <1>M, <2>1 DEF Choosing, Chosen
  <2>7. BtcPool' /\ BtcKnew' /\ BtcReplaces
    BY <1>M, <2>1, <2>6, BtcCallStep
  <2> QED BY <1>M, <2>5, <2>7 DEF Goal, BtcInv, Bitcoin!Promise!paymentVars
<1>1. ASSUME NEW t \in Payments, Bitcoin!Start(t) PROVE Goal
  <2>1. /\ btcPc[t] = "start"
        /\ UNCHANGED <<holder, list, tx, btcHanded, late, indexed, btcBlind, unseen>>
        /\ \/ btcPc' = [btcPc EXCEPT ![t] = "lock"] /\ UNCHANGED btcTold
           \/ Bitcoin!Tell(t, "error")
    BY <1>1 DEF Bitcoin!Start, Bitcoin!GoTo, Bitcoin!netVars
  <2>2. btcHanded[t] = "no"
    BY <2>1, <1>0 DEF BtcCall
  <2> QED BY <2>1, <2>2, <1>T, <1>M
<1>2. ASSUME NEW t \in Payments, Bitcoin!Lock(t) PROVE Goal
  BY <1>2, <1>M DEF Bitcoin!Lock, Bitcoin!GoTo, Bitcoin!netVars
<1>3. ASSUME NEW t \in Payments, Bitcoin!ListUnspent(t) PROVE Goal
  <2>1. CASE Bitcoin!Fail(t, "list")
    BY <2>1, BtcFail DEF Goal
  <2>2. CASE ~ Bitcoin!Fail(t, "list")
    <3>1. PICK utxos \in Bitcoin!Readings(t) :
            utxos # {} /\ list' = [list EXCEPT ![t] = utxos]
      BY <1>3, <2>2 DEF Bitcoin!ListUnspent
    <3>2. /\ btcPc[t] = "list" /\ btcPc' = [btcPc EXCEPT ![t] = "author"]
          /\ unseen' = [unseen EXCEPT ![t] = Bitcoin!InPool \ indexed]
          /\ UNCHANGED <<holder, tx, btcTold, btcHanded, late, indexed, btcBlind>>
      BY <1>3, <2>2 DEF Bitcoin!ListUnspent, Bitcoin!GoTo, Bitcoin!netVars, Bitcoin!InPool
    <3>3. /\ btcPc' \in [Payments -> Steps] /\ btcPc'[t] = "author"
          /\ list'[t] = utxos /\ list' = [v \in Payments |-> list'[v]]
          /\ unseen'[t] = Bitcoin!InPool \ indexed /\ unseen' = [v \in Payments |-> unseen'[v]]
          /\ \A v \in Payments \ {t} : /\ btcPc'[v] = btcPc[v] /\ list'[v] = list[v]
                                       /\ unseen'[v] = unseen[v]
      BY <3>1, <3>2, <1>0 DEF Bitcoin!InMutex
    <3>4. BtcCall(t)'
      BY <3>1, <3>2, <3>3, <1>0 DEF BtcCall, Bitcoin!InMutex, Choosing
    <3>5. ASSUME NEW v \in Payments \ {t} PROVE BtcCall(v)'
      BY <3>2, <3>3, <1>0, BtcStays
    <3>6. BtcCalls'
      BY <3>2, <3>3, <3>4, <3>5, <1>0 DEF BtcCalls
    <3>7. BtcPool'
      BY <3>2, <1>0, BtcPoolKept
    <3>8. {x.coin : x \in utxos} \subseteq Bitcoin!Unspent(t)
      BY <3>1 DEF Bitcoin!Readings
    <3>9. ASSUME NEW u \in Payments, btcPc'[u] \in Choosing
          PROVE  \E K \in SUBSET Payments : Knew(u, K)'
      <4>1. CASE u = t
        <5>1. Chosen(t)' = {x.coin : x \in utxos}
          BY <3>3 DEF Chosen
        <5>2. \A v \in indexed : Chosen(t)' \cap tx[v].in = {}
          BY <3>8, <5>1 DEF Bitcoin!Unspent, Bitcoin!Spent
        <5>3. Bitcoin!InPool' = Bitcoin!InPool
          BY <3>2 DEF Bitcoin!InPool
        <5>4. Knew(t, indexed)'
          BY <3>2, <3>3, <5>2, <5>3, <1>0 DEF Knew, BtcPool
        <5>5. indexed' = indexed /\ indexed \in SUBSET Payments
          BY <3>2, <1>0 DEF BtcPool
        <5> QED BY <4>1, <5>4, <5>5 DEF Knew
      <4>2. CASE u # t
        <5>1. btcPc[u] \in Choosing /\ unseen'[u] = unseen[u] /\ Chosen(u)' \subseteq Chosen(u)
          BY <4>2, <3>2, <3>3, <3>9 DEF Chosen
        <5>2. PICK K \in SUBSET Payments : Knew(u, K)
          BY <5>1, <1>0 DEF BtcKnew
        <5>3. Knew(u, K)'
          BY <5>1, <5>2, <3>2, <1>0, BtcKnewKept
        <5> QED BY <5>3
      <4> QED BY <4>1, <4>2
    <3>10. BtcKnew'
      BY <3>9 DEF BtcKnew
    <3>11. BtcReplaces
      BY <3>2 DEF BtcReplaces
    <3> QED BY <3>2, <3>6, <3>7, <3>10, <3>11 DEF Goal, BtcInv, Bitcoin!Promise!paymentVars
  <2> QED BY <2>1, <2>2
<1>4. ASSUME NEW t \in Payments, Bitcoin!Author(t) \/ Bitcoin!AuthorSweep(t) PROVE Goal
  <2>1. PICK s, r, pays, change, size :
          s \subseteq list[t] /\ s # {} /\ Bitcoin!Made(t, r, s, pays, change, size)
    <3>1. CASE Bitcoin!Author(t)
      BY <3>1 DEF Bitcoin!Author
    <3>2. CASE Bitcoin!AuthorSweep(t)
      <4>1. PICK r, paid, size :
               Bitcoin!Made(t, r, list[t], Bitcoin!Total(list[t]) - r * paid, 0, size)
        BY <3>2 DEF Bitcoin!AuthorSweep
      <4>2. list[t] # {}
        BY <4>1, <1>0 DEF Bitcoin!Made, BtcCall
      <4> QED BY <4>1, <4>2
    <3> QED BY <1>4, <3>1, <3>2
  <2>2. /\ btcPc[t] = "author"
        /\ btcPc' = [btcPc EXCEPT ![t] = IF t \in Verifying THEN "verify" ELSE "post"]
        /\ UNCHANGED <<holder, list, btcTold, btcHanded, late, indexed, btcBlind, unseen>>
    BY <2>1 DEF Bitcoin!Made, Bitcoin!GoTo, Bitcoin!netVars
  <2>3. /\ tx' = [v \in Payments |-> tx'[v]]
        /\ tx'[t].in = {x.coin : x \in s}
        /\ \A v \in Payments \ {t} : tx'[v] = tx[v]
    BY <2>1, <1>0 DEF Bitcoin!Made
  <2>4. /\ btcPc' \in [Payments -> Steps] /\ btcPc'[t] \in {"verify", "post"}
        /\ \A v \in Payments \ {t} : btcPc'[v] = btcPc[v]
    BY <2>2, <1>0 DEF Bitcoin!InMutex
  <2>5. tx'[t].in # {} /\ tx'[t].in \subseteq {x.coin : x \in list[t]}
    BY <2>1, <2>3
  <2>6. BtcCall(t)'
    BY <2>2, <2>4, <2>5, <1>0 DEF BtcCall, Bitcoin!InMutex, Choosing
  <2>7. ASSUME NEW v \in Payments \ {t} PROVE BtcCall(v)'
    BY <2>2, <2>3, <2>4, <1>0, BtcStays
  <2>8. BtcCalls'
    BY <2>2, <2>3, <2>4, <2>6, <2>7, <1>0 DEF BtcCalls
  <2>9. /\ btcPc[t] \in Choosing /\ Chosen(t)' \subseteq Chosen(t) /\ btcHanded[t] = "no"
    BY <2>2, <2>4, <2>5, <1>0 DEF Choosing, Chosen, BtcCall
  <2>10. BtcPool' /\ BtcKnew' /\ BtcReplaces
    BY <2>2, <2>3, <2>4, <2>9, BtcCallStep
  <2> QED BY <2>2, <2>8, <2>10 DEF Goal, BtcInv, Bitcoin!Promise!paymentVars
<1>5. ASSUME NEW t \in Payments, Bitcoin!AuthorFails(t) \/ Bitcoin!PostRefused(t) PROVE Goal
  BY <1>5, BtcFail DEF Goal, Bitcoin!AuthorFails, Bitcoin!PostRefused
<1>6. ASSUME NEW t \in Payments, Bitcoin!Verify(t) PROVE Goal
  <2>1. CASE Bitcoin!Fail(t, "verify")
    BY <2>1, BtcFail DEF Goal
  <2>2. CASE ~ Bitcoin!Fail(t, "verify")
    BY <1>6, <2>2, <1>M DEF Bitcoin!Verify, Bitcoin!GoTo, Bitcoin!netVars
  <2> QED BY <2>1, <2>2
<1>P. ASSUME NEW t \in Payments, NEW to \in {"sent", "lost"}, Bitcoin!AfterPost(t, to)
      PROVE  /\ btcPc[t] = "post" /\ btcPc'[t] = to /\ btcPc' \in [Payments -> Steps]
             /\ list' = [v \in Payments |-> list'[v]] /\ unseen' = [v \in Payments |-> unseen'[v]]
             /\ \A v \in Payments \ {t} : /\ btcPc'[v] = btcPc[v] /\ list'[v] = list[v]
                                          /\ unseen'[v] = unseen[v]
             /\ tx' = tx /\ btcTold' = btcTold
             /\ btcHanded[t] = "no" /\ tx[t].in # {} /\ btcTold[t] = "nothing" /\ t \notin late
             /\ btcPc'[t] \notin Choosing
  BY <1>P, <1>0 DEF Bitcoin!AfterPost, Bitcoin!GoTo, BtcCall, Choosing, Bitcoin!InMutex
<1>7. ASSUME NEW t \in Payments, Bitcoin!PostAccepted(t) PROVE Goal
  <2>1. /\ btcPc[t] = "post" /\ btcPc'[t] = "sent" /\ btcPc' \in [Payments -> Steps]
        /\ list' = [v \in Payments |-> list'[v]] /\ unseen' = [v \in Payments |-> unseen'[v]]
        /\ \A v \in Payments \ {t} : /\ btcPc'[v] = btcPc[v] /\ list'[v] = list[v]
                                     /\ unseen'[v] = unseen[v]
        /\ tx' = tx /\ btcTold' = btcTold
        /\ btcHanded[t] = "no" /\ tx[t].in # {} /\ btcTold[t] = "nothing" /\ t \notin late
        /\ btcPc'[t] \notin Choosing
    BY <1>7, <1>P DEF Bitcoin!PostAccepted
  <2>2. Bitcoin!Unlock(t) /\ Bitcoin!NodeTakes(t) /\ late' = late /\ btcBlind' = btcBlind
    BY <1>7 DEF Bitcoin!PostAccepted
  <2>3. /\ BtcPool' /\ BtcKnew' /\ BtcReplaces /\ Bitcoin!Promise!Network
        /\ \A v \in Payments \ {t} : btcHanded'[v] = "no" <=> btcHanded[v] = "no"
        /\ btcHanded'[t] = "taken"
    BY <2>1, <2>2, <1>0, BtcTakes
  <2>4. /\ holder' \in [{Wallet[v] : v \in Payments} -> Payments \cup {NoTransfer}]
        /\ holder'[Wallet[t]] # t
        /\ \A v \in Payments \ {t} : holder'[Wallet[v]] = v <=> holder[Wallet[v]] = v
    BY <2>1, <2>2, BtcUnlock DEF Bitcoin!InMutex
  <2>5. BtcCall(t)'
    BY <2>1, <2>2, <2>3, <2>4 DEF BtcCall, Bitcoin!InMutex, Choosing
  <2>6. ASSUME NEW v \in Payments \ {t} PROVE BtcCall(v)'
    BY <2>1, <2>2, <2>3, <2>4, <1>0, BtcStays
  <2>7. BtcCalls'
    BY <2>1, <2>2, <2>4, <2>5, <2>6, <1>0 DEF BtcCalls
  <2> QED BY <2>3, <2>7 DEF Goal, BtcInv, Bitcoin!Promise!Next
<1>8. ASSUME NEW t \in Payments, Bitcoin!PostLost(t) PROVE Goal
  <2>1. /\ btcPc[t] = "post" /\ btcPc'[t] = "lost" /\ btcPc' \in [Payments -> Steps]
        /\ list' = [v \in Payments |-> list'[v]] /\ unseen' = [v \in Payments |-> unseen'[v]]
        /\ \A v \in Payments \ {t} : /\ btcPc'[v] = btcPc[v] /\ list'[v] = list[v]
                                     /\ unseen'[v] = unseen[v]
        /\ tx' = tx /\ btcTold' = btcTold
        /\ btcHanded[t] = "no" /\ tx[t].in # {} /\ btcTold[t] = "nothing" /\ t \notin late
        /\ btcPc'[t] \notin Choosing
    BY <1>8, <1>P DEF Bitcoin!PostLost
  <2>2. /\ holder' = holder
        /\ btcBlind' \in [Payments -> BOOLEAN] /\ btcBlind'[t]
        /\ \A v \in Payments \ {t} : btcBlind'[v] = btcBlind[v]
    BY <1>8, <1>0 DEF Bitcoin!PostLost
  <2>3. CASE Bitcoin!NodeTakes(t) /\ late' = late
    <3>1. /\ BtcPool' /\ BtcKnew' /\ BtcReplaces /\ Bitcoin!Promise!Network
          /\ \A v \in Payments \ {t} : btcHanded'[v] = "no" <=> btcHanded[v] = "no"
          /\ btcHanded'[t] = "taken"
      BY <2>1, <2>2, <2>3, <1>0, BtcTakes
    <3>2. BtcCall(t)'
      BY <2>1, <2>2, <2>3, <3>1, <1>0 DEF BtcCall, Bitcoin!InMutex, Choosing
    <3>3. ASSUME NEW v \in Payments \ {t} PROVE BtcCall(v)'
      BY <2>1, <2>2, <2>3, <3>1, <1>0, BtcStays
    <3>4. BtcCalls'
      BY <2>1, <2>2, <2>3, <3>2, <3>3, <1>0 DEF BtcCalls
    <3> QED BY <3>1, <3>4 DEF Goal, BtcInv, Bitcoin!Promise!Next
  <2>4. CASE late' = late \cup {t} /\ UNCHANGED <<btcHanded, indexed>>
    <3>1. BtcCall(t)'
      BY <2>1, <2>2, <2>4, <1>0 DEF BtcCall, Bitcoin!InMutex, Choosing
    <3>2. ASSUME NEW v \in Payments \ {t} PROVE BtcCall(v)'
      BY <2>1, <2>2, <2>4, <1>0, BtcStays
    <3>3. BtcCalls'
      BY <2>1, <2>2, <2>4, <3>1, <3>2, <1>0 DEF BtcCalls
    <3>4. BtcPool'
      BY <2>1, <2>4, <1>0, BtcPoolKept
    <3>5. ASSUME NEW u \in Payments, btcPc'[u] \in Choosing
          PROVE  \E K \in SUBSET Payments : Knew(u, K)'
      <4>1. u # t /\ btcPc[u] \in Choosing /\ unseen'[u] = unseen[u]
            /\ Chosen(u)' \subseteq Chosen(u)
        BY <2>1, <3>5 DEF Chosen
      <4>2. PICK K \in SUBSET Payments : Knew(u, K)
        BY <4>1, <1>0 DEF BtcKnew
      <4>3. \A v \in Payments : btcBlind'[v] \/ ~ btcBlind[v]
        BY <2>2
      <4>4. Knew(u, K)'
        BY <2>1, <2>4, <4>1, <4>2, <4>3, <1>0, BtcKnewKept
      <4> QED BY <4>4
    <3>6. BtcKnew'
      BY <3>5 DEF BtcKnew
    <3>7. BtcReplaces
      BY <2>4 DEF BtcReplaces
    <3>8. Bitcoin!Promise!Network
      <4>1. \A v \in Payments : Bitcoin!Promise!MayBecome(v, btcHanded'[v])
        BY <2>4 DEF Bitcoin!Promise!MayBecome
      <4>2. \A v \in Payments : btcBlind[v] => btcBlind'[v]
        BY <2>2
      <4>3. \A v \in Payments : btcTold[v] # "nothing" => btcBlind'[v] = btcBlind[v]
        BY <2>1, <2>2
      <4>4. UNCHANGED btcTold /\ btcHanded' \in [Payments -> Bitcoin!Promise!Fates]
        BY <2>1, <2>4, <1>0 DEF BtcPool
      <4> QED BY <2>2, <4>1, <4>2, <4>3, <4>4, Zenon DEF Bitcoin!Promise!Network
    <3> QED BY <3>3, <3>4, <3>6, <3>7, <3>8 DEF Goal, BtcInv, Bitcoin!Promise!Next
  <2> QED BY <1>8, <2>3, <2>4 DEF Bitcoin!PostLost
<1>9. ASSUME NEW t \in Payments, Bitcoin!TellLost(t) PROVE Goal
  <2>1. /\ btcPc[t] = "lost" /\ Bitcoin!Tell(t, "error") /\ Bitcoin!Unlock(t)
        /\ UNCHANGED <<list, tx, btcHanded, late, indexed, btcBlind, unseen>>
    BY <1>9 DEF Bitcoin!TellLost, Bitcoin!netVars
  <2>2. btcBlind[t]
    BY <2>1, <1>0 DEF BtcCall
  <2> QED BY <2>1, <2>2, <1>T
<1>10. ASSUME NEW t \in Payments, Bitcoin!Sent(t) PROVE Goal
  <2>1. /\ btcPc[t] = "sent"
        /\ \/ btcPc' = [btcPc EXCEPT ![t] = "wait"] /\ UNCHANGED btcTold
           \/ Bitcoin!Tell(t, "sent")
        /\ UNCHANGED <<holder, list, tx, btcHanded, late, indexed, btcBlind, unseen>>
    BY <1>10 DEF Bitcoin!Sent, Bitcoin!GoTo, Bitcoin!netVars
  <2>2. btcHanded[t] # "no"
    BY <2>1, <1>0 DEF BtcCall
  <2> QED BY <2>1, <2>2, <1>T, <1>M
<1>11. ASSUME NEW t \in Payments, Bitcoin!Wait(t) PROVE Goal
  <2>1. /\ btcPc[t] = "wait"
        /\ Bitcoin!Tell(t, "sent") \/ (btcHanded[t] = "done" /\ Bitcoin!Tell(t, "confirmed"))
        /\ UNCHANGED <<holder, list, tx, btcHanded, late, indexed, btcBlind, unseen>>
    BY <1>11 DEF Bitcoin!Wait, Bitcoin!netVars
  <2>2. btcHanded[t] # "no"
    BY <2>1, <1>0 DEF BtcCall
  <2> QED BY <2>1, <2>2, <1>T
<1>12. ASSUME NEW t \in Payments, Bitcoin!LateArrives(t) PROVE Goal
  <2>1. /\ t \in late /\ late' = late \ {t} /\ Bitcoin!NodeTakes(t)
        /\ UNCHANGED <<btcPc, holder, list, tx, btcTold, btcBlind, unseen>>
    BY <1>12 DEF Bitcoin!LateArrives, Bitcoin!callVars
  <2>2. btcHanded[t] = "no" /\ btcBlind[t] /\ tx[t].in # {}
        /\ btcPc[t] \notin {"start", "lock", "list"} \cup Choosing
    BY <2>1, <1>0 DEF BtcCall
  <2>3. /\ BtcPool' /\ BtcKnew' /\ BtcReplaces /\ Bitcoin!Promise!Network
        /\ \A v \in Payments \ {t} : btcHanded'[v] = "no" <=> btcHanded[v] = "no"
        /\ btcHanded'[t] = "taken"
    BY <2>1, <2>2, <1>0, BtcTakes
  <2>4. BtcCall(t)'
    BY <2>1, <2>2, <2>3, <1>0 DEF BtcCall, Choosing
  <2>5. ASSUME NEW v \in Payments \ {t} PROVE BtcCall(v)'
    BY <2>1, <2>3, <1>0, BtcStays
  <2>6. BtcCalls'
    BY <2>1, <2>4, <2>5, <1>0 DEF BtcCalls
  <2> QED BY <2>3, <2>6 DEF Goal, BtcInv, Bitcoin!Promise!Next
<1>N. ASSUME BtcPool', UNCHANGED <<btcPc, holder, list, tx, btcTold, late, btcBlind, unseen>>,
             \A v \in Payments : \/ btcHanded'[v] = btcHanded[v]
                                 \/ btcHanded[v] = "taken" /\ btcHanded'[v] \in {"done", "dropped"}
      PROVE  Goal
  <2>1. ASSUME NEW v \in Payments PROVE BtcCall(v)'
    BY <1>N, <1>0, BtcStays
  <2>2. BtcCalls'
    BY <1>N, <2>1, <1>0 DEF BtcCalls
  <2>3. ASSUME NEW u \in Payments, btcPc'[u] \in Choosing
        PROVE  \E K \in SUBSET Payments : Knew(u, K)'
    <3>1. btcPc[u] \in Choosing /\ unseen'[u] = unseen[u] /\ Chosen(u)' \subseteq Chosen(u)
      BY <1>N, <2>3 DEF Chosen
    <3>2. PICK K \in SUBSET Payments : Knew(u, K)
      BY <3>1, <1>0 DEF BtcKnew
    <3>3. \A v \in Payments : btcHanded[v] # "no" => btcHanded'[v] # "no" /\ tx'[v] = tx[v]
      BY <1>N
    <3>4. \A v \in Payments : btcHanded'[v] = "taken" =>
            btcHanded[v] = "taken" /\ (btcBlind'[v] \/ ~ btcBlind[v])
      BY <1>N
    <3>5. Knew(u, K)'
      BY <3>1, <3>2, <3>3, <3>4, <1>0, BtcKnewKept
    <3> QED BY <3>5
  <2>4. BtcKnew'
    BY <2>3 DEF BtcKnew
  <2>5. BtcReplaces
    BY <1>N DEF BtcReplaces
  <2>6. Bitcoin!Promise!Network
    <3>1. \A v \in Payments : Bitcoin!Promise!MayBecome(v, btcHanded'[v])
      BY <1>N DEF Bitcoin!Promise!MayBecome
    <3>2. btcHanded' \in [Payments -> Bitcoin!Promise!Fates]
          /\ btcBlind' \in [Payments -> BOOLEAN]
      BY <1>N, <1>0 DEF BtcPool
    <3> QED BY <1>N, <3>1, <3>2 DEF Bitcoin!Promise!Network
  <2> QED BY <1>N, <2>2, <2>4, <2>5, <2>6 DEF Goal, BtcInv, Bitcoin!Promise!Next
<1>13. ASSUME NEW t \in Payments, Bitcoin!Confirm(t) PROVE Goal
  <2>1. /\ btcHanded[t] = "taken" /\ tx[t].in \subseteq Bitcoin!Coins \cup Bitcoin!Chain
        /\ btcHanded' = [btcHanded EXCEPT ![t] = "done"] /\ indexed' = indexed
        /\ UNCHANGED <<btcPc, holder, list, tx, btcTold, late, btcBlind, unseen>>
    BY <1>13 DEF Bitcoin!Confirm, Bitcoin!callVars, Bitcoin!InPool
  <2>2. /\ btcHanded' \in [Payments -> Bitcoin!Promise!Fates]
        /\ Bitcoin!InPool' = Bitcoin!InPool \ {t}
        /\ Bitcoin!Chain' = Bitcoin!Chain \cup {t}
        /\ t \in Bitcoin!InPool
        /\ \A v \in Payments : btcHanded'[v] = "no" <=> btcHanded[v] = "no"
    BY <2>1, <1>0 DEF BtcPool, Bitcoin!Promise!Fates, Bitcoin!InPool, Bitcoin!Chain
  <2>3. BtcPool'
    <3>1. Bitcoin!InPool' \cup Bitcoin!Chain' = Bitcoin!InPool \cup Bitcoin!Chain
      BY <2>2
    <3>2. \A v, w \in Bitcoin!InPool' \cup Bitcoin!Chain' : v # w => tx[v].in \cap tx[w].in = {}
      BY <3>1, <1>0 DEF BtcPool
    <3>3. \A v \in Bitcoin!InPool' :
            tx[v].in \subseteq Bitcoin!Coins \cup Bitcoin!Chain' \cup Bitcoin!InPool'
      BY <2>2, <3>1, <1>0 DEF BtcPool
    <3>4. \A v \in indexed \cap Bitcoin!InPool' : tx[v].in \subseteq Bitcoin!Coins \cup indexed
      BY <2>2, <1>0 DEF BtcPool
    <3>5. /\ \A v \in Payments : btcHanded'[v] # "no" => tx[v].in # {}
          /\ \A v \in indexed : btcHanded'[v] # "no" /\ v \in Payments
      BY <2>2, <1>0 DEF BtcPool
    <3> QED BY <2>1, <2>2, <3>2, <3>3, <3>4, <3>5 DEF BtcPool, Bitcoin!Coins
  <2>4. \A v \in Payments : \/ btcHanded'[v] = btcHanded[v]
                            \/ btcHanded[v] = "taken" /\ btcHanded'[v] \in {"done", "dropped"}
    BY <2>1, <1>0 DEF BtcPool
  <2> QED BY <2>1, <2>3, <2>4, <1>N
<1>14. ASSUME NEW t \in Payments, Bitcoin!Evict(t) PROVE Goal
  <2> DEFINE D == Bitcoin!Descendants({t})
  <2>1. /\ t \in Bitcoin!InPool /\ indexed' = indexed
        /\ btcHanded' = [u \in Payments |-> IF u \in D THEN "dropped" ELSE btcHanded[u]]
        /\ UNCHANGED <<btcPc, holder, list, tx, btcTold, late, btcBlind, unseen>>
    BY <1>14 DEF Bitcoin!Evict, Bitcoin!callVars
  <2>2. /\ D \subseteq Bitcoin!InPool
        /\ \A v \in Bitcoin!InPool : tx[v].in \cap D # {} => v \in D
    BY <2>1, <1>0, BtcDescendants
  <2> HIDE DEF D
  <2>3. /\ btcHanded' \in [Payments -> Bitcoin!Promise!Fates]
        /\ Bitcoin!InPool' = Bitcoin!InPool \ D
        /\ Bitcoin!Chain' = Bitcoin!Chain
        /\ \A v \in Payments : btcHanded'[v] = "no" <=> btcHanded[v] = "no"
        /\ \A v \in Payments : \/ btcHanded'[v] = btcHanded[v]
                               \/ btcHanded[v] = "taken" /\ btcHanded'[v] = "dropped"
    BY <2>1, <2>2, <1>0 DEF BtcPool, Bitcoin!Promise!Fates, Bitcoin!InPool, Bitcoin!Chain
  <2>4. BtcPool'
    BY <2>1, <2>2, <2>3, <1>0 DEF BtcPool, Bitcoin!Coins
  <2> QED BY <2>1, <2>3, <2>4, <1>N
<1>15. ASSUME NEW t \in Payments, Bitcoin!Index(t) PROVE Goal
  <2>1. /\ UNCHANGED <<btcPc, holder, list, tx, btcTold, btcHanded, late, btcBlind, unseen>>
        /\ \/ /\ t \in Bitcoin!InPool \cup Bitcoin!Chain
              /\ tx[t].in \subseteq Bitcoin!Coins \cup indexed /\ indexed' = indexed \cup {t}
           \/ btcHanded[t] = "dropped" /\ indexed' = indexed \ {t}
    BY <1>15 DEF Bitcoin!Index, Bitcoin!callVars
  <2>2. Bitcoin!InPool' = Bitcoin!InPool /\ Bitcoin!Chain' = Bitcoin!Chain
    BY <2>1 DEF Bitcoin!InPool, Bitcoin!Chain
  <2>3. \A v \in indexed' \cap Bitcoin!InPool : tx[v].in \subseteq Bitcoin!Coins \cup indexed'
    <3>1. CASE btcHanded[t] = "dropped" /\ indexed' = indexed \ {t}
      <4>1. t \notin Bitcoin!Coins
        BY DEF Bitcoin!WalletAssumption
      <4>2. t \notin Bitcoin!Chain \cup Bitcoin!InPool
        BY <3>1 DEF Bitcoin!Chain, Bitcoin!InPool
      <4>3. \A v \in Bitcoin!InPool : t \notin tx[v].in
        BY <4>1, <4>2, <1>0 DEF BtcPool
      <4>4. \A v \in indexed \cap Bitcoin!InPool : tx[v].in \subseteq Bitcoin!Coins \cup indexed
        BY <1>0 DEF BtcPool
      <4> QED BY <3>1, <4>3, <4>4
    <3>2. CASE tx[t].in \subseteq Bitcoin!Coins \cup indexed /\ indexed' = indexed \cup {t}
      BY <3>2, <1>0 DEF BtcPool
    <3> QED BY <2>1, <3>1, <3>2
  <2>4. \A v \in indexed' : v \in Payments /\ btcHanded[v] # "no"
    BY <2>1, <1>0 DEF BtcPool, Bitcoin!InPool, Bitcoin!Chain
  <2>5. BtcPool'
    BY <2>1, <2>2, <2>3, <2>4, <1>0 DEF BtcPool, Bitcoin!Coins
  <2> QED BY <2>1, <2>5, <1>N
<1>16. CASE UNCHANGED btcVars
  <2>1. UNCHANGED <<btcPc, holder, list, tx, btcTold, btcHanded, late, indexed, btcBlind, unseen>>
    BY <1>16 DEF btcVars
  <2>2. BtcPool'
    BY <2>1, <1>0, BtcPoolKept
  <2> QED BY <2>1, <2>2, <1>N DEF Goal
<1>17. CASE Bitcoin!Next
  <2>1. PICK t \in Payments :
          \/ Bitcoin!Start(t) \/ Bitcoin!Lock(t) \/ Bitcoin!ListUnspent(t)
          \/ Bitcoin!Author(t) \/ Bitcoin!AuthorSweep(t) \/ Bitcoin!AuthorFails(t)
          \/ Bitcoin!Verify(t) \/ Bitcoin!PostRefused(t) \/ Bitcoin!PostAccepted(t)
          \/ Bitcoin!PostLost(t) \/ Bitcoin!TellLost(t) \/ Bitcoin!Sent(t) \/ Bitcoin!Wait(t)
          \/ Bitcoin!LateArrives(t) \/ Bitcoin!Confirm(t) \/ Bitcoin!Evict(t) \/ Bitcoin!Index(t)
    BY <1>17 DEF Bitcoin!Next
  <2>2. Goal
    BY <2>1, <1>1, <1>2, <1>3, <1>4, <1>5, <1>6, <1>7, <1>8, <1>9, <1>10, <1>11, <1>12,
       <1>13, <1>14, <1>15
  <2> QED BY <2>2 DEF Goal
<1> QED BY <1>16, <1>17

-------------------------------------------------------------------------------
(*****************************************************************************)
(* The transfers of bitcoin: sums over coins, and what is chosen by them.    *)
(*****************************************************************************)
(* A set that has a natural as soon as it has all below it has them all.     *)
LEMMA AllNaturals ==
  ASSUME NEW F, \A n \in Nat : (\A m \in Nat : m < n => m \in F) => n \in F
  PROVE  Nat \subseteq F
<1>1. SUFFICES ASSUME Nat \ F # {} PROVE FALSE
  OBVIOUS
<1>2. PICK n \in Nat \ F : \A k \in Nat \ F : n <= k
  BY <1>1, LeastNatural
<1>3. \A m \in Nat : m < n => m \in F
  BY <1>2
<1> QED BY <1>2, <1>3

(* A set that has a subset of T as soon as it has all that are smaller has   *)
(* them all.                                                                 *)
LEMMA AllSubsets ==
  ASSUME NEW T, IsFiniteSet(T), NEW F,
         \A s \in SUBSET T : (\A r \in SUBSET s : r # s => r \in F) => s \in F
  PROVE  SUBSET T \subseteq F
<1> DEFINE G == {n \in Nat : \A s \in SUBSET T : Cardinality(s) = n => s \in F}
<1>1. \A s \in SUBSET T : Cardinality(s) \in Nat /\ IsFiniteSet(s)
  BY FS_Subset, FS_CardinalityType
<1>2. ASSUME NEW n \in Nat, \A m \in Nat : m < n => m \in G PROVE n \in G
  <2>1. ASSUME NEW s \in SUBSET T, Cardinality(s) = n PROVE s \in F
    <3>1. ASSUME NEW r \in SUBSET s, r # s PROVE r \in F
      <4>1. Cardinality(r) <= n /\ Cardinality(r) # n
        BY <1>1, <2>1, <3>1, FS_Subset
      <4>2. Cardinality(r) \in Nat
        BY <1>1
      <4> QED BY <4>1, <4>2, <1>2
    <3> QED BY <3>1
  <2> QED BY <2>1
<1> HIDE DEF G
<1>3. Nat \subseteq G
  BY <1>2, AllNaturals
<1> QED BY <1>1, <1>3 DEF G

(* it adds up w over the subsets of T: as MapThenFoldSet does, and so that   *)
(* any element may come first.                                               *)
First(s) == CHOOSE x \in s : TRUE
AddsUp(it, w, T) ==
  it = [s \in SUBSET T |-> IF s = {} THEN 0 ELSE w[First(s)] + it[s \ {First(s)}]]
Sums(it, w, T) ==
  /\ it \in [SUBSET T -> Int] /\ it[{}] = 0
  /\ \A s \in SUBSET T : \A x \in s : it[s] = w[x] + it[s \ {x}]
Sum(w, T) == (CHOOSE it : AddsUp(it, w, T))[T]

(* What adds up also adds up with any element first.                         *)
LEMMA AnyFirst ==
  ASSUME NEW T, IsFiniteSet(T), NEW w \in [T -> Int], NEW it, AddsUp(it, w, T)
  PROVE  Sums(it, w, T)
<1> DEFINE F == {s \in SUBSET T : it[s] \in Int}
           G == {s \in SUBSET T : \A x \in s : it[s] = w[x] + it[s \ {x}]}
<1>1. it[{}] = 0 /\ DOMAIN it = SUBSET T
  BY DEF AddsUp
<1>2. ASSUME NEW s \in SUBSET T, s # {}
      PROVE  First(s) \in s /\ it[s] = w[First(s)] + it[s \ {First(s)}]
  BY <1>2 DEF AddsUp, First
<1>3. ASSUME NEW s \in SUBSET T, \A r \in SUBSET s : r # s => r \in F PROVE s \in F
  <2>1. CASE s = {}
    BY <2>1, <1>1
  <2>2. CASE s # {}
    <3>1. First(s) \in s /\ it[s] = w[First(s)] + it[s \ {First(s)}]
      BY <1>2, <2>2
    <3>2. s \ {First(s)} \in F
      BY <3>1, <1>3
    <3> QED BY <3>1, <3>2
  <2> QED BY <2>1, <2>2
<1>4. SUBSET T \subseteq F
  <2> HIDE DEF F
  <2> QED BY <1>3, AllSubsets
<1>5. \A s \in SUBSET T : it[s] \in Int
  BY <1>4
<1>6. ASSUME NEW s \in SUBSET T, \A r \in SUBSET s : r # s => r \in G PROVE s \in G
  <2> SUFFICES ASSUME NEW x \in s PROVE it[s] = w[x] + it[s \ {x}]
    OBVIOUS
  <2> DEFINE y == First(s)
  <2>1. y \in s /\ it[s] = w[y] + it[s \ {y}]
    BY <1>2
  <2> HIDE DEF y
  <2>2. CASE x = y
    BY <2>1, <2>2
  <2>3. CASE x # y
    <3>1. s \ {x} \in G /\ s \ {y} \in G
      BY <2>1, <1>6
    <3> DEFINE rest == s \ {x, y}
    <3>2. (s \ {x}) \ {y} = rest /\ (s \ {y}) \ {x} = rest
      OBVIOUS
    <3>3. it[s \ {x}] = w[y] + it[rest] /\ it[s \ {y}] = w[x] + it[rest]
      BY <3>1, <3>2, <2>1, <2>3
    <3>4. w[x] \in Int /\ w[y] \in Int /\ it[rest] \in Int
      BY <2>1, <1>5
    <3> HIDE DEF rest
    <3> QED BY <2>1, <3>3, <3>4
  <2> QED BY <2>2, <2>3
<1>7. SUBSET T \subseteq G
  <2> HIDE DEF G
  <2> QED BY <1>6, AllSubsets
<1>8. it \in [SUBSET T -> Int]
  BY <1>5 DEF AddsUp
<1> QED BY <1>1, <1>7, <1>8 DEF Sums

(* There is such a function.                                                 *)
LEMMA SumExists ==
  ASSUME NEW T, IsFiniteSet(T), NEW w \in [T -> Int]
  PROVE  \E it : AddsUp(it, w, T)
<1> DEFINE Body(f, s) == IF s = {} THEN 0 ELSE w[First(s)] + f[s \ {First(s)}]
           Upto(f, n) == /\ f \in [SUBSET T -> Int]
                         /\ \A s \in SUBSET T : Cardinality(s) <= n => f[s] = Body(f, s)
           G == {n \in Nat : \E f : Upto(f, n)}
<1>1. \A s \in SUBSET T : Cardinality(s) \in Nat /\ IsFiniteSet(s)
  BY FS_Subset, FS_CardinalityType
<1>2. ASSUME NEW n \in Nat, \A m \in Nat : m < n => m \in G PROVE n \in G
  <2>1. PICK f : f \in [SUBSET T -> Int] /\ \A s \in SUBSET T : Cardinality(s) < n => f[s] = Body(f, s)
    <3>1. CASE n = 0
      <4>1. \A s \in SUBSET T : ~ (Cardinality(s) < n)
        BY <1>1, <3>1
      <4>2. [s \in SUBSET T |-> 0] \in [SUBSET T -> Int]
        OBVIOUS
      <4> QED BY <4>1, <4>2
    <3>2. CASE n # 0
      <4>1. n - 1 \in Nat /\ n - 1 < n
        BY <3>2
      <4>2. PICK f : Upto(f, n - 1)
        BY <4>1, <1>2
      <4>3. \A s \in SUBSET T : Cardinality(s) < n => Cardinality(s) <= n - 1
        BY <1>1
      <4> QED BY <4>2, <4>3
    <3> QED BY <3>1, <3>2
  <2> DEFINE g == [s \in SUBSET T |-> Body(f, s)]
  <2>2. ASSUME NEW s \in SUBSET T, s # {}
        PROVE  /\ First(s) \in s /\ s \ {First(s)} \in SUBSET T
               /\ Cardinality(s \ {First(s)}) = Cardinality(s) - 1
    BY <2>2, <1>1, FS_RemoveElement DEF First
  <2>3. g \in [SUBSET T -> Int]
    <3>1. ASSUME NEW s \in SUBSET T PROVE Body(f, s) \in Int
      <4>1. CASE s = {}
        BY <4>1
      <4>2. CASE s # {}
        <5>1. w[First(s)] \in Int /\ f[s \ {First(s)}] \in Int
          BY <2>1, <2>2, <4>2
        <5> QED BY <5>1, <4>2
      <4> QED BY <4>1, <4>2
    <3> HIDE DEF Body
    <3> QED BY <3>1
  <2>4. ASSUME NEW s \in SUBSET T, Cardinality(s) <= n PROVE g[s] = Body(g, s)
    <3>1. CASE s = {}
      BY <3>1
    <3>2. CASE s # {}
      <4> DEFINE r == s \ {First(s)}
      <4>1. r \in SUBSET T /\ Cardinality(r) < n
        BY <2>2, <2>4, <3>2, <1>1
      <4>2. g[r] = f[r]
        <5>1. f[r] = Body(f, r)
          BY <2>1, <4>1
        <5> HIDE DEF r, Body
        <5> QED BY <4>1, <5>1
      <4>3. g[s] = w[First(s)] + f[r] /\ Body(g, s) = w[First(s)] + g[r]
        <5> HIDE DEF g
        <5>1. Body(g, s) = w[First(s)] + g[r]
          BY <3>2
        <5>2. Body(f, s) = w[First(s)] + f[r]
          BY <3>2
        <5>3. g[s] = Body(f, s)
          <6> HIDE DEF Body
          <6> QED BY DEF g
        <5> QED BY <5>1, <5>2, <5>3
      <4> QED BY <4>2, <4>3
    <3> QED BY <3>1, <3>2
  <2> HIDE DEF g, Body
  <2>5. Upto(g, n)
    BY <2>3, <2>4
  <2> QED BY <2>5
<1>3. Cardinality(T) \in G
  <2> HIDE DEF G
  <2>1. Nat \subseteq G
    BY <1>2, AllNaturals
  <2> QED BY <2>1, <1>1
<1>4. PICK f : Upto(f, Cardinality(T))
  BY <1>3
<1>5. f = [s \in SUBSET T |-> Body(f, s)]
  <2>1. \A s \in SUBSET T : Cardinality(s) <= Cardinality(T)
    BY FS_Subset
  <2>2. f \in [SUBSET T -> Int] /\ \A s \in SUBSET T : f[s] = Body(f, s)
    BY <1>4, <2>1
  <2> HIDE DEF Body
  <2> QED BY <2>2
<1> QED BY <1>5 DEF AddsUp

(* Two such functions agree where their weights do.                          *)
LEMMA SumUnique ==
  ASSUME NEW T, IsFiniteSet(T), NEW w, NEW v, NEW R, NEW it, NEW jt,
         Sums(it, w, T), Sums(jt, v, R), T \subseteq R, \A x \in T : w[x] = v[x]
  PROVE  \A s \in SUBSET T : it[s] = jt[s]
<1> DEFINE F == {s \in SUBSET T : it[s] = jt[s]}
<1>1. ASSUME NEW s \in SUBSET T, \A r \in SUBSET s : r # s => r \in F PROVE s \in F
  <2>1. CASE s = {}
    BY <2>1 DEF Sums
  <2>2. CASE s # {}
    <3>1. PICK x \in s : TRUE
      BY <2>2
    <3>2. s \ {x} \in F
      BY <3>1, <1>1
    <3>3. it[s] = w[x] + it[s \ {x}]
      BY <3>1 DEF Sums
    <3>4. jt[s] = v[x] + jt[s \ {x}]
      BY <3>1 DEF Sums
    <3> QED BY <3>1, <3>2, <3>3, <3>4
  <2> QED BY <2>1, <2>2
<1>2. SUBSET T \subseteq F
  <2> HIDE DEF F
  <2> QED BY <1>1, AllSubsets
<1> QED BY <1>2

(* The sum of w over each subset of T is what such a function says.          *)
LEMMA SumSums ==
  ASSUME NEW T, IsFiniteSet(T), NEW w \in [T -> Int]
  PROVE  Sum(w, T) \in Int /\ \E it : Sums(it, w, T) /\ Sum(w, T) = it[T]
<1> DEFINE it == CHOOSE f : AddsUp(f, w, T)
<1>1. AddsUp(it, w, T)
  BY SumExists
<1>2. Sum(w, T) = it[T]
  BY DEF Sum
<1> HIDE DEF it
<1>3. Sums(it, w, T)
  BY <1>1, AnyFirst
<1> QED BY <1>2, <1>3 DEF Sums

(* Total adds up the values.                                                 *)
LEMMA TotalIsSum ==
  ASSUME NEW T
  PROVE  Bitcoin!Total(T) = Sum([u \in T |-> u.value], T)
<1> DEFINE w == [u \in T |-> u.value]
           Adds(it) == it = [s \in SUBSET T |->
                               IF s = {} THEN 0
                               ELSE (CHOOSE x \in s : TRUE).value + it[s \ {CHOOSE x \in s : TRUE}]]
<1>1. Bitcoin!Total(T) = (CHOOSE it : Adds(it))[T]
  BY DEF Bitcoin!Total, Bitcoin!MapThenSumSet, Bitcoin!MapThenFoldSet
<1>2. ASSUME NEW it PROVE Adds(it) <=> AddsUp(it, w, T)
  <2> DEFINE A(s) == IF s = {} THEN 0
                     ELSE (CHOOSE x \in s : TRUE).value + it[s \ {CHOOSE x \in s : TRUE}]
             B(s) == IF s = {} THEN 0 ELSE w[First(s)] + it[s \ {First(s)}]
  <2>1. ASSUME NEW s \in SUBSET T PROVE A(s) = B(s)
    <3>1. CASE s = {}
      BY <3>1
    <3>2. CASE s # {}
      <4>1. First(s) \in s /\ First(s) = CHOOSE x \in s : TRUE
        BY <3>2 DEF First
      <4>2. w[First(s)] = First(s).value
        BY <4>1
      <4> HIDE DEF w
      <4> QED BY <4>1, <4>2
    <3> QED BY <3>1, <3>2
  <2>2. Adds(it) <=> it = [s \in SUBSET T |-> A(s)]
    OBVIOUS
  <2>3. AddsUp(it, w, T) <=> it = [s \in SUBSET T |-> B(s)]
    BY DEF AddsUp
  <2>4. [s \in SUBSET T |-> A(s)] = [s \in SUBSET T |-> B(s)]
    <3> HIDE DEF A, B
    <3> QED BY <2>1
  <2> HIDE DEF A, B, Adds, w
  <2> QED BY <2>2, <2>3, <2>4
<1> HIDE DEF Adds, w
<1>3. (CHOOSE it : Adds(it)) = (CHOOSE it : AddsUp(it, w, T))
  BY <1>2
<1> QED BY <1>1, <1>3 DEF Sum, w

(* What coins are worth when the transactions are those of x.                *)
WorthIn(x, c) == IF c \in Bitcoin!Coins THEN Value[c] ELSE x[c].change
Paid(x, T) ==
  (CHOOSE it : it = [s \in SUBSET T |->
                       IF s = {} THEN 0
                       ELSE WorthIn(x, CHOOSE c \in s : TRUE) + it[s \ {CHOOSE c \in s : TRUE}]])[T]

(* TrueFee adds that up.                                                     *)
LEMMA PaidIsSum ==
  ASSUME NEW T, NEW x
  PROVE  Paid(x, T) = Sum([c \in T |-> WorthIn(x, c)], T)
<1> DEFINE w == [c \in T |-> WorthIn(x, c)]
           Adds(it) == it = [s \in SUBSET T |->
                               IF s = {} THEN 0
                               ELSE WorthIn(x, CHOOSE c \in s : TRUE)
                                    + it[s \ {CHOOSE c \in s : TRUE}]]
<1>1. Paid(x, T) = (CHOOSE it : Adds(it))[T]
  BY DEF Paid
<1>2. ASSUME NEW it PROVE Adds(it) <=> AddsUp(it, w, T)
  <2> DEFINE A(s) == IF s = {} THEN 0
                     ELSE WorthIn(x, CHOOSE c \in s : TRUE) + it[s \ {CHOOSE c \in s : TRUE}]
             B(s) == IF s = {} THEN 0 ELSE w[First(s)] + it[s \ {First(s)}]
  <2>1. ASSUME NEW s \in SUBSET T PROVE A(s) = B(s)
    <3>1. CASE s = {}
      BY <3>1
    <3>2. CASE s # {}
      <4>1. First(s) \in s /\ First(s) = CHOOSE c \in s : TRUE
        BY <3>2 DEF First
      <4>2. w[First(s)] = WorthIn(x, First(s))
        BY <4>1
      <4> HIDE DEF w
      <4> QED BY <4>1, <4>2
    <3> QED BY <3>1, <3>2
  <2>2. Adds(it) <=> it = [s \in SUBSET T |-> A(s)]
    OBVIOUS
  <2>3. AddsUp(it, w, T) <=> it = [s \in SUBSET T |-> B(s)]
    BY DEF AddsUp
  <2>4. [s \in SUBSET T |-> A(s)] = [s \in SUBSET T |-> B(s)]
    <3> HIDE DEF A, B
    <3> QED BY <2>1
  <2> HIDE DEF A, B, Adds, w
  <2> QED BY <2>2, <2>3, <2>4
<1> HIDE DEF Adds, w
<1>3. (CHOOSE it : Adds(it)) = (CHOOSE it : AddsUp(it, w, T))
  BY <1>2
<1> QED BY <1>1, <1>3 DEF Sum, w

(* What Total says of the subsets of a finite set of coins.                  *)
LEMMA Totals ==
  ASSUME NEW T, IsFiniteSet(T), \A u \in T : u.value \in Int
  PROVE  /\ Bitcoin!Total({}) = 0
         /\ \A s \in SUBSET T :
              /\ Bitcoin!Total(s) \in Int
              /\ \A x \in s : Bitcoin!Total(s) = x.value + Bitcoin!Total(s \ {x})
<1> DEFINE w(s) == [u \in s |-> u.value]
<1>1. PICK it : Sums(it, w(T), T)
  BY SumSums
<1>2. ASSUME NEW s \in SUBSET T PROVE Bitcoin!Total(s) = it[s]
  <2>1. IsFiniteSet(s) /\ w(s) \in [s -> Int]
    BY FS_Subset
  <2>2. PICK jt : Sums(jt, w(s), s) /\ Sum(w(s), s) = jt[s]
    <3> HIDE DEF w
    <3> QED BY <2>1, SumSums
  <2>3. \A x \in s : w(s)[x] = w(T)[x]
    OBVIOUS
  <2>4. Bitcoin!Total(s) = Sum(w(s), s)
    BY TotalIsSum
  <2> HIDE DEF w
  <2>5. jt[s] = it[s]
    BY <1>1, <2>1, <2>2, <2>3, SumUnique
  <2> QED BY <2>2, <2>4, <2>5
<1>3. \A x \in T : w(T)[x] = x.value
  OBVIOUS
<1> HIDE DEF w
<1>4. it \in [SUBSET T -> Int] /\ it[{}] = 0
      /\ \A s \in SUBSET T : \A x \in s : it[s] = w(T)[x] + it[s \ {x}]
  BY <1>1 DEF Sums
<1>5. ASSUME NEW s \in SUBSET T PROVE Bitcoin!Total(s) \in Int
  BY <1>2, <1>4
<1>6. ASSUME NEW s \in SUBSET T, NEW x \in s
      PROVE  Bitcoin!Total(s) = x.value + Bitcoin!Total(s \ {x})
  <2>1. Bitcoin!Total(s) = it[s] /\ Bitcoin!Total(s \ {x}) = it[s \ {x}]
    BY <1>2
  <2>2. it[s] = x.value + it[s \ {x}]
    BY <1>3, <1>4
  <2> QED BY <2>1, <2>2
<1> QED BY <1>2, <1>4, <1>5, <1>6

(* Coins that are worth what the list says are worth what it adds up to.     *)
LEMMA SameSum ==
  ASSUME NEW T, IsFiniteSet(T), \A u \in T : u.value \in Int,
         \A u, v \in T : u.coin = v.coin => u = v,
         NEW x, \A u \in T : u.value = WorthIn(x, u.coin)
  PROVE  Paid(x, {u.coin : u \in T}) = Bitcoin!Total(T)
<1> DEFINE C(s) == {u.coin : u \in s}
           w == [c \in C(T) |-> WorthIn(x, c)]
<1>1. IsFiniteSet(C(T))
  <2>1. [u \in T |-> u.coin] \in Surjection(T, C(T))
    BY DEF Surjection
  <2> QED BY <2>1, FS_Surjection
<1>2. w \in [C(T) -> Int]
  OBVIOUS
<1>3. \A u \in T : w[u.coin] = u.value
  OBVIOUS
<1>4. PICK it : Sums(it, w, C(T)) /\ Sum(w, C(T)) = it[C(T)]
  <2> HIDE DEF w, C
  <2> QED BY <1>1, <1>2, SumSums
<1> DEFINE G == {s \in SUBSET T : Bitcoin!Total(s) = it[C(s)]}
<1>5. ASSUME NEW s \in SUBSET T, \A r \in SUBSET s : r # s => r \in G PROVE s \in G
  <2>1. CASE s = {}
    <3>1. C(s) = {}
      BY <2>1
    <3> QED BY <2>1, <3>1, <1>4, Totals DEF Sums
  <2>2. CASE s # {}
    <3>1. PICK a \in s : TRUE
      BY <2>2
    <3>2. s \ {a} \in G
      BY <3>1, <1>5
    <3>3. C(s \ {a}) = C(s) \ {a.coin} /\ C(s) \in SUBSET C(T) /\ a.coin \in C(s)
      OBVIOUS
    <3> HIDE DEF w, C
    <3>4. it[C(s)] = a.value + it[C(s) \ {a.coin}]
      BY <3>3, <1>3, <1>4 DEF Sums
    <3>5. Bitcoin!Total(s) = a.value + Bitcoin!Total(s \ {a})
      BY <3>1, Totals
    <3> QED BY <3>2, <3>3, <3>4, <3>5
  <2> QED BY <2>1, <2>2
<1>6. T \in G
  <2> HIDE DEF G
  <2> QED BY <1>5, AllSubsets
<1>7. Paid(x, C(T)) = Sum(w, C(T))
  BY PaidIsSum
<1> QED BY <1>4, <1>6, <1>7

(* The counting of the wallet's module is that of FiniteSets.                *)
LEMMA BtcCounts ==
  ASSUME NEW S
  PROVE  Bitcoin!Cardinality(S) = Cardinality(S)
BY DEF Bitcoin!Cardinality, Cardinality

(* A finite set of coins has one of the largest and one of the smallest.     *)
LEMMA EndCoins ==
  ASSUME NEW U, IsFiniteSet(U), \A u \in U : u.value \in Int, U # {}
  PROVE  /\ \E x \in U : \A y \in U : x.value >= y.value
         /\ \E x \in U : \A y \in U : x.value <= y.value
<1> DEFINE F == {s \in SUBSET U : s = {} \/ \E x, z \in s : \A y \in s : /\ x.value >= y.value
                                                                        /\ z.value <= y.value}
<1>1. ASSUME NEW s \in SUBSET U, \A r \in SUBSET s : r # s => r \in F PROVE s \in F
  <2> SUFFICES ASSUME NEW a \in s
               PROVE  \E x, z \in s : \A y \in s : x.value >= y.value /\ z.value <= y.value
    OBVIOUS
  <2>1. s \ {a} \in F
    BY <1>1
  <2>2. CASE s \ {a} = {}
    <3>1. \A y \in s : y = a
      BY <2>2
    <3> QED BY <3>1
  <2>3. CASE s \ {a} # {}
    <3>1. PICK x \in s, z \in s : \A y \in s \ {a} : x.value >= y.value /\ z.value <= y.value
      BY <2>1, <2>3
    <3> DEFINE hi == IF x.value >= a.value THEN x ELSE a
               lo == IF z.value <= a.value THEN z ELSE a
    <3>2. x.value \in Int /\ z.value \in Int /\ a.value \in Int /\ \A y \in s : y.value \in Int
      OBVIOUS
    <3>3. hi \in s /\ \A y \in s : hi.value >= y.value
      BY <3>1, <3>2
    <3>4. lo \in s /\ \A y \in s : lo.value <= y.value
      BY <3>1, <3>2
    <3> HIDE DEF hi, lo
    <3> QED BY <3>3, <3>4
  <2> QED BY <2>2, <2>3
<1>2. U \in F
  <2> HIDE DEF F
  <2> QED BY <1>1, AllSubsets
<1> QED BY <1>2

(* Of two sets of as many coins the one that has the larger coins is worth   *)
(* as much at least.                                                         *)
LEMMA LargerIsWorthMore ==
  ASSUME NEW U, IsFiniteSet(U), \A u \in U : u.value \in Int,
         NEW big \in SUBSET U, NEW t \in SUBSET U, Cardinality(t) = Cardinality(big),
         \A x \in big \ t, y \in t \ big : x.value >= y.value
  PROVE  Bitcoin!Total(big) >= Bitcoin!Total(t)
<1> DEFINE Less(s) == /\ Cardinality(s) = Cardinality(big)
                      /\ \A x \in big \ s, y \in s \ big : x.value >= y.value
           G == {n \in Nat : \A s \in SUBSET U : Less(s) /\ Cardinality(big \ s) = n
                                                 => Bitcoin!Total(big) >= Bitcoin!Total(s)}
<1>1. \A s \in SUBSET U : IsFiniteSet(s) /\ Cardinality(s) \in Nat /\ Bitcoin!Total(s) \in Int
  BY FS_Subset, FS_CardinalityType, Totals
<1>2. ASSUME NEW n \in Nat, \A m \in Nat : m < n => m \in G PROVE n \in G
  <2> SUFFICES ASSUME NEW s \in SUBSET U, Less(s), Cardinality(big \ s) = n
               PROVE  Bitcoin!Total(big) >= Bitcoin!Total(s)
    OBVIOUS
  <2>1. CASE big \ s = {}
    <3>1. big \in SUBSET s
      BY <2>1
    <3>2. s = big
      BY <3>1, <1>1, FS_Subset
    <3> QED BY <3>2, <1>1
  <2>2. CASE big \ s # {}
    <3>1. s \ big # {}
      <4>1. s \in SUBSET big => s = big
        BY <1>1, FS_Subset
      <4> QED BY <4>1, <2>2
    <3>2. PICK x \in big \ s, y \in s \ big : x.value >= y.value
      BY <2>2, <3>1
    <3> DEFINE r == (s \ {y}) \cup {x}
    <3>3. /\ r \in SUBSET U /\ s \ {y} \in SUBSET U /\ r \ {x} = s \ {y} /\ x \in r
          /\ big \ r = (big \ s) \ {x} /\ r \ big = (s \ big) \ {y}
      BY <3>2
    <3>4. Cardinality(r) = Cardinality(s)
      <4>1. Cardinality(s \ {y}) = Cardinality(s) - 1 /\ IsFiniteSet(s \ {y})
        BY <1>1, <3>2, FS_RemoveElement
      <4>2. Cardinality(r) = Cardinality(s \ {y}) + 1
        BY <4>1, <3>2, FS_AddElement
      <4> QED BY <4>1, <4>2, <1>1
    <3>5. Cardinality(big \ r) = n - 1 /\ n - 1 \in Nat
      <4>1. IsFiniteSet(big \ s) /\ big \ s \in SUBSET U /\ big \ r \in SUBSET U
        BY <1>1
      <4>2. Cardinality((big \ s) \ {x}) = n - 1
        BY <4>1, <3>2, FS_RemoveElement
      <4> HIDE DEF r
      <4> QED BY <4>1, <4>2, <3>3, <1>1
    <3>6. Less(r)
      BY <3>3, <3>4
    <3>7. Bitcoin!Total(big) >= Bitcoin!Total(r)
      <4> HIDE DEF r, Less
      <4> QED BY <3>3, <3>5, <3>6, <1>2
    <3>8. Bitcoin!Total(r) >= Bitcoin!Total(s)
      <4>1. Bitcoin!Total(r) = x.value + Bitcoin!Total(r \ {x})
        <5> HIDE DEF r
        <5> QED BY <3>3, Totals
      <4>2. Bitcoin!Total(s) = y.value + Bitcoin!Total(s \ {y})
        BY <3>2, Totals
      <4>3. x.value \in Int /\ y.value \in Int /\ Bitcoin!Total(s \ {y}) \in Int
        BY <3>2, <3>3, <1>1
      <4>4. Bitcoin!Total(r \ {x}) = Bitcoin!Total(s \ {y})
        BY <3>3
      <4> DEFINE rest == Bitcoin!Total(s \ {y})
      <4> HIDE DEF r, rest
      <4>5. Bitcoin!Total(r) = x.value + rest /\ Bitcoin!Total(s) = y.value + rest /\ rest \in Int
        BY <4>1, <4>2, <4>3, <4>4 DEF rest
      <4> QED BY <4>3, <4>5, <3>2
    <3> HIDE DEF r
    <3> QED BY <3>3, <3>7, <3>8, <1>1
  <2> QED BY <2>1, <2>2
<1>3. Cardinality(big \ t) \in Nat
  BY <1>1
<1> HIDE DEF G
<1>4. Nat \subseteq G
  BY <1>2, AllNaturals
<1> QED BY <1>3, <1>4 DEF G

(* There are k largest coins.                                                *)
LEMMA LargestExist ==
  ASSUME NEW U, IsFiniteSet(U), \A u \in U : u.value \in Int, NEW k \in 0 .. Cardinality(U)
  PROVE  /\ Bitcoin!Largest(U, k) \in SUBSET U /\ Cardinality(Bitcoin!Largest(U, k)) = k
         /\ \A x \in Bitcoin!Largest(U, k), y \in U \ Bitcoin!Largest(U, k) : x.value >= y.value
<1> DEFINE Top(s, n) == /\ s \in SUBSET U /\ Cardinality(s) = n
                        /\ \A x \in s, y \in U \ s : x.value >= y.value
           G == {n \in Nat : n <= Cardinality(U) => \E s : Top(s, n)}
<1>1. Cardinality(U) \in Nat /\ \A s \in SUBSET U : IsFiniteSet(s) /\ Cardinality(s) \in Nat
  BY FS_Subset, FS_CardinalityType
<1>2. ASSUME NEW n \in Nat, \A m \in Nat : m < n => m \in G PROVE n \in G
  <2> SUFFICES ASSUME n <= Cardinality(U) PROVE \E s : Top(s, n)
    OBVIOUS
  <2>1. CASE n = 0
    <3>1. Top({}, 0)
      BY FS_EmptySet
    <3> QED BY <2>1, <3>1
  <2>2. CASE n # 0
    <3>1. n - 1 \in Nat /\ n - 1 < n /\ n - 1 <= Cardinality(U)
      BY <2>2, <1>1
    <3>2. PICK s : Top(s, n - 1)
      BY <3>1, <1>2
    <3>3. IsFiniteSet(U \ s) /\ U \ s # {}
      BY <3>1, <3>2, <1>1
    <3>4. PICK x \in U \ s : \A y \in U \ s : x.value >= y.value
      BY <3>3, EndCoins
    <3>5. Cardinality(s \cup {x}) = n
      <4>1. Cardinality(s \cup {x}) = Cardinality(s) + 1
        BY <3>2, <3>4, <1>1, FS_AddElement
      <4> QED BY <4>1, <3>2, <3>1
    <3>6. \A a \in s \cup {x}, y \in U \ (s \cup {x}) : a.value >= y.value
      BY <3>2, <3>4
    <3>7. Top(s \cup {x}, n)
      BY <3>2, <3>4, <3>5, <3>6
    <3> QED BY <3>7
  <2> QED BY <2>1, <2>2
<1> HIDE DEF G
<1>3. k \in G
  BY <1>2, AllNaturals, <1>1
<1>4. PICK s : Top(s, k)
  BY <1>3, <1>1 DEF G
<1>5. Bitcoin!kSubset(k, U) = {r \in SUBSET U : Cardinality(r) = k}
  BY BtcCounts DEF Bitcoin!kSubset
<1>6. Bitcoin!Largest(U, k) \in {r \in SUBSET U : Cardinality(r) = k}
      /\ \A x \in Bitcoin!Largest(U, k), y \in U \ Bitcoin!Largest(U, k) : x.value >= y.value
  BY <1>4, <1>5 DEF Bitcoin!Largest
<1> QED BY <1>6

(* SelectUTXOs picks coins of the list, and if some coins of the list will   *)
(* do, at most MaxInputs, then coins that will do and that are no more.       *)
LEMMA Selects ==
  ASSUME Bitcoin!WalletAssumption, NEW U, IsFiniteSet(U), \A u \in U : u.value \in Int,
         NEW target \in Int
  PROVE  /\ Bitcoin!SelectUTXOs(U, target) \in SUBSET U
         /\ \A t \in SUBSET U :
              Cardinality(t) \in 1 .. MaxInputs /\ Bitcoin!Total(t) >= target =>
                /\ Cardinality(Bitcoin!SelectUTXOs(U, target)) \in 1 .. Cardinality(t)
                /\ Bitcoin!Total(Bitcoin!SelectUTXOs(U, target)) >= target
<1> DEFINE single == {u \in U : u.value >= target}
           limit  == Bitcoin!Min({MaxInputs, Cardinality(U)})
           enough == {k \in 1 .. limit : Bitcoin!Total(Bitcoin!Largest(U, k)) >= target}
           least  == CHOOSE u \in single : \A v \in single : u.value <= v.value
           some   == IF enough = {} THEN limit ELSE Bitcoin!Min(enough)
           S      == Bitcoin!SelectUTXOs(U, target)
<1>1. S = IF single # {} THEN {least} ELSE Bitcoin!Largest(U, some)
  BY BtcCounts DEF Bitcoin!SelectUTXOs
<1>2. Cardinality(U) \in Nat /\ MaxInputs \in Nat \ {0}
  BY FS_CardinalityType DEF Bitcoin!WalletAssumption
<1>3. limit \in Nat /\ limit <= Cardinality(U) /\ limit <= MaxInputs
      /\ \A k \in Nat : k <= MaxInputs /\ k <= Cardinality(U) => k <= limit
  <2>1. \E m \in {MaxInputs, Cardinality(U)} : \A k \in {MaxInputs, Cardinality(U)} : m <= k
    BY <1>2
  <2>2. limit \in {MaxInputs, Cardinality(U)} /\ \A k \in {MaxInputs, Cardinality(U)} : limit <= k
    BY <2>1 DEF Bitcoin!Min
  <2> HIDE DEF limit
  <2> QED BY <2>2, <1>2
<1>4. \A t \in SUBSET U : IsFiniteSet(t) /\ Cardinality(t) \in Nat /\ Cardinality(t) <= Cardinality(U)
                          /\ Bitcoin!Total(t) \in Int
  BY FS_Subset, FS_CardinalityType, Totals
<1>5. CASE single # {}
  <2>1. single \in SUBSET U /\ IsFiniteSet(single)
    BY <1>4
  <2>2. \E x \in single : \A y \in single : x.value <= y.value
    BY <1>5, <2>1, EndCoins
  <2>3. least \in single
    BY <2>2
  <2>4. S = {least}
    BY <1>1, <1>5
  <2> HIDE DEF least, S
  <2>5. Bitcoin!Total({least}) = least.value + Bitcoin!Total({least} \ {least})
    BY <2>3, Totals
  <2>6. Bitcoin!Total({least} \ {least}) = 0
    BY Totals
  <2>7. Bitcoin!Total(S) = least.value
    BY <2>3, <2>4, <2>5, <2>6
  <2>8. S \in SUBSET U /\ Cardinality(S) = 1 /\ Bitcoin!Total(S) >= target
    BY <2>3, <2>4, <2>7, FS_Singleton
  <2> QED BY <2>8, <1>2 DEF S
<1>6. CASE single = {}
  <2>1. S = Bitcoin!Largest(U, some)
    BY <1>1, <1>6
  <2>2. ASSUME enough # {} PROVE some \in enough /\ \A k \in enough : some <= k
    <3>1. enough \subseteq Nat
      OBVIOUS
    <3>2. \E m \in enough : \A k \in enough : m <= k
      <4> HIDE DEF enough
      <4> QED BY <2>2, <3>1, LeastNatural
    <3>3. some = CHOOSE m \in enough : \A k \in enough : m <= k
      <4> HIDE DEF enough
      <4> QED BY <2>2 DEF Bitcoin!Min
    <3> HIDE DEF enough, some
    <3> QED BY <3>2, <3>3
  <2>3. some \in 0 .. Cardinality(U)
    <3>1. CASE enough = {}
      <4>1. some = limit
        BY <3>1
      <4> HIDE DEF limit, some
      <4> QED BY <4>1, <1>3, <1>2
    <3>2. CASE enough # {}
      <4>1. some \in 1 .. limit
        <5> HIDE DEF limit, some
        <5> QED BY <2>2, <3>2
      <4> HIDE DEF limit, some
      <4> QED BY <4>1, <1>3, <1>2
    <3> QED BY <3>1, <3>2
  <2> HIDE DEF some, S
  <2>4. S \in SUBSET U /\ Cardinality(S) = some
    BY <2>1, <2>3, LargestExist
  <2>5. ASSUME NEW t \in SUBSET U, Cardinality(t) \in 1 .. MaxInputs, Bitcoin!Total(t) >= target
        PROVE  Cardinality(S) \in 1 .. Cardinality(t) /\ Bitcoin!Total(S) >= target
    <3> DEFINE k == Cardinality(t)
               L == Bitcoin!Largest(U, k)
    <3>1. k \in 0 .. Cardinality(U) /\ k \in 1 .. limit
      <4> HIDE DEF limit
      <4> QED BY <2>5, <1>2, <1>3, <1>4
    <3>2. L \in SUBSET U /\ Cardinality(L) = k /\ \A x \in L, y \in U \ L : x.value >= y.value
      <4> HIDE DEF k
      <4> QED BY <3>1, LargestExist
    <3> HIDE DEF L
    <3>3. Bitcoin!Total(L) >= Bitcoin!Total(t)
      <4>1. \A x \in L \ t, y \in t \ L : x.value >= y.value
        BY <3>2
      <4> QED BY <3>2, <4>1, LargerIsWorthMore
    <3>4. Bitcoin!Total(L) >= target
      BY <3>2, <3>3, <2>5, <1>4
    <3>5. k \in enough
      BY <3>1, <3>4 DEF L
    <3> HIDE DEF k
    <3>6. some \in enough /\ some <= k
      BY <3>5, <2>2
    <3>7. some \in 1 .. limit /\ Bitcoin!Total(Bitcoin!Largest(U, some)) >= target
      BY <3>6
    <3> HIDE DEF limit, enough
    <3>8. some \in 1 .. k
      BY <3>1, <3>6, <3>7, <1>3
    <3> QED BY <3>7, <3>8, <2>1, <2>4 DEF k
  <2> QED BY <2>4, <2>5 DEF S
<1> QED BY <1>5, <1>6

(* One turn of Fund, with a fee: it asks for more, or takes what it got.     *)
Turn(f, U, amount, r, fee) ==
  LET s    == Bitcoin!SelectUTXOs(U, amount + fee)
      need == r * Bitcoin!Size(Cardinality(s))
  IN IF Bitcoin!Total(s) < amount + fee THEN {}
     ELSE IF Bitcoin!Total(s) - amount < need THEN f[need] ELSE s

(* What Fund computes, written out.                                          *)
LEMMA FundTurns ==
  ASSUME NEW U, NEW amount, NEW r
  PROVE  Bitcoin!Fund(U, amount, r)
           = (CHOOSE f : f = [fee \in Nat |-> Turn(f, U, amount, r, fee)])[r * FirstSize]
BY BtcCounts DEF Bitcoin!Fund, Turn

(* The fee of a larger size is no less.                                      *)
LEMMA SizesCost ==
  ASSUME NEW r \in Nat, NEW p \in Nat, NEW q \in Nat, p <= q
  PROVE  r * p \in Nat /\ r * q \in Nat /\ r * p <= r * q
<1>1. q - p \in Nat /\ q = p + (q - p)
  OBVIOUS
<1>2. r * p \in Nat /\ r * (q - p) \in Nat
  BY <1>1
<1>3. r * q = r * p + r * (q - p)
  BY <1>1
<1> QED BY <1>2, <1>3

(* And so is that of more inputs.                                            *)
LEMMA FeesGrow ==
  ASSUME Bitcoin!WalletAssumption, NEW r \in Nat, NEW a \in Nat, NEW b \in Nat, a <= b
  PROVE  /\ r * Bitcoin!Size(a) \in Nat
         /\ r * Bitcoin!Size(a) <= r * Bitcoin!Size(b)
<1>1. Overhead \in Nat
  BY DEF Bitcoin!WalletAssumption
<1> DEFINE p == Overhead + a
           q == Overhead + b
<1>2. p \in Nat /\ q \in Nat /\ p <= q
  BY <1>1
<1>3. Bitcoin!Size(a) = p /\ Bitcoin!Size(b) = q
  BY DEF Bitcoin!Size
<1> HIDE DEF p, q
<1> QED BY <1>2, <1>3, SizesCost

(* A turn goes on only to a higher fee, and never beyond the fee of the      *)
(* whole list.                                                               *)
LEMMA TurnsGoUp ==
  ASSUME Bitcoin!WalletAssumption, NEW U, IsFiniteSet(U), \A u \in U : u.value \in Int,
         NEW amount \in Nat, NEW r \in Nat, NEW fee \in Nat, NEW f, NEW g,
         \A n \in Nat : fee < n /\ n <= r * Bitcoin!Size(Cardinality(U)) => f[n] = g[n]
  PROVE  Turn(f, U, amount, r, fee) = Turn(g, U, amount, r, fee)
<1> DEFINE s    == Bitcoin!SelectUTXOs(U, amount + fee)
           need == r * Bitcoin!Size(Cardinality(s))
           sum  == Bitcoin!Total(s)
           Out(h) == IF sum < amount + fee THEN {} ELSE IF sum - amount < need THEN h[need] ELSE s
<1>1. s \in SUBSET U
  BY Selects
<1>2. sum \in Int /\ Cardinality(s) \in Nat /\ Cardinality(U) \in Nat /\ Cardinality(s) <= Cardinality(U)
  <2> HIDE DEF s
  <2> QED BY <1>1, Totals, FS_Subset, FS_CardinalityType
<1>3. need \in Nat /\ need <= r * Bitcoin!Size(Cardinality(U))
  <2> HIDE DEF s
  <2> QED BY <1>2, FeesGrow
<1>4. Turn(f, U, amount, r, fee) = Out(f) /\ Turn(g, U, amount, r, fee) = Out(g)
  BY DEF Turn
<1> HIDE DEF s, need, sum
<1>5. CASE ~ (sum < amount + fee) /\ sum - amount < need
  <2>1. fee < need
    BY <1>2, <1>3, <1>5
  <2>2. f[need] = g[need]
    BY <2>1, <1>3
  <2> QED BY <1>4, <2>2
<1>6. CASE sum < amount + fee \/ ~ (sum - amount < need)
  BY <1>4, <1>6
<1> QED BY <1>5, <1>6

(* So the turns come to an end: the recursive function of Fund exists.       *)
LEMMA FundEnds ==
  ASSUME Bitcoin!WalletAssumption, NEW U, IsFiniteSet(U), \A u \in U : u.value \in Int,
         NEW amount \in Nat, NEW r \in Nat
  PROVE  \E f : f = [fee \in Nat |-> Turn(f, U, amount, r, fee)]
<1> DEFINE B == r * Bitcoin!Size(Cardinality(U))
           T(f, fee) == Turn(f, U, amount, r, fee)
           From(f, n) == \A fee \in 0 .. B : B < fee + n => f[fee] = T(f, fee)
           G == {n \in Nat : \E f : From(f, n)}
<1>1. B \in Nat
  <2>1. Cardinality(U) \in Nat /\ Cardinality(U) <= Cardinality(U)
    BY FS_CardinalityType
  <2> QED BY <2>1, FeesGrow
<1>2. ASSUME NEW f, NEW g, NEW fee \in Nat, \A n \in 0 .. B : fee < n => f[n] = g[n]
      PROVE  T(f, fee) = T(g, fee)
  BY <1>1, <1>2, TurnsGoUp
<1> HIDE DEF B, T
<1>3. ASSUME NEW n \in Nat, \A m \in Nat : m < n => m \in G PROVE n \in G
  <2>1. CASE n = 0
    <3>1. From([fee \in Nat |-> 0], 0)
      BY <1>1
    <3> QED BY <2>1, <3>1
  <2>2. CASE n # 0
    <3>1. n - 1 \in Nat /\ n - 1 < n
      BY <2>2
    <3>2. PICK f : From(f, n - 1)
      BY <3>1, <1>3
    <3> DEFINE g == [fee \in Nat |-> T(f, fee)]
    <3>3. ASSUME NEW fee \in 0 .. B, B < fee + n PROVE g[fee] = T(g, fee)
      <4>1. ASSUME NEW k \in 0 .. B, fee < k PROVE f[k] = g[k]
        <5>1. B < k + (n - 1)
          BY <3>3, <4>1, <1>1
        <5>2. f[k] = T(f, k)
          BY <5>1, <3>2
        <5> QED BY <5>2
      <4>2. fee \in Nat /\ g[fee] = T(f, fee)
        OBVIOUS
      <4> HIDE DEF g
      <4>3. T(f, fee) = T(g, fee)
        BY <4>1, <4>2, <1>2
      <4> QED BY <4>2, <4>3
    <3> HIDE DEF g
    <3>4. From(g, n)
      BY <3>3
    <3> QED BY <3>4
  <2> QED BY <2>1, <2>2
<1>4. B + 1 \in G
  <2> HIDE DEF G
  <2> QED BY <1>1, <1>3, AllNaturals
<1>5. PICK f : From(f, B + 1)
  BY <1>4
<1>6. \A k \in 0 .. B : f[k] = T(f, k)
  BY <1>1, <1>5
<1> DEFINE h == [fee \in Nat |-> T(f, fee)]
<1>7. ASSUME NEW fee \in Nat PROVE T(f, fee) = T(h, fee)
  <2>1. \A k \in 0 .. B : f[k] = h[k]
    BY <1>6
  <2> HIDE DEF h
  <2> QED BY <2>1, <1>2
<1>8. h = [fee \in Nat |-> T(h, fee)]
  BY <1>7
<1> HIDE DEF h
<1> QED BY <1>8 DEF T

(* Fund fails only if no coins of the list, at most MaxInputs, pay for the   *)
(* amount and for their own number, and for the input it asks for first.     *)
LEMMA FundFails ==
  ASSUME Bitcoin!WalletAssumption, NEW U, IsFiniteSet(U), \A u \in U : u.value \in Int,
         NEW amount \in Nat, NEW r \in Nat, NEW t \in SUBSET U,
         Cardinality(t) \in 1 .. MaxInputs,
         Bitcoin!Total(t) >= amount + r * Bitcoin!Size(Cardinality(t)),
         Bitcoin!Total(t) >= amount + r * FirstSize
  PROVE  Bitcoin!Fund(U, amount, r) # {}
<1> DEFINE try == CHOOSE f : f = [fee \in Nat |-> Turn(f, U, amount, r, fee)]
           Cost(k) == r * Bitcoin!Size(k)
           first == r * FirstSize
           c == Cardinality(t)
           B == Cost(c)
           G == {n \in Nat : \A k \in 1 .. c : B - Cost(k) = n => try[Cost(k)] # {}}
<1>1. try = [fee \in Nat |-> Turn(try, U, amount, r, fee)]
  BY FundEnds
<1>2. Bitcoin!Fund(U, amount, r) = try[first]
  BY FundTurns
<1>3. MaxInputs \in Nat \ {0} /\ c \in Nat /\ c >= 1 /\ FirstSize \in Nat
  BY DEF Bitcoin!WalletAssumption
<1>4. \A k \in 1 .. c : Cost(k) \in Nat /\ Cost(k) <= B
  BY <1>3, FeesGrow
<1>5. B \in Nat /\ first \in Nat
  <2>1. B \in Nat
    BY <1>3, FeesGrow
  <2>2. FirstSize <= FirstSize
    BY <1>3
  <2>3. first \in Nat
    BY <1>3, <2>2, SizesCost
  <2> QED BY <2>1, <2>3
<1>6. Bitcoin!Total(t) \in Int
  BY Totals
<1> HIDE DEF try
<1>7. ASSUME NEW fee \in Nat
      PROVE  try[fee] = Turn(try, U, amount, r, fee)
  BY <1>1
<1>8. ASSUME NEW fee \in Nat, Bitcoin!Total(t) >= amount + fee,
             \A k \in 1 .. c : fee < Cost(k) => try[Cost(k)] # {}
      PROVE  try[fee] # {}
  <2> DEFINE s == Bitcoin!SelectUTXOs(U, amount + fee)
             sum == Bitcoin!Total(s)
             need == Cost(Cardinality(s))
  <2>1. s \in SUBSET U /\ Cardinality(s) \in 1 .. c /\ sum >= amount + fee
    <3>1. amount + fee \in Int
      OBVIOUS
    <3> QED BY <3>1, <1>8, Selects
  <2>2. sum \in Int /\ need \in Nat
    <3> HIDE DEF s, Cost, c
    <3>1. sum \in Int
      BY <2>1, Totals
    <3> QED BY <2>1, <3>1, <1>4
  <2>3. try[fee] = IF sum < amount + fee THEN {} ELSE IF sum - amount < need THEN try[need] ELSE s
    <3>1. try[fee] = Turn(try, U, amount, r, fee)
      BY <1>7
    <3> QED BY <3>1 DEF Turn
  <2>4. ASSUME sum - amount < need PROVE try[need] # {}
    <3> DEFINE j == Cardinality(s)
    <3>1. fee < need
      <4> HIDE DEF sum, need
      <4> QED BY <2>1, <2>2, <2>4
    <3>2. need = Cost(j) /\ j \in 1 .. c
      BY <2>1
    <3> HIDE DEF j, need, Cost, c
    <3> QED BY <3>1, <3>2, <1>8
  <2>5. s # {}
    <3>1. Cardinality(s) # 0
      <4> HIDE DEF s, c
      <4> QED BY <2>1, <1>3
    <3>2. Cardinality({}) = 0
      BY FS_EmptySet
    <3> HIDE DEF s
    <3> QED BY <3>1, <3>2
  <2>6. ~ (sum < amount + fee)
    <3> HIDE DEF sum
    <3> QED BY <2>1, <2>2
  <2> HIDE DEF s, sum, need
  <2> QED BY <2>3, <2>4, <2>5, <2>6
<1>9. ASSUME NEW n \in Nat, \A m \in Nat : m < n => m \in G PROVE n \in G
  <2> SUFFICES ASSUME NEW k \in 1 .. c, B - Cost(k) = n PROVE try[Cost(k)] # {}
    OBVIOUS
  <2> DEFINE fee == Cost(k)
  <2>1. fee \in Nat /\ fee <= B
    BY <1>4
  <2>2. Bitcoin!Total(t) >= amount + fee
    <3> HIDE DEF fee
    <3> QED BY <2>1, <1>5, <1>6
  <2>3. ASSUME NEW j \in 1 .. c, fee < Cost(j) PROVE try[Cost(j)] # {}
    <3> DEFINE m == B - Cost(j)
    <3>1. m \in Nat /\ m < n
      <4>1. Cost(j) \in Nat /\ Cost(j) <= B /\ n = B - fee
        BY <1>4
      <4> HIDE DEF Cost, B, fee
      <4> QED BY <4>1, <2>1, <2>3, <1>5
    <3>2. m \in G
      <4> HIDE DEF m, G
      <4> QED BY <3>1, <1>9
    <3> HIDE DEF Cost, c, B
    <3> QED BY <3>2
  <2> HIDE DEF fee, c
  <2>4. try[fee] # {}
    BY <2>1, <2>2, <2>3, <1>8
  <2> QED BY <2>4 DEF fee
<1> HIDE DEF G
<1>10. \A n \in Nat : n \in G
  BY <1>9, AllNaturals
<1>11. ASSUME NEW k \in 1 .. c PROVE try[Cost(k)] # {}
  <2> DEFINE n == B - Cost(k)
  <2>1. n \in Nat
    <3>1. Cost(k) \in Nat /\ Cost(k) <= B
      BY <1>4
    <3> HIDE DEF Cost, B
    <3> QED BY <3>1, <1>5
  <2>2. n \in G
    <3> HIDE DEF n
    <3> QED BY <2>1, <1>10
  <2> HIDE DEF Cost, c, B
  <2> QED BY <2>1, <2>2 DEF G
<1> HIDE DEF first, Cost, c
<1>12. try[first] # {}
  <2>1. Bitcoin!Total(t) >= amount + first
    BY DEF first
  <2> QED BY <2>1, <1>5, <1>8, <1>11
<1> QED BY <1>2, <1>12

-------------------------------------------------------------------------------
(*****************************************************************************)
(* The transfers of bitcoin: what they pay.                                  *)
(*****************************************************************************)
(* A coin that was there at the start, or that a transaction handed over     *)
(* made: what it is worth does not change any more.                          *)
Known(c) == c \in Bitcoin!Coins \/ (c \in Payments /\ btcHanded[c] # "no")

(* The fee of t is not beyond its bounds.                                    *)
FeeFits(t) ==
  /\ tx[t].total \in Int /\ tx[t].pays \in Int
  /\ Bitcoin!Fee(t) < Bitcoin!FeeLimit(t, rate[t], Cardinality(tx[t].in))

(* A list has one value for each coin, and the coins are known.  What is     *)
(* made of it spends some of its coins, for what the list says; from Verify  *)
(* on, for what they are worth.                                              *)
FeeCall(t) ==
  /\ IsFiniteSet(list[t]) /\ tx[t].change \in Int
  /\ \A x \in list[t] : x.value \in Int
  /\ \A x, y \in list[t] : x.coin = y.coin => x = y
  /\ btcPc[t] \in Choosing => \A x \in list[t] : Known(x.coin)
  /\ btcPc[t] \in {"verify", "post"} =>
       /\ FeeFits(t)
       /\ \E s \in SUBSET list[t] : /\ tx[t].in = {x.coin : x \in s}
                                    /\ tx[t].total = Bitcoin!Total(s)
  /\ btcPc[t] = "post" /\ t \in Verifying =>
       \A x \in list[t] : x.coin \in tx[t].in => x.value = WorthIn(tx, x.coin)
  /\ btcHanded[t] # "no" \/ t \in late => \A c \in tx[t].in : Known(c)
  /\ (btcHanded[t] # "no" \/ t \in late) /\ t \in Verifying =>
       /\ FeeFits(t) /\ Bitcoin!SignedWell(t)
       /\ Paid(tx, tx[t].in) = tx[t].total

FeeInv == rate = [t \in Payments |-> rate[t]] /\ \A t \in Payments : FeeCall(t)

(* The initial states satisfy it.                                            *)
LEMMA FeeInit == Bitcoin!Init => FeeInv
<1> SUFFICES ASSUME Bitcoin!Init PROVE FeeInv
  OBVIOUS
<1>1. rate = [t \in Payments |-> rate[t]]
  BY DEF Bitcoin!Init
<1>2. ASSUME NEW t \in Payments PROVE FeeCall(t)
  <2>1. /\ btcPc[t] = "start" /\ list[t] = {} /\ tx[t].change = 0
        /\ btcHanded[t] = "no" /\ t \notin late
    BY DEF Bitcoin!Init, Bitcoin!NoTx
  <2> QED BY <2>1, FS_EmptySet DEF FeeCall, Choosing
<1> QED BY <1>1, <1>2 DEF FeeInv

(* What is handed over stays so, and as it is.                               *)
HandedStay == \A v \in Payments : btcHanded[v] # "no" => btcHanded'[v] # "no" /\ tx'[v] = tx[v]

(* Then known coins stay known and are worth what they were.                 *)
LEMMA KnownStay ==
  ASSUME HandedStay, NEW c, Known(c)
  PROVE  Known(c)' /\ WorthIn(tx', c) = WorthIn(tx, c)
<1>1. Known(c)'
  BY DEF HandedStay, Known, Bitcoin!Coins
<1>2. WorthIn(tx', c) = WorthIn(tx, c)
  BY DEF HandedStay, Known, WorthIn
<1> QED BY <1>1, <1>2

(* And so does what they add up to.                                          *)
LEMMA PaidStay ==
  ASSUME HandedStay, NEW T, \A c \in T : Known(c)
  PROVE  Paid(tx', T) = Paid(tx, T)
<1>1. \A c \in T : WorthIn(tx', c) = WorthIn(tx, c)
  BY KnownStay
<1>2. [c \in T |-> WorthIn(tx', c)] = [c \in T |-> WorthIn(tx, c)]
  BY <1>1
<1>3. Paid(tx', T) = Sum([c \in T |-> WorthIn(tx', c)], T)
  BY PaidIsSum
<1>4. Paid(tx, T) = Sum([c \in T |-> WorthIn(tx, c)], T)
  BY PaidIsSum
<1> QED BY <1>2, <1>3, <1>4

(* A call keeps to it as long as others move, or itself without a list.      *)
LEMMA FeeKept ==
  ASSUME FeeInv, HandedStay, NEW u \in Payments,
         tx'[u] = tx[u], rate'[u] = rate[u],
         \/ list'[u] = list[u] /\ (btcPc'[u] \in Choosing => btcPc'[u] = btcPc[u])
         \/ list'[u] = {} /\ btcPc'[u] \notin Choosing,
         btcHanded'[u] # "no" \/ u \in late' => btcHanded[u] # "no" \/ u \in late
  PROVE  FeeCall(u)'
<1>1. FeeCall(u)
  BY DEF FeeInv
<1>2. /\ IsFiniteSet(list'[u]) /\ tx'[u].change \in Int
      /\ \A x \in list'[u] : x.value \in Int
      /\ \A x, y \in list'[u] : x.coin = y.coin => x = y
  BY <1>1, FS_EmptySet DEF FeeCall
<1>3. FeeFits(u) => FeeFits(u)'
  BY DEF FeeFits, Bitcoin!Fee, Bitcoin!Size
<1>4. btcPc'[u] \in Choosing => \A x \in list'[u] : Known(x.coin)'
  BY <1>1, KnownStay DEF FeeCall
<1>5. btcPc'[u] \in {"verify", "post"} =>
        /\ FeeFits(u)'
        /\ \E s \in SUBSET list'[u] : /\ tx'[u].in = {x.coin : x \in s}
                                      /\ tx'[u].total = Bitcoin!Total(s)
  BY <1>1, <1>3 DEF FeeCall, Choosing
<1>6. btcPc'[u] = "post" /\ u \in Verifying =>
        \A x \in list'[u] : x.coin \in tx'[u].in => x.value = WorthIn(tx', x.coin)
  <2> SUFFICES ASSUME btcPc'[u] = "post", u \in Verifying, NEW x \in list'[u], x.coin \in tx'[u].in
               PROVE  x.value = WorthIn(tx', x.coin)
    OBVIOUS
  <2>1. list'[u] = list[u] /\ btcPc[u] = "post"
    BY DEF Choosing
  <2>2. Known(x.coin) /\ x.value = WorthIn(tx, x.coin)
    BY <1>1, <2>1 DEF FeeCall, Choosing
  <2>3. WorthIn(tx', x.coin) = WorthIn(tx, x.coin)
    BY <2>2, KnownStay
  <2> QED BY <2>2, <2>3
<1>7. ASSUME btcHanded'[u] # "no" \/ u \in late'
      PROVE  /\ \A c \in tx'[u].in : Known(c)'
             /\ u \in Verifying => /\ FeeFits(u)' /\ Bitcoin!SignedWell(u)'
                                   /\ Paid(tx', tx'[u].in) = tx'[u].total
  <2>1. \A c \in tx[u].in : Known(c)
    BY <1>1, <1>7 DEF FeeCall
  <2>2. \A c \in tx'[u].in : Known(c)'
    BY <2>1, KnownStay
  <2>3. Paid(tx', tx[u].in) = Paid(tx, tx[u].in)
    BY <2>1, PaidStay
  <2>4. u \in Verifying => FeeFits(u) /\ Bitcoin!SignedWell(u) /\ Paid(tx, tx[u].in) = tx[u].total
    BY <1>1, <1>7 DEF FeeCall
  <2>5. Bitcoin!SignedWell(u) => Bitcoin!SignedWell(u)'
    BY DEF Bitcoin!SignedWell, Bitcoin!Fee
  <2> QED BY <2>2, <2>3, <2>4, <2>5, <1>3
<1> QED BY <1>2, <1>4, <1>5, <1>6, <1>7 DEF FeeCall

(* A call that hands its transaction over has checked the fee.               *)
LEMMA FeePosts ==
  ASSUME FeeInv, HandedStay, NEW t \in Payments, btcPc[t] = "post", Bitcoin!SignedWell(t),
         UNCHANGED <<rate, tx>>, list'[t] = {}, btcPc'[t] \notin Choosing
  PROVE  FeeCall(t)'
<1>1. FeeCall(t)
  BY DEF FeeInv
<1>2. PICK s \in SUBSET list[t] : tx[t].in = {x.coin : x \in s} /\ tx[t].total = Bitcoin!Total(s)
  BY <1>1 DEF FeeCall
<1>3. \A c \in tx[t].in : Known(c)
  BY <1>1, <1>2 DEF FeeCall, Choosing
<1>4. t \in Verifying => Paid(tx, tx[t].in) = tx[t].total
  <2> SUFFICES ASSUME t \in Verifying PROVE Paid(tx, tx[t].in) = tx[t].total
    OBVIOUS
  <2>1. /\ IsFiniteSet(s) /\ \A x \in s : x.value \in Int
        /\ \A x, y \in s : x.coin = y.coin => x = y
    BY <1>1, FS_Subset DEF FeeCall
  <2>2. \A x \in s : x.value = WorthIn(tx, x.coin)
    BY <1>1, <1>2 DEF FeeCall
  <2>3. Paid(tx, {x.coin : x \in s}) = Bitcoin!Total(s)
    BY <2>1, <2>2, SameSum
  <2> QED BY <1>2, <2>3
<1>5. Paid(tx', tx[t].in) = Paid(tx, tx[t].in)
  BY <1>3, PaidStay
<1>6. \A c \in tx'[t].in : Known(c)'
  BY <1>3, KnownStay
<1>7. FeeFits(t)'
  BY <1>1 DEF FeeCall, FeeFits, Bitcoin!Fee, Bitcoin!Size
<1>8. Bitcoin!SignedWell(t)'
  BY DEF Bitcoin!SignedWell, Bitcoin!Fee
<1>9. tx'[t].change \in Int /\ IsFiniteSet(list'[t])
  BY <1>1, FS_EmptySet DEF FeeCall
<1> QED BY <1>4, <1>5, <1>6, <1>7, <1>8, <1>9 DEF FeeCall, Choosing

(* An error leaves neither a list nor a transaction.                         *)
LEMMA FeeFails ==
  ASSUME BtcInv, FeeInv, NEW t \in Payments,
         NEW step \in {"list", "author", "verify", "post"}, Bitcoin!Fail(t, step)
  PROVE  FeeInv'
<1>1. /\ btcPc[t] = step /\ list' = [list EXCEPT ![t] = {}]
      /\ tx' = [tx EXCEPT ![t] = Bitcoin!NoTx] /\ btcPc' = [btcPc EXCEPT ![t] = "done"]
      /\ UNCHANGED <<rate, btcHanded, late>>
  BY DEF Bitcoin!Fail, Bitcoin!Tell, Bitcoin!GoTo, Bitcoin!netVars
<1>2. btcHanded[t] = "no" /\ t \notin late
  BY <1>1 DEF BtcInv, BtcCalls, BtcCall, Choosing
<1>3. /\ DOMAIN list = Payments /\ DOMAIN tx = Payments /\ DOMAIN btcPc = Payments
  BY DEF BtcInv, BtcCalls
<1>4. HandedStay
  BY <1>1, <1>2, <1>3 DEF HandedStay
<1>5. FeeCall(t)'
  <2>1. list'[t] = {} /\ tx'[t].change = 0 /\ btcPc'[t] = "done" /\ btcHanded'[t] = "no" /\ t \notin late'
    BY <1>1, <1>2, <1>3 DEF Bitcoin!NoTx
  <2> QED BY <2>1, FS_EmptySet DEF FeeCall, Choosing
<1>6. ASSUME NEW u \in Payments, u # t PROVE FeeCall(u)'
  <2>1. list'[u] = list[u] /\ tx'[u] = tx[u] /\ btcPc'[u] = btcPc[u]
    BY <1>1, <1>3, <1>6
  <2> QED BY <1>1, <1>4, <2>1, FeeKept
<1> QED BY <1>1, <1>5, <1>6 DEF FeeInv

(* What the index says has one value for each coin.                          *)
LEMMA FeeReads ==
  ASSUME Bitcoin!WalletAssumption, BtcInv, FeeInv, NEW t \in Payments,
         NEW utxos \in Bitcoin!Readings(t)
  PROVE  /\ IsFiniteSet(utxos) /\ \A x \in utxos : x.value \in Int /\ Known(x.coin)
         /\ \A x, y \in utxos : x.coin = y.coin => x = y
<1> DEFINE C == Bitcoin!Unspent(t)
           R(c) == [coin |-> c, value |-> Bitcoin!Worth(c)]
           real == {R(c) : c \in C}
           M(m, u) == IF u.coin = m.coin THEN m ELSE u
<1>1. utxos = real \/ \E m \in Misread : utxos = {M(m, u) : u \in real}
  BY DEF Bitcoin!Readings
<1>2. IsFiniteSet(C) /\ \A c \in C : Known(c)
  <2>1. C \subseteq Bitcoin!Coins \cup indexed /\ indexed \subseteq Payments
    BY DEF Bitcoin!Unspent, BtcInv, BtcPool
  <2>2. IsFiniteSet(Payments) /\ IsFiniteSet(Bitcoin!Coins)
    BY DEF Bitcoin!WalletAssumption, Bitcoin!IsFiniteSet, IsFiniteSet
  <2>3. IsFiniteSet(Bitcoin!Coins \cup Payments)
    BY <2>2, FS_Union
  <2>4. IsFiniteSet(C)
    BY <2>1, <2>3, FS_Subset
  <2>5. \A c \in indexed : btcHanded[c] # "no"
    BY DEF BtcInv, BtcPool
  <2> HIDE DEF C
  <2> QED BY <2>1, <2>4, <2>5 DEF Known
<1>3. \A c \in C : Bitcoin!Worth(c) \in Int
  <2> HIDE DEF C
  <2>1. ASSUME NEW c \in C PROVE Bitcoin!Worth(c) \in Int
    <3>1. CASE c \in Bitcoin!Coins
      BY <3>1 DEF Bitcoin!Worth, Bitcoin!WalletAssumption
    <3>2. CASE c \notin Bitcoin!Coins
      <4>1. c \in Payments
        BY <1>2, <3>2 DEF Known
      <4>2. tx[c].change \in Int
        BY <4>1 DEF FeeInv, FeeCall
      <4> QED BY <3>2, <4>2 DEF Bitcoin!Worth
    <3> QED BY <3>1, <3>2
  <2> QED BY <2>1
<1> HIDE DEF C
<1>4. IsFiniteSet(real)
  <2>1. [c \in C |-> R(c)] \in Surjection(C, real)
    BY DEF Surjection
  <2> QED BY <1>2, <2>1, FS_Surjection
<1>5. /\ \A x \in real : x.value \in Int /\ Known(x.coin)
      /\ \A x, y \in real : x.coin = y.coin => x = y
  BY <1>2, <1>3
<1> HIDE DEF real
<1>6. ASSUME NEW m \in Misread, utxos = {M(m, u) : u \in real}
      PROVE  /\ IsFiniteSet(utxos) /\ \A x \in utxos : x.value \in Int /\ Known(x.coin)
             /\ \A x, y \in utxos : x.coin = y.coin => x = y
  <2>1. [u \in real |-> M(m, u)] \in Surjection(real, utxos)
    BY <1>6 DEF Surjection
  <2>2. IsFiniteSet(utxos)
    BY <1>4, <2>1, FS_Surjection
  <2>3. m.value \in Int
    BY DEF Bitcoin!WalletAssumption
  <2>4. \A u \in real : M(m, u).coin = u.coin /\ M(m, u).value \in Int
    BY <2>3, <1>5
  <2> HIDE DEF M
  <2>5. \A x \in utxos : x.value \in Int /\ Known(x.coin)
    BY <2>4, <1>5, <1>6
  <2>6. \A x, y \in utxos : x.coin = y.coin => x = y
    BY <2>4, <1>5, <1>6
  <2> QED BY <2>2, <2>5, <2>6
<1> QED BY <1>1, <1>4, <1>5, <1>6

(* There are as many coins as entries of the list for them.                  *)
LEMMA CoinsOf ==
  ASSUME NEW s, IsFiniteSet(s), \A x, y \in s : x.coin = y.coin => x = y
  PROVE  Cardinality({x.coin : x \in s}) = Cardinality(s)
<1> DEFINE f == [x \in s |-> x.coin]
           C == {x.coin : x \in s}
<1>1. f \in Surjection(s, C) /\ f \in Injection(s, C)
  <2>1. f \in [s -> C] /\ \A y \in C : \E x \in s : f[x] = y
    OBVIOUS
  <2>2. \A x, y \in s : f[x] = f[y] => x = y
    OBVIOUS
  <2> HIDE DEF f, C
  <2>3. f \in Surjection(s, C)
    BY <2>1 DEF Surjection
  <2>4. f \in Injection(s, C)
    BY <2>1, <2>2 DEF Injection, IsInjective
  <2> QED BY <2>3, <2>4
<1> HIDE DEF f, C
<1>2. Cardinality(C) = Cardinality(s)
  BY <1>1, FS_Surjection
<1> QED BY <1>2 DEF C

(* A transaction that is made spends coins of the list, with a fee that      *)
(* fits: what is left over is change, or dust, or nothing but the growth of  *)
(* a sweep.                                                                  *)
LEMMA FeeMakes ==
  ASSUME Bitcoin!WalletAssumption, BtcInv, FeeInv, NEW t \in Payments,
         Bitcoin!Author(t) \/ Bitcoin!AuthorSweep(t)
  PROVE  FeeInv'
<1>1. /\ DOMAIN list = Payments /\ DOMAIN tx = Payments /\ DOMAIN btcPc = Payments
      /\ DOMAIN rate = Payments
  BY DEF BtcInv, BtcCalls, FeeInv
<1>2. FeeCall(t) /\ Rates \subseteq Nat \ {0} /\ Overhead \in Nat /\ Dust \in Nat
      /\ Amount[t] \in Nat
  BY DEF FeeInv, Bitcoin!WalletAssumption
<1>3. \A s \in SUBSET list[t] :
        /\ Bitcoin!Total(s) \in Int /\ Cardinality(s) \in Nat
        /\ Cardinality({x.coin : x \in s}) = Cardinality(s)
  <2> SUFFICES ASSUME NEW s \in SUBSET list[t]
               PROVE  /\ Bitcoin!Total(s) \in Int /\ Cardinality(s) \in Nat
                      /\ Cardinality({x.coin : x \in s}) = Cardinality(s)
    OBVIOUS
  <2>1. IsFiniteSet(list[t]) /\ \A x \in list[t] : x.value \in Int
    BY <1>2 DEF FeeCall
  <2>2. IsFiniteSet(s) /\ Cardinality(s) \in Nat
    BY <2>1, FS_Subset, FS_CardinalityType
  <2>3. Bitcoin!Total(s) \in Int
    BY <2>1, Totals
  <2>4. \A x, y \in s : x.coin = y.coin => x = y
    BY <1>2 DEF FeeCall
  <2> QED BY <2>2, <2>3, <2>4, CoinsOf
<1>4. ASSUME NEW r \in Rates, NEW s \in SUBSET list[t], NEW pays \in Int, NEW change \in Int,
             NEW size, Bitcoin!Made(t, r, s, pays, change, size),
             Bitcoin!Total(s) - pays - change < Bitcoin!FeeLimit(t, r, Cardinality(s))
      PROVE  FeeInv'
  <2>1. /\ btcPc[t] = "author" /\ rate' = [rate EXCEPT ![t] = r]
        /\ tx' = [tx EXCEPT ![t] = [in |-> {u.coin : u \in s}, total |-> Bitcoin!Total(s),
                                    pays |-> pays, change |-> change, size |-> size]]
        /\ btcPc' = [btcPc EXCEPT ![t] = IF t \in Verifying THEN "verify" ELSE "post"]
        /\ UNCHANGED <<list, btcHanded, late>>
    BY <1>4 DEF Bitcoin!Made, Bitcoin!GoTo, Bitcoin!netVars
  <2>2. btcHanded[t] = "no" /\ t \notin late
    BY <2>1 DEF BtcInv, BtcCalls, BtcCall, Choosing
  <2>3. HandedStay
    BY <2>1, <2>2, <1>1 DEF HandedStay
  <2>4. ASSUME NEW u \in Payments, u # t PROVE FeeCall(u)'
    <3>1. tx'[u] = tx[u] /\ rate'[u] = rate[u] /\ btcPc'[u] = btcPc[u]
      BY <2>1, <2>4, <1>1
    <3> QED BY <2>1, <2>3, <3>1, FeeKept
  <2>5. /\ tx'[t].in = {x.coin : x \in s} /\ tx'[t].total = Bitcoin!Total(s)
        /\ tx'[t].pays = pays /\ tx'[t].change = change /\ rate'[t] = r
        /\ btcPc'[t] = IF t \in Verifying THEN "verify" ELSE "post"
    BY <2>1, <1>1
  <2>6. FeeFits(t)'
    <3>1. Cardinality(tx'[t].in) = Cardinality(s)
      BY <2>5, <1>3
    <3>2. Bitcoin!Total(s) \in Int
      BY <1>3
    <3>3. Bitcoin!Fee(t)' = Bitcoin!Total(s) - pays - change
      BY <2>5 DEF Bitcoin!Fee
    <3>4. Bitcoin!FeeLimit(t, r, Cardinality(s))'
            = Bitcoin!FeeLimit(t, r, Cardinality(s))
      OBVIOUS
    <3> QED BY <2>5, <3>1, <3>2, <3>3, <3>4, <1>4
            DEF FeeFits, Bitcoin!FeeLimit, Bitcoin!Size, Bitcoin!SizeLimit
  <2>7. \A x \in list'[t] : Known(x.coin)'
    BY <1>2, <2>1, <2>3, KnownStay DEF FeeCall, Choosing
  <2>8. FeeCall(t)'
    <3>1. /\ IsFiniteSet(list'[t]) /\ tx'[t].change \in Int
          /\ \A x \in list'[t] : x.value \in Int
          /\ \A x, y \in list'[t] : x.coin = y.coin => x = y
      BY <1>2, <2>1, <2>5 DEF FeeCall
    <3>2. \E q \in SUBSET list'[t] : tx'[t].in = {x.coin : x \in q} /\ tx'[t].total = Bitcoin!Total(q)
      BY <2>1, <2>5
    <3>3. btcHanded'[t] = "no" /\ t \notin late' /\ ~ (btcPc'[t] = "post" /\ t \in Verifying)
      BY <2>1, <2>2, <2>5
    <3> QED BY <2>6, <2>7, <3>1, <3>2, <3>3 DEF FeeCall
  <2>9. rate' = [u \in Payments |-> rate'[u]]
    BY <2>1, <1>1
  <2> QED BY <2>4, <2>8, <2>9 DEF FeeInv
<1>5. CASE Bitcoin!Author(t)
  <2>1. PICK r \in Rates, s \in SUBSET list[t] :
          /\ t \notin Sweep
          /\ \E size : Bitcoin!Made(t, r, s, Amount[t],
               Bitcoin!Change(Bitcoin!Total(s) - Amount[t] - r * Bitcoin!Size(Cardinality(s))), size)
    BY <1>5, BtcCounts DEF Bitcoin!Author
  <2> DEFINE k == r * Bitcoin!Size(Cardinality(s))
             sum == Bitcoin!Total(s)
             rest == sum - Amount[t] - k
             change == Bitcoin!Change(rest)
             slack == Bitcoin!Max({Dust, 1})
  <2>2. k \in Nat /\ sum \in Int
    <3>1. r \in Nat /\ Cardinality(s) \in Nat /\ sum \in Int
      BY <1>2, <1>3
    <3>2. Cardinality(s) <= Cardinality(s)
      BY <3>1
    <3> QED BY <3>1, <3>2, FeesGrow
  <2>3. slack \in Nat /\ slack >= Dust /\ slack >= 1
    <3>1. \E m \in {Dust, 1} : \A n \in {Dust, 1} : m >= n
      BY <1>2
    <3>2. slack \in {Dust, 1} /\ \A n \in {Dust, 1} : slack >= n
      BY <3>1 DEF Bitcoin!Max
    <3> QED BY <3>2, <1>2
  <2>4. change = IF rest < Dust THEN 0 ELSE rest
    BY DEF Bitcoin!Change
  <2>5. PICK size : Bitcoin!Made(t, r, s, Amount[t], change, size)
    BY <2>1
  <2>6. change \in Int /\ sum - Amount[t] - change < k + slack
    <3> HIDE DEF k, sum, slack, change
    <3> QED BY <2>2, <2>3, <2>4, <1>2
  <2> HIDE DEF change
  <2>7. sum - Amount[t] - change < Bitcoin!FeeLimit(t, r, Cardinality(s))
    BY <2>1, <2>6 DEF Bitcoin!FeeLimit
  <2>8. Amount[t] \in Int
    BY <1>2
  <2> QED BY <2>5, <2>6, <2>7, <2>8, <1>4
<1>6. CASE Bitcoin!AuthorSweep(t)
  <2> DEFINE s == list[t]
             n == Bitcoin!Size(Cardinality(s))
             limit == Bitcoin!SizeLimit(t, Cardinality(s))
             sum == Bitcoin!Total(s)
  <2>1. PICK r \in Rates, paid \in n .. limit, size \in n .. limit :
          t \in Sweep /\ Bitcoin!Made(t, r, s, sum - r * paid, 0, size)
    BY <1>6, BtcCounts DEF Bitcoin!AuthorSweep, Bitcoin!SignedSizes
  <2>2. sum \in Int /\ n \in Nat /\ limit \in Nat /\ r \in Nat
    <3>1. s \in SUBSET list[t]
      OBVIOUS
    <3>2. sum \in Int /\ Cardinality(s) \in Nat
      BY <3>1, <1>3
    <3>3. n \in Nat
      BY <3>2, <1>2 DEF Bitcoin!Size
    <3>4. limit \in Nat
      <4>1. Growth \in Nat
        BY DEF Bitcoin!WalletAssumption
      <4> DEFINE k == Cardinality(s)
                 more == Growth * k
      <4>2. more \in Nat
        <5> HIDE DEF k
        <5> QED BY <4>1, <3>2 DEF k
      <4>3. limit = n + IF t \in Legacy THEN more ELSE 0
        BY DEF Bitcoin!SizeLimit
      <4> HIDE DEF more, n, limit
      <4> QED BY <4>2, <4>3, <3>3
    <3> QED BY <3>2, <3>3, <3>4, <1>2
  <2> DEFINE fee == r * paid
             top == r * limit
             pays == sum - fee
  <2>3. fee \in Nat /\ top \in Nat /\ fee <= top
    <3> HIDE DEF n, limit
    <3>1. paid \in Nat /\ paid <= limit
      BY <2>1, <2>2
    <3> QED BY <3>1, <2>2, SizesCost
  <2>4. s \in SUBSET list[t] /\ 0 \in Int
    OBVIOUS
  <2>5. Bitcoin!Made(t, r, s, pays, 0, size)
    BY <2>1
  <2>6. Bitcoin!FeeLimit(t, r, Cardinality(s)) = top + 1
    BY <2>1 DEF Bitcoin!FeeLimit
  <2>7. pays \in Int /\ sum - pays - 0 < Bitcoin!FeeLimit(t, r, Cardinality(s))
    <3>1. pays = sum - fee
      OBVIOUS
    <3> HIDE DEF sum, fee, top, pays
    <3> QED BY <2>2, <2>3, <2>6, <3>1
  <2> HIDE DEF pays
  <2> QED BY <2>4, <2>5, <2>7, <1>4
<1> QED BY <1>5, <1>6

(* Every step keeps to the fees.                                             *)
LEMMA FeeStep ==
  ASSUME Bitcoin!WalletAssumption, BtcInv, FeeInv, [Bitcoin!Next]_btcVars
  PROVE  FeeInv'
<1>0. /\ DOMAIN list = Payments /\ DOMAIN tx = Payments /\ DOMAIN btcPc = Payments
      /\ rate = [u \in Payments |-> rate[u]]
      /\ \A u \in Payments : BtcCall(u)
  BY DEF BtcInv, BtcCalls, FeeInv
<1>1. CASE UNCHANGED btcVars
  <2>1. /\ UNCHANGED <<list, tx, rate, btcPc, btcHanded, late>>
    BY <1>1 DEF btcVars
  <2>2. HandedStay
    BY <2>1 DEF HandedStay
  <2>3. \A u \in Payments : FeeCall(u)'
    BY <2>1, <2>2, FeeKept
  <2> QED BY <2>1, <2>3, <1>0 DEF FeeInv
<1>2. ASSUME NEW t \in Payments, UNCHANGED <<list, tx, rate, late, btcHanded>>,
             \A u \in Payments : btcPc'[u] \in Choosing => btcPc'[u] = btcPc[u]
      PROVE  FeeInv'
  <2>1. HandedStay
    BY <1>2 DEF HandedStay
  <2>2. \A u \in Payments : FeeCall(u)'
    BY <1>2, <2>1, FeeKept
  <2> QED BY <1>2, <2>2, <1>0 DEF FeeInv
<1>3. ASSUME NEW t \in Payments,
             Bitcoin!Start(t) \/ Bitcoin!Lock(t) \/ Bitcoin!TellLost(t) \/ Bitcoin!Sent(t)
             \/ Bitcoin!Wait(t)
      PROVE  FeeInv'
  <2>1. UNCHANGED <<list, tx, rate, late, btcHanded>>
    BY <1>3 DEF Bitcoin!Start, Bitcoin!Lock, Bitcoin!TellLost, Bitcoin!Sent, Bitcoin!Wait,
                Bitcoin!netVars
  <2>2. \E step \in {"lock", "done", "list", "wait"} : btcPc' = [btcPc EXCEPT ![t] = step]
    BY <1>3 DEF Bitcoin!Start, Bitcoin!Lock, Bitcoin!TellLost, Bitcoin!Sent, Bitcoin!Wait,
                Bitcoin!Tell, Bitcoin!GoTo
  <2>3. \A u \in Payments : btcPc'[u] \in Choosing => btcPc'[u] = btcPc[u]
    BY <2>2, <1>0 DEF Choosing
  <2> QED BY <2>1, <2>3, <1>2
<1>4. ASSUME NEW t \in Payments, Bitcoin!ListUnspent(t), ~ Bitcoin!Fail(t, "list") PROVE FeeInv'
  <2>1. PICK utxos \in Bitcoin!Readings(t) : list' = [list EXCEPT ![t] = utxos]
    BY <1>4 DEF Bitcoin!ListUnspent
  <2>2. /\ btcPc[t] = "list" /\ btcPc' = [btcPc EXCEPT ![t] = "author"]
        /\ UNCHANGED <<rate, tx, btcHanded, late>>
    BY <1>4 DEF Bitcoin!ListUnspent, Bitcoin!GoTo, Bitcoin!netVars
  <2>3. btcHanded[t] = "no" /\ t \notin late
    BY <1>0, <2>2 DEF BtcCall
  <2>4. HandedStay
    BY <2>2 DEF HandedStay
  <2>5. FeeCall(t)'
    <3>1. /\ IsFiniteSet(utxos) /\ \A x \in utxos : x.value \in Int /\ Known(x.coin)
          /\ \A x, y \in utxos : x.coin = y.coin => x = y
      BY FeeReads
    <3>2. list'[t] = utxos /\ btcPc'[t] = "author" /\ tx'[t].change \in Int
      BY <1>0, <2>1, <2>2 DEF FeeInv, FeeCall
    <3>3. \A x \in list'[t] : Known(x.coin)'
      BY <3>1, <3>2, <2>4, KnownStay
    <3> QED BY <3>1, <3>2, <3>3, <2>2, <2>3 DEF FeeCall
  <2>6. ASSUME NEW u \in Payments, u # t PROVE FeeCall(u)'
    <3>1. list'[u] = list[u] /\ btcPc'[u] = btcPc[u]
      BY <1>0, <2>1, <2>2, <2>6
    <3> QED BY <2>2, <2>4, <3>1, FeeKept
  <2> QED BY <2>2, <2>5, <2>6, <1>0 DEF FeeInv
<1>5. ASSUME NEW t \in Payments, Bitcoin!Verify(t), ~ Bitcoin!Fail(t, "verify") PROVE FeeInv'
  <2>1. /\ btcPc[t] = "verify" /\ btcPc' = [btcPc EXCEPT ![t] = "post"]
        /\ \A x \in list[t] : x.coin \in tx[t].in => x.value = Bitcoin!Worth(x.coin)
        /\ UNCHANGED <<list, rate, tx, btcHanded, late>>
    BY <1>5 DEF Bitcoin!Verify, Bitcoin!GoTo, Bitcoin!netVars
  <2>2. HandedStay
    BY <2>1 DEF HandedStay
  <2>3. FeeCall(t)'
    <3>1. FeeCall(t) /\ btcHanded[t] = "no" /\ t \notin late /\ btcPc'[t] = "post"
      BY <1>0, <2>1 DEF FeeInv, BtcCall, Choosing
    <3>2. \A x \in list'[t] : Known(x.coin)'
      BY <3>1, <2>1, <2>2, KnownStay DEF FeeCall, Choosing
    <3>3. \A x \in list'[t] : x.coin \in tx'[t].in => x.value = WorthIn(tx', x.coin)
      BY <2>1 DEF Bitcoin!Worth, WorthIn
    <3>4. FeeFits(t)'
      BY <3>1, <2>1 DEF FeeCall, FeeFits, Bitcoin!Fee, Bitcoin!Size
    <3>5. /\ IsFiniteSet(list'[t]) /\ tx'[t].change \in Int
          /\ \A x \in list'[t] : x.value \in Int
          /\ \A x, y \in list'[t] : x.coin = y.coin => x = y
          /\ \E s \in SUBSET list'[t] : /\ tx'[t].in = {x.coin : x \in s}
                                        /\ tx'[t].total = Bitcoin!Total(s)
      BY <3>1, <2>1 DEF FeeCall
    <3> QED BY <2>1, <3>1, <3>2, <3>3, <3>4, <3>5 DEF FeeCall
  <2>4. ASSUME NEW u \in Payments, u # t PROVE FeeCall(u)'
    <3>1. btcPc'[u] = btcPc[u]
      BY <1>0, <2>1, <2>4
    <3> QED BY <2>1, <2>2, <3>1, FeeKept
  <2> QED BY <2>1, <2>3, <2>4, <1>0 DEF FeeInv
<1>6. ASSUME NEW t \in Payments, Bitcoin!NodeTakes(t), tx' = tx, tx[t].in # {}, btcHanded[t] = "no"
      PROVE  HandedStay /\ \A u \in Payments \ {t} : btcHanded'[u] # "no" => btcHanded[u] # "no"
  <2>1. /\ btcHanded'[t] = "taken"
        /\ \A v \in Payments \ {t} : \/ btcHanded'[v] = btcHanded[v]
                                     \/ btcHanded[v] = "taken" /\ btcHanded'[v] = "dropped"
    BY <1>6, BtcNodeTakes DEF BtcInv
  <2> QED BY <2>1, <1>6 DEF HandedStay
<1>7. ASSUME NEW t \in Payments, Bitcoin!PostAccepted(t) \/ Bitcoin!PostLost(t) PROVE FeeInv'
  <2>1. \E step \in {"sent", "lost"} : Bitcoin!AfterPost(t, step)
    BY <1>7 DEF Bitcoin!PostAccepted, Bitcoin!PostLost
  <2>2. /\ btcPc[t] = "post" /\ Bitcoin!SignedWell(t) /\ list' = [list EXCEPT ![t] = {}]
        /\ UNCHANGED <<rate, tx>>
        /\ \E step \in {"sent", "lost"} : btcPc' = [btcPc EXCEPT ![t] = step]
    BY <2>1 DEF Bitcoin!AfterPost, Bitcoin!GoTo
  <2>3. btcHanded[t] = "no" /\ t \notin late /\ tx[t].in # {}
    BY <1>0, <2>2 DEF BtcCall, Choosing
  <2>4. \/ Bitcoin!NodeTakes(t) /\ late' = late
        \/ late' = late \cup {t} /\ btcHanded' = btcHanded
    BY <1>7, Zenon DEF Bitcoin!PostAccepted, Bitcoin!PostLost
  <2>5. HandedStay /\ \A u \in Payments \ {t} : btcHanded'[u] # "no" => btcHanded[u] # "no"
    <3>1. CASE Bitcoin!NodeTakes(t)
      BY <3>1, <1>6, <2>2, <2>3
    <3>2. CASE btcHanded' = btcHanded
      BY <3>2, <2>2 DEF HandedStay
    <3> QED BY <2>4, <3>1, <3>2
  <2>6. FeeCall(t)'
    <3>1. list'[t] = {} /\ btcPc'[t] \notin Choosing
      BY <1>0, <2>2 DEF Choosing
    <3> QED BY <2>2, <2>5, <3>1, FeePosts
  <2>7. ASSUME NEW u \in Payments, u # t PROVE FeeCall(u)'
    <3>1. list'[u] = list[u] /\ btcPc'[u] = btcPc[u]
      BY <1>0, <2>2, <2>7
    <3>2. btcHanded'[u] # "no" \/ u \in late' => btcHanded[u] # "no" \/ u \in late
      BY <2>4, <2>5, <2>7
    <3> QED BY <2>2, <2>5, <3>1, <3>2, FeeKept
  <2> QED BY <2>2, <2>6, <2>7, <1>0 DEF FeeInv
<1>8. ASSUME NEW t \in Payments, Bitcoin!LateArrives(t) PROVE FeeInv'
  <2>1. t \in late /\ late' = late \ {t} /\ Bitcoin!NodeTakes(t) /\ UNCHANGED <<list, rate, tx, btcPc>>
    BY <1>8 DEF Bitcoin!LateArrives, Bitcoin!callVars
  <2>2. btcHanded[t] = "no" /\ tx[t].in # {}
    BY <1>0, <2>1 DEF BtcCall
  <2>3. HandedStay /\ \A u \in Payments \ {t} : btcHanded'[u] # "no" => btcHanded[u] # "no"
    BY <1>6, <2>1, <2>2
  <2>4. ASSUME NEW u \in Payments PROVE FeeCall(u)'
    BY <2>1, <2>3, FeeKept
  <2> QED BY <2>1, <2>4, <1>0 DEF FeeInv
<1>9. ASSUME NEW t \in Payments, Bitcoin!Confirm(t) \/ Bitcoin!Evict(t) \/ Bitcoin!Index(t)
      PROVE  FeeInv'
  <2>1. UNCHANGED <<list, rate, tx, btcPc, late>>
    BY <1>9 DEF Bitcoin!Confirm, Bitcoin!Evict, Bitcoin!Index, Bitcoin!callVars
  <2>2. \A u \in Payments : btcHanded'[u] # "no" <=> btcHanded[u] # "no"
    <3>1. CASE Bitcoin!Confirm(t)
      BY <3>1 DEF Bitcoin!Confirm, Bitcoin!InPool, BtcInv, BtcPool
    <3>2. CASE Bitcoin!Evict(t)
      <4>1. t \in Bitcoin!InPool
            /\ btcHanded' = [u \in Payments |-> IF u \in Bitcoin!Descendants({t}) THEN "dropped"
                                                ELSE btcHanded[u]]
        BY <3>2 DEF Bitcoin!Evict
      <4>2. Bitcoin!Descendants({t}) \subseteq Bitcoin!InPool
        BY <4>1, BtcDescendants DEF BtcInv
      <4> QED BY <4>1, <4>2 DEF Bitcoin!InPool
    <3>3. CASE Bitcoin!Index(t)
      BY <3>3 DEF Bitcoin!Index
    <3> QED BY <1>9, <3>1, <3>2, <3>3
  <2>3. HandedStay
    BY <2>1, <2>2 DEF HandedStay
  <2>4. ASSUME NEW u \in Payments PROVE FeeCall(u)'
    BY <2>1, <2>2, <2>3, FeeKept
  <2> QED BY <2>1, <2>4, <1>0 DEF FeeInv
<1>10. ASSUME NEW t \in Payments, NEW step \in {"list", "author", "verify", "post"},
              Bitcoin!Fail(t, step)
       PROVE  FeeInv'
  BY <1>10, FeeFails
<1>11. ASSUME NEW t \in Payments, Bitcoin!Author(t) \/ Bitcoin!AuthorSweep(t) PROVE FeeInv'
  BY <1>11, FeeMakes
<1>12. CASE Bitcoin!Next
  <2>1. PICK t \in Payments :
          \/ Bitcoin!Start(t) \/ Bitcoin!Lock(t) \/ Bitcoin!ListUnspent(t)
          \/ Bitcoin!Author(t) \/ Bitcoin!AuthorSweep(t) \/ Bitcoin!AuthorFails(t)
          \/ Bitcoin!Verify(t)
          \/ Bitcoin!PostRefused(t) \/ Bitcoin!PostAccepted(t) \/ Bitcoin!PostLost(t)
          \/ Bitcoin!TellLost(t) \/ Bitcoin!Sent(t) \/ Bitcoin!Wait(t)
          \/ Bitcoin!LateArrives(t) \/ Bitcoin!Confirm(t) \/ Bitcoin!Evict(t) \/ Bitcoin!Index(t)
    BY <1>12 DEF Bitcoin!Next
  <2>2. CASE Bitcoin!AuthorFails(t) \/ Bitcoin!PostRefused(t)
    BY <2>2, <1>10 DEF Bitcoin!AuthorFails, Bitcoin!PostRefused
  <2> QED BY <2>1, <2>2, <1>3, <1>4, <1>5, <1>7, <1>8, <1>9, <1>10, <1>11
<1> QED BY <1>1, <1>12

(* What it says of the answers and of the fees.                              *)
LEMMA FeesTell ==
  ASSUME Bitcoin!WalletAssumption, FeeInv
  PROVE  FeesAreRight
<1>1. Bitcoin!InsufficientIsTrue
  <2> SUFFICES ASSUME NEW t \in Payments, NEW r \in Rates, NEW s \in SUBSET list[t],
                      Bitcoin!Fund(list[t], Amount[t], r) = {},
                      Bitcoin!Cardinality(s) \in 1 .. MaxInputs
               PROVE  \/ Bitcoin!Total(s) < Amount[t] + r * Bitcoin!Size(Bitcoin!Cardinality(s))
                      \/ Bitcoin!Total(s) < Amount[t] + r * FirstSize
    BY DEF Bitcoin!InsufficientIsTrue
  <2>1. Cardinality(s) \in 1 .. MaxInputs /\ Bitcoin!Cardinality(s) = Cardinality(s)
    BY BtcCounts
  <2>2. /\ IsFiniteSet(list[t]) /\ \A x \in list[t] : x.value \in Int
        /\ Amount[t] \in Nat /\ r \in Nat /\ MaxInputs \in Nat /\ FirstSize \in Nat
    BY DEF FeeInv, FeeCall, Bitcoin!WalletAssumption
  <2> DEFINE k == r * Bitcoin!Size(Cardinality(s))
             first == r * FirstSize
             sum == Bitcoin!Total(s)
  <2>3. ~ (sum >= Amount[t] + k /\ sum >= Amount[t] + first)
    BY <2>1, <2>2, FundFails
  <2>4. sum \in Int /\ k \in Nat /\ first \in Nat
    <3>1. sum \in Int
      BY <2>2, Totals
    <3>2. Cardinality(s) \in Nat /\ Cardinality(s) <= Cardinality(s) /\ FirstSize <= FirstSize
      BY <2>1, <2>2
    <3> QED BY <3>1, <3>2, <2>2, FeesGrow, SizesCost
  <2> HIDE DEF k, sum, first
  <2>5. sum < Amount[t] + k \/ sum < Amount[t] + first
    BY <2>2, <2>3, <2>4
  <2> QED BY <2>1, <2>5 DEF k, sum, first
<1>2. Bitcoin!FeesAreBounded
  <2> SUFFICES ASSUME NEW t \in Payments, btcHanded[t] # "no", t \in Verifying
               PROVE  /\ Bitcoin!TrueFee(t) >= rate[t] * tx[t].size
                      /\ Bitcoin!TrueFee(t)
                           < Bitcoin!FeeLimit(t, rate[t], Bitcoin!Cardinality(tx[t].in))
    BY DEF Bitcoin!FeesAreBounded
  <2>1. FeeFits(t) /\ Bitcoin!SignedWell(t) /\ Paid(tx, tx[t].in) = tx[t].total
    BY DEF FeeInv, FeeCall
  <2>2. Bitcoin!TrueFee(t) = Bitcoin!Fee(t)
    <3>1. Bitcoin!MapThenSumSet(Bitcoin!Worth, tx[t].in) = Paid(tx, tx[t].in)
      BY DEF Bitcoin!MapThenSumSet, Bitcoin!MapThenFoldSet, Paid, WorthIn, Bitcoin!Worth
    <3> QED BY <2>1, <3>1 DEF Bitcoin!TrueFee, Bitcoin!Fee
  <2>3. Bitcoin!Cardinality(tx[t].in) = Cardinality(tx[t].in)
    BY BtcCounts
  <2> QED BY <2>1, <2>2, <2>3 DEF FeeFits, Bitcoin!SignedWell
<1> QED BY <1>1, <1>2 DEF FeesAreRight

-------------------------------------------------------------------------------
(*****************************************************************************)
(* A POP3 session, as the e-mail client uses it.                             *)
(*****************************************************************************)
Values == {NoValue} \cup Messages \cup Nat
Lines  == [n : Nat, kind : Kinds, val : Values]
Stages == {"dial", "handshake", "resp", "lines", "ok", "failed"}

LastDot(lines) == \A i \in 1 .. Len(lines) : lines[i].kind = "dot" => i = Len(lines)

(* What a server sends in answer to a command.                               *)
Answer(lines, long) ==
  lines # <<>> => IF long /\ lines[1].kind = "plus" THEN LastDot(lines) ELSE Len(lines) = 1

(* What it still owes call k of a session in step, the n-th command.         *)
Owes(lines, k, n, longs) ==
  /\ \A i \in 1 .. Len(lines) : lines[i].n = n
  /\ k.stage = "resp" => Answer(lines, k.cmd \in longs)
  /\ k.stage = "lines" => LastDot(lines)
  /\ k.stage \notin {"resp", "lines"} => lines = <<>>

(* Whether an answer ends in time depends on the kinds of its lines.         *)
LEMMA AnswerKinds ==
  ASSUME NEW a \in Seq(Lines), NEW b \in Seq(Lines), Len(a) = Len(b),
         \A i \in 1 .. Len(a) : b[i].kind = a[i].kind, NEW long, Answer(a, long)
  PROVE  Answer(b, long)
<1>1. Len(a) \in Nat /\ (a = <<>> <=> Len(a) = 0) /\ (b = <<>> <=> Len(a) = 0)
  OBVIOUS
<1>2. LastDot(a) => LastDot(b)
  BY <1>1 DEF LastDot
<1> QED BY <1>1, <1>2 DEF Answer

(* What is due after another answer comes of the two.                         *)
LEMMA AnswerAppends ==
  ASSUME NEW lines \in Seq(Lines), NEW more \in Seq(Lines)
  PROVE  /\ lines \o more \in Seq(Lines)
         /\ \A i \in 1 .. Len(lines \o more) :
              \/ \E j \in 1 .. Len(lines) : (lines \o more)[i] = lines[j]
              \/ \E j \in 1 .. Len(more) : (lines \o more)[i] = more[j]
<1>1. /\ lines \o more \in Seq(Lines) /\ Len(lines \o more) = Len(lines) + Len(more)
      /\ \A i \in 1 .. Len(lines) + Len(more) :
           (lines \o more)[i] = IF i <= Len(lines) THEN lines[i] ELSE more[i - Len(lines)]
  OBVIOUS
<1>2. ASSUME NEW i \in 1 .. Len(lines \o more)
      PROVE  \/ \E j \in 1 .. Len(lines) : (lines \o more)[i] = lines[j]
             \/ \E j \in 1 .. Len(more) : (lines \o more)[i] = more[j]
  <2>1. CASE i <= Len(lines)
    BY <1>1, <1>2, <2>1
  <2>2. CASE i > Len(lines)
    <3>1. i - Len(lines) \in 1 .. Len(more) /\ (lines \o more)[i] = more[i - Len(lines)]
      BY <1>1, <1>2, <2>2
    <3> QED BY <3>1
  <2> QED BY <1>1, <2>1, <2>2
<1> QED BY <1>1, <1>2

(* The first line of an answer, and the rest of it.                          *)
LEMMA AnswerReads ==
  ASSUME NEW lines \in Seq(Lines), lines # <<>>
  PROVE  /\ Head(lines) = lines[1] /\ lines[1] \in Lines /\ Tail(lines) \in Seq(Lines)
         /\ \A i \in 1 .. Len(Tail(lines)) : \E j \in 1 .. Len(lines) : Tail(lines)[i] = lines[j]
         /\ \A long : Answer(lines, long) =>
              IF long /\ lines[1].kind = "plus" THEN LastDot(Tail(lines)) ELSE Tail(lines) = <<>>
         /\ LastDot(lines) => LastDot(Tail(lines)) /\ (lines[1].kind = "dot" => Tail(lines) = <<>>)
<1> DEFINE tail == Tail(lines)
<1>1. /\ tail \in Seq(Lines) /\ Len(lines) \in Nat /\ Len(lines) >= 1
      /\ Len(tail) = Len(lines) - 1
      /\ Head(lines) = lines[1] /\ lines[1] \in Lines
      /\ \A i \in 1 .. Len(tail) : tail[i] = lines[i + 1]
  OBVIOUS
<1> HIDE DEF tail
<1>2. \A i \in 1 .. Len(tail) : i + 1 \in 1 .. Len(lines)
  BY <1>1
<1>3. Len(lines) = 1 => tail = <<>>
  BY <1>1
<1>4. ASSUME LastDot(lines)
      PROVE  LastDot(tail) /\ (lines[1].kind = "dot" => tail = <<>>)
  <2>1. \A i \in 1 .. Len(tail) : tail[i].kind = "dot" => i + 1 = Len(lines)
    BY <1>1, <1>2, <1>4 DEF LastDot
  <2>2. \A i \in 1 .. Len(tail) : i + 1 = Len(lines) => i = Len(tail)
    BY <1>1
  <2>3. lines[1].kind = "dot" => 1 = Len(lines)
    BY <1>1, <1>4 DEF LastDot
  <2> QED BY <1>3, <2>1, <2>2, <2>3 DEF LastDot
<1>5. \A long : Answer(lines, long) =>
        IF long /\ lines[1].kind = "plus" THEN LastDot(tail) ELSE tail = <<>>
  BY <1>3, <1>4 DEF Answer
<1>6. \A i \in 1 .. Len(tail) : \E j \in 1 .. Len(lines) : tail[i] = lines[j]
  BY <1>1, <1>2
<1> QED BY <1>1, <1>4, <1>5, <1>6 DEF tail

(* A line of which a part was lost may look like anything.                   *)
LEMMA AnswerGarbles ==
  ASSUME NEW lines \in Seq(Lines), lines # <<>>, NEW k \in Kinds
  PROVE  /\ [lines EXCEPT ![1].kind = k] \in Seq(Lines)
         /\ Len([lines EXCEPT ![1].kind = k]) = Len(lines)
         /\ \A i \in 1 .. Len(lines) : /\ [lines EXCEPT ![1].kind = k][i].n = lines[i].n
                                       /\ [lines EXCEPT ![1].kind = k][i].kind \in Kinds
<1>1. /\ 1 \in 1 .. Len(lines) /\ lines[1] \in Lines
      /\ [lines EXCEPT ![1].kind = k] = [lines EXCEPT ![1] = [lines[1] EXCEPT !.kind = k]]
  OBVIOUS
<1>2. /\ [lines[1] EXCEPT !.kind = k] \in Lines
      /\ [lines[1] EXCEPT !.kind = k].n = lines[1].n
      /\ [lines[1] EXCEPT !.kind = k].kind = k
  BY <1>1 DEF Lines
<1>3. \A i \in 1 .. Len(lines) : lines[i].kind \in Kinds
  <2> TAKE i \in 1 .. Len(lines)
  <2>1. lines[i] \in Lines
    OBVIOUS
  <2> QED BY <2>1 DEF Lines
<1> QED BY <1>1, <1>2, <1>3

(* The state behind SessionsInStep: a session in which no call has slipped   *)
(* has nothing due but the rest of the answer to the last command.           *)
SessionInv ==
  /\ TypeOK
  /\ due \in Seq(Lines)
  /\ call \in [cmd : ShortCmds \cup LongCmds \cup {"connect", "stls"}, stage : Stages,
               own : BOOLEAN, got : SUBSET Values]
  /\ ~slipped => call.own /\ Owes(due, call, issued, LongCmds)
  /\ call.stage = "dial" => issued = 0 /\ due = <<>> /\ ~slipped /\ ~tlsEstablished
                            /\ call.cmd = "connect" /\ conn = "none"
  /\ call.stage = "handshake" => /\ ~tlsEstablished
                                 /\ call.cmd = "connect" \/ (call.cmd = "stls" /\ ~Implicit)
                                 /\ call.cmd = "connect" => issued = 0 /\ ~slipped
  /\ call.stage = "resp" /\ call.cmd = "stls" => ~tlsEstablished /\ ~Implicit
  /\ call.stage = "lines" => call.cmd \in LongCmds
  /\ call.stage = "resp" \/ (call.stage \in {"dial", "handshake"} /\ call.cmd = "connect") =>
       call.got = {}
  /\ conn # "none" => /\ tlsEstablished => conn = "tls"
                      /\ Implicit => conn = "tls" \/ call.stage = "handshake"

(* An answer carries the number of its command.                              *)
LEMMA SessionNumbers ==
  ASSUME NEW answer \in Seq(Lines), issued \in Nat
  PROVE  /\ Numbered(answer) \in Seq(Lines) /\ Len(Numbered(answer)) = Len(answer)
         /\ \A i \in 1 .. Len(answer) : /\ Numbered(answer)[i].n = issued + 1
                                        /\ Numbered(answer)[i].kind = answer[i].kind
                                        /\ Numbered(answer)[i].val = answer[i].val
                                        /\ Numbered(answer)[i].kind \in Kinds
<1>1. \A i \in 1 .. Len(answer) :
        /\ [answer[i] EXCEPT !.n = issued + 1] \in Lines
        /\ [answer[i] EXCEPT !.n = issued + 1].n = issued + 1
        /\ [answer[i] EXCEPT !.n = issued + 1].kind = answer[i].kind
        /\ [answer[i] EXCEPT !.n = issued + 1].val = answer[i].val
        /\ answer[i].kind \in Kinds
  <2> TAKE i \in 1 .. Len(answer)
  <2>1. answer[i] \in Lines
    OBVIOUS
  <2> QED BY <2>1 DEF Lines
<1>2. /\ Len(answer) \in Nat /\ DOMAIN Numbered(answer) = 1 .. Len(answer)
      /\ \A i \in 1 .. Len(answer) : Numbered(answer)[i] = [answer[i] EXCEPT !.n = issued + 1]
  BY DEF Numbered
<1>3. Numbered(answer) \in [1 .. Len(answer) -> Lines]
  BY <1>1, <1>2 DEF Numbered
<1>4. Numbered(answer) \in Seq(Lines) /\ Len(Numbered(answer)) = Len(answer)
  BY <1>2, <1>3
<1> QED BY <1>1, <1>2, <1>4

(* A command goes out only when nothing of the answer before it is due, unless *)
(* a call has slipped.                                                       *)
LEMMA SessionIssue ==
  ASSUME CommandsAssumption, SessionInv, NEW cmd \in ShortCmds \cup LongCmds \cup {"stls"},
         NEW answer \in Seq(Lines), Answer(answer, cmd \in LongCmds), Issue(cmd, answer),
         cmd = "stls" => ~Implicit /\ ~tlsEstablished
  PROVE  SessionInv'
<1> USE DEF SessionInv, TypeOK, Stages
<1>1. /\ issued' = issued + 1 /\ issued' \in 0 .. MaxCalls /\ issued \in Nat
      /\ UNCHANGED <<tlsEstablished, slipped>>
      /\ ~slipped => due = <<>>
      /\ Idle
      /\ Implicit /\ conn # "none" => conn = "tls"
      /\ cmd \in ShortCmds \cup LongCmds \cup {"connect", "stls"} /\ cmd # "connect"
  BY DEF Issue, Idle, Owes, CommandsAssumption
<1>2. /\ Numbered(answer) \in Seq(Lines) /\ Len(Numbered(answer)) = Len(answer)
      /\ \A i \in 1 .. Len(answer) : /\ Numbered(answer)[i].n = issued'
                                     /\ Numbered(answer)[i].kind = answer[i].kind
                                     /\ Numbered(answer)[i].kind \in Kinds
  BY <1>1, SessionNumbers
<1>3. CASE call' = NewCall(cmd, "failed") /\ UNCHANGED <<due, hears>>
           /\ conn' = IF cmd = "quit" THEN "none" ELSE conn
  <2>1. /\ call'.cmd = cmd /\ call'.stage = "failed" /\ call'.own = TRUE /\ call'.got = {}
        /\ call' \in [cmd : ShortCmds \cup LongCmds \cup {"connect", "stls"}, stage : Stages,
                      own : BOOLEAN, got : SUBSET Values]
    BY <1>1, <1>3 DEF NewCall
  <2>2. \A i \in 1 .. Len(due') : due'[i].n \in 0 .. issued' /\ due'[i].kind \in Kinds
    BY <1>1, <1>3
  <2>3. TypeOK'
    BY <1>1, <1>3, <2>1, <2>2
  <2>4. ~slipped' => Owes(due', call', issued', LongCmds)
    BY <1>1, <1>3, <2>1 DEF Owes
  <2> QED BY <1>1, <1>3, <2>1, <2>3, <2>4
<1>4. CASE /\ conn # "none" /\ UNCHANGED conn
           /\ call' = NewCall(cmd, "resp")
           /\ due' = IF hears = conn THEN due \o Numbered(answer) ELSE due
           /\ hears' = IF cmd = "stls" /\ hears = conn /\ answer[1].kind = "plus"
                       THEN "handshake" ELSE hears
  <2>1. /\ call'.cmd = cmd /\ call'.stage = "resp" /\ call'.own = TRUE /\ call'.got = {}
        /\ call' \in [cmd : ShortCmds \cup LongCmds \cup {"connect", "stls"}, stage : Stages,
                      own : BOOLEAN, got : SUBSET Values]
    BY <1>1, <1>4 DEF NewCall
  <2>2. /\ due' \in Seq(Lines)
        /\ \A i \in 1 .. Len(due') : due'[i].n \in 0 .. issued' /\ due'[i].kind \in Kinds
    <3>1. CASE due' = due
      BY <1>1, <3>1
    <3>2. CASE due' = due \o Numbered(answer)
      <4>1. /\ due' \in Seq(Lines)
            /\ \A i \in 1 .. Len(due') :
                 \/ \E j \in 1 .. Len(due) : due'[i] = due[j]
                 \/ \E j \in 1 .. Len(answer) : due'[i] = Numbered(answer)[j]
        BY <1>2, <3>2, AnswerAppends
      <4>2. \A j \in 1 .. Len(due) : due[j].n \in 0 .. issued' /\ due[j].kind \in Kinds
        BY <1>1
      <4>3. \A j \in 1 .. Len(answer) : /\ Numbered(answer)[j].n \in 0 .. issued'
                                        /\ Numbered(answer)[j].kind \in Kinds
        BY <1>1, <1>2
      <4> QED BY <4>1, <4>2, <4>3
    <3> QED BY <1>4, <3>1, <3>2
  <2>3. TypeOK'
    BY <1>1, <1>4, <2>1, <2>2
  <2>4. ASSUME ~slipped PROVE Owes(due', call', issued', LongCmds)
    <3>1. due' = <<>> \/ due' = Numbered(answer)
      BY <1>1, <1>2, <1>4, <2>4, ConcatEmptySeq
    <3>2. CASE due' = <<>>
      BY <2>1, <3>2 DEF Owes, Answer
    <3>3. CASE due' = Numbered(answer)
      <4>1. Answer(due', cmd \in LongCmds)
        BY <1>2, <3>3, AnswerKinds
      <4>2. \A i \in 1 .. Len(due') : due'[i].n = issued'
        BY <1>2, <3>3
      <4> QED BY <2>1, <4>1, <4>2 DEF Owes
    <3> QED BY <3>1, <3>2, <3>3
  <2> QED BY <1>1, <1>4, <2>1, <2>2, <2>3, <2>4
<1> QED BY <1>3, <1>4 DEF Issue

(* What a read leaves due.                                                   *)
LEMMA SessionReads ==
  ASSUME CommandsAssumption, SessionInv, NEW line, Reads(line)
  PROVE  /\ line \in Lines /\ line.val \in Values /\ due' \in Seq(Lines)
         /\ \A i \in 1 .. Len(due') : due'[i].n \in 0 .. issued /\ due'[i].kind \in Kinds
         /\ ~slipped =>
              /\ line.n = issued /\ \A i \in 1 .. Len(due') : due'[i].n = issued
              /\ call.stage = "resp" => IF call.cmd \in LongCmds /\ line.kind = "plus"
                                        THEN LastDot(due') ELSE due' = <<>>
              /\ call.stage = "lines" => /\ LastDot(due')
                                         /\ line.kind = "dot" => due' = <<>>
<1>1. /\ due # <<>> /\ line = Head(due) /\ due' = Tail(due) /\ due \in Seq(Lines)
      /\ \A i \in 1 .. Len(due) : due[i].n \in 0 .. issued /\ due[i].kind \in Kinds
      /\ ~slipped => Owes(due, call, issued, LongCmds)
  BY DEF SessionInv, TypeOK, Reads
<1>2. 1 \in 1 .. Len(due) /\ (line \in Lines => line.val \in Values)
  BY <1>1 DEF Lines
<1>3. /\ line \in Lines /\ line = due[1] /\ due' \in Seq(Lines)
      /\ \A i \in 1 .. Len(due') : \E j \in 1 .. Len(due) : due'[i] = due[j]
      /\ Answer(due, call.cmd \in LongCmds) =>
           IF call.cmd \in LongCmds /\ line.kind = "plus" THEN LastDot(due') ELSE due' = <<>>
      /\ LastDot(due) => LastDot(due') /\ (line.kind = "dot" => due' = <<>>)
  <2> DEFINE long == call.cmd \in LongCmds
  <2>1. /\ Head(due) = due[1] /\ due[1] \in Lines /\ Tail(due) \in Seq(Lines)
        /\ \A i \in 1 .. Len(Tail(due)) : \E j \in 1 .. Len(due) : Tail(due)[i] = due[j]
        /\ Answer(due, long) =>
             IF long /\ due[1].kind = "plus" THEN LastDot(Tail(due)) ELSE Tail(due) = <<>>
        /\ LastDot(due) => LastDot(Tail(due)) /\ (due[1].kind = "dot" => Tail(due) = <<>>)
    BY <1>1, AnswerReads, Zenon
  <2> QED BY <1>1, <2>1
<1> QED BY <1>1, <1>2, <1>3 DEF Owes

(* What a call does with the line it has read.                               *)
LEMMA SessionTakes ==
  ASSUME CommandsAssumption, SessionInv, NEW line, Reads(line),
         NEW stage \in {"lines", "handshake", "ok"}, Take(line, stage),
         call.stage \in {"resp", "lines"},
         ~slipped => IF stage = "lines" THEN LastDot(due') ELSE due' = <<>>,
         slipped' \in BOOLEAN, ~slipped' => ~slipped, UNCHANGED <<tlsEstablished, issued, hears>>,
         conn' = "none" \/ (stage # "handshake" /\ UNCHANGED conn)
           \/ (call.cmd = "stls" /\ stage = "handshake" /\ call.stage = "resp" /\ UNCHANGED conn),
         stage = "handshake" => call.stage = "resp" /\ call.cmd = "stls",
         stage = "lines" => call.cmd \in LongCmds
  PROVE  SessionInv'
<1> USE DEF SessionInv, TypeOK, Stages
<1>1. /\ line.val \in Values /\ due' \in Seq(Lines)
      /\ \A i \in 1 .. Len(due') : due'[i].n \in 0 .. issued /\ due'[i].kind \in Kinds
      /\ ~slipped => line.n = issued /\ \A i \in 1 .. Len(due') : due'[i].n = issued
  BY SessionReads
<1>2. call' = [call EXCEPT !.stage = stage, !.own = @ /\ line.n = issued,
                           !.got = @ \cup ({line.val} \ {NoValue})]
  BY DEF Take
<1>3. /\ call'.cmd = call.cmd /\ call'.stage = stage
      /\ call'.own = (call.own /\ line.n = issued)
      /\ call' \in [cmd : ShortCmds \cup LongCmds \cup {"connect", "stls"}, stage : Stages,
                    own : BOOLEAN, got : SUBSET Values]
  BY <1>1, <1>2
<1>4. TypeOK'
  BY <1>1, <1>3
<1>5. ~slipped => Owes(due', call', issued', LongCmds)
  BY <1>1, <1>3 DEF Owes
<1> QED BY <1>1, <1>3, <1>4, <1>5

(* Every step of a command under way preserves it.                           *)
LEMMA SessionExchange ==
  ASSUME CommandsAssumption, SessionInv, Exchange
  PROVE  SessionInv'
<1> USE DEF SessionInv, TypeOK, Stages
<1>0. issued \in Nat /\ issued \in 0 .. MaxCalls
  BY DEF CommandsAssumption
<1>1. CASE Dial
  <2>0. Welcome \in Lines /\ Welcome.n = 0 /\ Welcome.kind = "plus"
    BY DEF Welcome, Line, Lines, Values, Kinds
  <2>1. CASE Return("failed") /\ UNCHANGED <<due, hears>>
    BY <1>0, <1>1, <2>1 DEF Dial, Return, Closes, Owes
  <2>2. CASE /\ conn' = "plain"
             /\ call' = [call EXCEPT !.stage = IF Implicit THEN "handshake" ELSE "resp"]
             /\ due' = IF Implicit THEN <<>> ELSE <<Welcome>>
             /\ hears' = IF Implicit THEN "handshake" ELSE "plain"
    <3>1. /\ call.stage = "dial" /\ call.cmd = "connect" /\ issued = 0 /\ ~slipped
          /\ ~tlsEstablished /\ call.own /\ call.got = {}
          /\ UNCHANGED <<tlsEstablished, issued, slipped>>
      BY <1>1 DEF Dial
    <3>2. /\ due' \in Seq(Lines)
          /\ \A i \in 1 .. Len(due') : due'[i].n = 0 /\ due'[i].kind \in Kinds
      BY <2>0, <2>2 DEF Kinds
    <3>3. CASE Implicit
      <4>1. /\ call'.cmd = "connect" /\ call'.stage = "handshake" /\ call'.own /\ call'.got = {}
            /\ call' \in [cmd : ShortCmds \cup LongCmds \cup {"connect", "stls"},
                          stage : Stages, own : BOOLEAN, got : SUBSET Values]
            /\ conn' = "plain" /\ hears' = "handshake" /\ due' = <<>>
        BY <2>2, <3>1, <3>3
      <4>2. TypeOK'
        BY <1>0, <3>1, <3>2, <4>1
      <4>3. Owes(due', call', issued', LongCmds)
        BY <4>1 DEF Owes
      <4> QED BY <3>1, <3>2, <4>1, <4>2, <4>3
    <3>4. CASE ~Implicit
      BY <1>0, <2>0, <2>2, <3>1, <3>2, <3>4 DEF Owes, Answer, CommandsAssumption
    <3> QED BY <3>3, <3>4
  <2> QED BY <1>1, <2>1, <2>2 DEF Dial
<1>2. CASE WrapTLS
  <2>0. /\ Welcome \in Lines /\ Welcome.n = 0 /\ Welcome.kind = "plus"
        /\ <<Welcome>> \in Seq(Lines) /\ Len(<<Welcome>>) = 1 /\ <<Welcome>>[1] = Welcome
    BY DEF Welcome, Line, Lines, Values, Kinds
  <2>1. CASE /\ hears = "handshake" /\ conn' = "tls" /\ tlsEstablished' = TRUE /\ hears' = "tls"
             /\ call.cmd = "connect" /\ due' = <<Welcome>>
             /\ call' = [call EXCEPT !.stage = "resp"]
    BY <1>0, <1>2, <2>0, <2>1 DEF WrapTLS, Owes, Answer, CommandsAssumption, Kinds
  <2>2. CASE /\ hears = "handshake" /\ conn' = "tls" /\ tlsEstablished' = TRUE /\ hears' = "tls"
             /\ call.cmd # "connect" /\ due' = <<>> /\ call' = [call EXCEPT !.stage = "ok"]
    BY <1>0, <1>2, <2>2 DEF WrapTLS, Owes
  <2>3. CASE Return("failed") /\ hears' = "deaf" /\ due' = <<>> /\ UNCHANGED tlsEstablished
    BY <1>0, <1>2, <2>3 DEF WrapTLS, Return, Closes, Owes
  <2> QED BY <1>2, <2>1, <2>2, <2>3 DEF WrapTLS
<1>3. CASE GetResp
  <2>1. PICK line :
          /\ Reads(line) /\ slipped' = (slipped \/ line.kind = "long")
          /\ IF line.kind = "plus"
             THEN LET stage == IF call.cmd \in LongCmds THEN "lines"
                               ELSE IF call.cmd = "stls" THEN "handshake" ELSE "ok"
                  IN /\ Take(line, stage)
                     /\ conn' = IF stage = "ok" /\ Closes("ok") THEN "none" ELSE conn
             ELSE Return("failed")
    BY <1>3 DEF GetResp
  <2>2. call.stage = "resp" /\ UNCHANGED <<tlsEstablished, issued, hears>>
    BY <1>3 DEF GetResp
  <2>3. /\ due' \in Seq(Lines)
        /\ \A i \in 1 .. Len(due') : due'[i].n \in 0 .. issued /\ due'[i].kind \in Kinds
        /\ ~slipped => IF call.cmd \in LongCmds /\ line.kind = "plus"
                       THEN LastDot(due') ELSE due' = <<>>
        /\ slipped' \in BOOLEAN /\ (~slipped' => ~slipped)
    BY <2>1, <2>2, SessionReads
  <2>4. CASE line.kind # "plus"
    BY <1>0, <2>1, <2>2, <2>3, <2>4 DEF Return, Closes, Owes
  <2>5. CASE line.kind = "plus"
    <3> DEFINE stage == IF call.cmd \in LongCmds THEN "lines"
                        ELSE IF call.cmd = "stls" THEN "handshake" ELSE "ok"
    <3>1. /\ Take(line, stage) /\ stage \in {"lines", "handshake", "ok"}
          /\ conn' = IF stage = "ok" /\ Closes("ok") THEN "none" ELSE conn
      BY <2>1, <2>5
    <3>2. /\ stage = "lines" <=> call.cmd \in LongCmds
          /\ stage = "handshake" => call.cmd = "stls"
      OBVIOUS
    <3> HIDE DEF stage
    <3>3. ~slipped => IF stage = "lines" THEN LastDot(due') ELSE due' = <<>>
      BY <2>3, <2>5, <3>2
    <3> HIDE DEF SessionInv, TypeOK, Stages
    <3> QED BY <2>1, <2>2, <2>3, <3>1, <3>2, <3>3, SessionTakes
  <2> QED BY <2>4, <2>5
<1>4. CASE GetLine
  <2>1. PICK line :
          /\ Reads(line) /\ slipped' = (slipped \/ line.kind = "long")
          /\ IF line.kind = "long" THEN call' = [call EXCEPT !.stage = "failed"]
             ELSE Take(line, IF line.kind = "dot" THEN "ok" ELSE "lines")
    BY <1>4 DEF GetLine, EndsAnswer
  <2>2. call.stage = "lines" /\ UNCHANGED <<conn, tlsEstablished, issued, hears>>
    BY <1>4 DEF GetLine
  <2>3. /\ due' \in Seq(Lines)
        /\ \A i \in 1 .. Len(due') : due'[i].n \in 0 .. issued /\ due'[i].kind \in Kinds
        /\ ~slipped => LastDot(due') /\ (line.kind = "dot" => due' = <<>>)
        /\ slipped' \in BOOLEAN /\ (~slipped' => ~slipped /\ line.kind # "long")
    BY <2>1, <2>2, SessionReads
  <2>4. CASE line.kind = "long"
    BY <1>0, <2>1, <2>2, <2>3, <2>4
  <2>5. CASE line.kind # "long"
    <3> DEFINE stage == IF line.kind = "dot" THEN "ok" ELSE "lines"
    <3>1. Take(line, stage) /\ stage \in {"lines", "handshake", "ok"}
      BY <2>1, <2>5
    <3>2. (stage = "lines" <=> line.kind # "dot") /\ stage # "handshake"
      OBVIOUS
    <3> HIDE DEF stage
    <3>3. ~slipped => IF stage = "lines" THEN LastDot(due') ELSE due' = <<>>
      BY <2>3, <2>5, <3>1, <3>2
    <3>4. call.cmd \in LongCmds
      BY <2>2
    <3> HIDE DEF SessionInv, TypeOK, Stages
    <3> QED BY <2>1, <2>2, <2>3, <3>1, <3>2, <3>3, <3>4, SessionTakes
  <2> QED BY <2>4, <2>5
<1>5. CASE Timeout
  <2>1. /\ due' \in Seq(Lines)
        /\ \A i \in 1 .. Len(due') : due'[i].n \in 0 .. issued /\ due'[i].kind \in Kinds
    <3>1. CASE UNCHANGED due
      BY <3>1
    <3>2. ASSUME due # <<>>, NEW k \in Kinds, due' = [due EXCEPT ![1].kind = k]
          PROVE  /\ due' \in Seq(Lines)
                 /\ \A i \in 1 .. Len(due') : due'[i].n \in 0 .. issued /\ due'[i].kind \in Kinds
      <4>1. /\ due' \in Seq(Lines) /\ Len(due') = Len(due)
            /\ \A i \in 1 .. Len(due) : due'[i].n = due[i].n /\ due'[i].kind \in Kinds
        BY <3>2, AnswerGarbles
      <4> QED BY <4>1
    <3> QED BY <1>5, <3>1, <3>2 DEF Timeout
  <2>2. /\ call' = [call EXCEPT !.stage = "failed"] /\ slipped' = TRUE
        /\ conn' = IF Closes("failed") THEN "none" ELSE conn
        /\ UNCHANGED <<tlsEstablished, issued, hears>>
        /\ call.stage \in {"resp", "lines"}
    BY <1>5 DEF Timeout, Return
  <2> QED BY <1>0, <2>1, <2>2 DEF Closes
<1>6. CASE Break
  BY <1>0, <1>6 DEF Break, Return, Closes, Owes
<1> QED BY <1>1, <1>2, <1>3, <1>4, <1>5, <1>6 DEF Exchange

-------------------------------------------------------------------------------
(*****************************************************************************)
(* A POP3 session off port 995.  The same argument, for the other instance.  *)
(*****************************************************************************)
(* The same for the session off port 995, which may ask for TLS by STLS.     *)
PlainCallRecords == [cmd : PlainShort \cup PlainLong \cup {"connect", "stls"}, stage : Stages,
                     own : BOOLEAN, got : SUBSET Values]

PlainInv ==
  /\ Plain!TypeOK
  /\ plainDue \in Seq(Lines)
  /\ plainCall \in PlainCallRecords
  /\ ~plainSlipped => plainCall.own /\ Owes(plainDue, plainCall, plainIssued, PlainLong)
  /\ plainCall.stage = "dial" =>
       /\ plainIssued = 0 /\ plainDue = <<>> /\ ~plainSlipped
       /\ plainCall.cmd = "connect" /\ plainConn = "none"
  /\ plainCall.stage \in {"dial", "handshake"} => ~plainTLS /\ plainCall.cmd \in {"connect", "stls"}
  /\ plainCall.stage = "handshake" => plainCall.cmd = "stls"
  /\ plainCall.stage = "resp" /\ plainCall.cmd = "stls" => ~plainTLS
  /\ plainCall.stage = "lines" => plainCall.cmd \in PlainLong
  /\ plainConn # "none" /\ plainTLS => plainConn = "tls"

(* Both instances know the same kinds of lines.                              *)
LEMMA PlainKinds == Plain!Kinds = Kinds
  BY DEF Plain!Kinds, Kinds

(* As SessionNumbers.                                                        *)
LEMMA PlainNumbers ==
  ASSUME NEW answer \in Seq(Lines), plainIssued \in Nat
  PROVE  /\ Plain!Numbered(answer) \in Seq(Lines) /\ Len(Plain!Numbered(answer)) = Len(answer)
         /\ \A i \in 1 .. Len(answer) : /\ Plain!Numbered(answer)[i].n = plainIssued + 1
                                        /\ Plain!Numbered(answer)[i].kind = answer[i].kind
                                        /\ Plain!Numbered(answer)[i].val = answer[i].val
                                        /\ Plain!Numbered(answer)[i].kind \in Kinds
<1>1. \A i \in 1 .. Len(answer) :
        /\ [answer[i] EXCEPT !.n = plainIssued + 1] \in Lines
        /\ [answer[i] EXCEPT !.n = plainIssued + 1].n = plainIssued + 1
        /\ [answer[i] EXCEPT !.n = plainIssued + 1].kind = answer[i].kind
        /\ [answer[i] EXCEPT !.n = plainIssued + 1].val = answer[i].val
        /\ answer[i].kind \in Kinds
  <2> TAKE i \in 1 .. Len(answer)
  <2>1. answer[i] \in Lines
    OBVIOUS
  <2> QED BY <2>1 DEF Lines
<1>2. /\ Len(answer) \in Nat /\ DOMAIN Plain!Numbered(answer) = 1 .. Len(answer)
      /\ \A i \in 1 .. Len(answer) : Plain!Numbered(answer)[i] = [answer[i] EXCEPT !.n = plainIssued + 1]
  BY DEF Plain!Numbered
<1>3. Plain!Numbered(answer) \in [1 .. Len(answer) -> Lines]
  BY <1>1, <1>2 DEF Plain!Numbered
<1>4. Plain!Numbered(answer) \in Seq(Lines) /\ Len(Plain!Numbered(answer)) = Len(answer)
  BY <1>2, <1>3
<1> QED BY <1>1, <1>2, <1>4

(* As SessionIssue.                                                          *)
LEMMA PlainIssue ==
  ASSUME Plain!CommandsAssumption, PlainInv, NEW cmd \in PlainShort \cup PlainLong \cup {"stls"},
         NEW answer \in Seq(Lines), Answer(answer, cmd \in PlainLong), Plain!Issue(cmd, answer),
         cmd = "stls" => ~plainTLS
  PROVE  PlainInv'
<1> USE PlainKinds DEF PlainInv, Plain!TypeOK, PlainCallRecords, Stages
<1>1. /\ plainIssued' = plainIssued + 1 /\ plainIssued' \in 0 .. PlainCalls /\ plainIssued \in Nat
      /\ UNCHANGED <<plainTLS, plainSlipped>>
      /\ ~plainSlipped => plainDue = <<>>
      /\ Plain!Idle
      /\ cmd \in PlainShort \cup PlainLong \cup {"connect", "stls"} /\ cmd # "connect"
  BY DEF Plain!Issue, Plain!Idle, Owes, Plain!CommandsAssumption
<1>2. /\ Plain!Numbered(answer) \in Seq(Lines) /\ Len(Plain!Numbered(answer)) = Len(answer)
      /\ \A i \in 1 .. Len(answer) : /\ Plain!Numbered(answer)[i].n = plainIssued'
                                     /\ Plain!Numbered(answer)[i].kind = answer[i].kind
                                     /\ Plain!Numbered(answer)[i].kind \in Kinds
  BY <1>1, PlainNumbers
<1>3. CASE plainCall' = Plain!NewCall(cmd, "failed") /\ UNCHANGED <<plainDue, plainHears>>
           /\ plainConn' = IF cmd = "quit" THEN "none" ELSE plainConn
  <2>1. /\ plainCall'.cmd = cmd /\ plainCall'.stage = "failed"
        /\ plainCall'.own = TRUE /\ plainCall'.got = {}
        /\ plainCall' \in PlainCallRecords
    BY <1>1, <1>3 DEF Plain!NewCall
  <2>2. \A i \in 1 .. Len(plainDue') : plainDue'[i].n \in 0 .. plainIssued'
          /\ plainDue'[i].kind \in Kinds
    BY <1>1, <1>3
  <2>3. Plain!TypeOK'
    BY <1>1, <1>3, <2>1, <2>2
  <2>4. ~plainSlipped' => Owes(plainDue', plainCall', plainIssued', PlainLong)
    BY <1>1, <1>3, <2>1 DEF Owes
  <2> QED BY <1>1, <1>3, <2>1, <2>3, <2>4
<1>4. CASE /\ plainConn # "none" /\ UNCHANGED plainConn
           /\ plainCall' = Plain!NewCall(cmd, "resp")
           /\ plainDue' = IF plainHears = plainConn THEN plainDue \o Plain!Numbered(answer) ELSE plainDue
           /\ plainHears' = IF cmd = "stls" /\ plainHears = plainConn /\ answer[1].kind = "plus"
                       THEN "handshake" ELSE plainHears
  <2>1. /\ plainCall'.cmd = cmd /\ plainCall'.stage = "resp"
        /\ plainCall'.own = TRUE /\ plainCall'.got = {}
        /\ plainCall' \in PlainCallRecords
    BY <1>1, <1>4 DEF Plain!NewCall
  <2>2. /\ plainDue' \in Seq(Lines)
        /\ \A i \in 1 .. Len(plainDue') : plainDue'[i].n \in 0 .. plainIssued'
             /\ plainDue'[i].kind \in Kinds
    <3>1. CASE plainDue' = plainDue
      BY <1>1, <3>1
    <3>2. CASE plainDue' = plainDue \o Plain!Numbered(answer)
      <4>1. /\ plainDue' \in Seq(Lines)
            /\ \A i \in 1 .. Len(plainDue') :
                 \/ \E j \in 1 .. Len(plainDue) : plainDue'[i] = plainDue[j]
                 \/ \E j \in 1 .. Len(answer) : plainDue'[i] = Plain!Numbered(answer)[j]
        BY <1>2, <3>2, AnswerAppends
      <4>2. \A j \in 1 .. Len(plainDue) : plainDue[j].n \in 0 .. plainIssued' /\ plainDue[j].kind \in Kinds
        BY <1>1
      <4>3. \A j \in 1 .. Len(answer) : /\ Plain!Numbered(answer)[j].n \in 0 .. plainIssued'
                                        /\ Plain!Numbered(answer)[j].kind \in Kinds
        BY <1>1, <1>2
      <4> QED BY <4>1, <4>2, <4>3
    <3> QED BY <1>4, <3>1, <3>2
  <2>3. Plain!TypeOK'
    BY <1>1, <1>4, <2>1, <2>2
  <2>4. ASSUME ~plainSlipped PROVE Owes(plainDue', plainCall', plainIssued', PlainLong)
    <3>1. plainDue' = <<>> \/ plainDue' = Plain!Numbered(answer)
      BY <1>1, <1>2, <1>4, <2>4, ConcatEmptySeq
    <3>2. CASE plainDue' = <<>>
      BY <2>1, <3>2 DEF Owes, Answer
    <3>3. CASE plainDue' = Plain!Numbered(answer)
      <4>1. Answer(plainDue', cmd \in PlainLong)
        BY <1>2, <3>3, AnswerKinds
      <4>2. \A i \in 1 .. Len(plainDue') : plainDue'[i].n = plainIssued'
        BY <1>2, <3>3
      <4> QED BY <2>1, <4>1, <4>2 DEF Owes
    <3> QED BY <3>1, <3>2, <3>3
  <2> QED BY <1>1, <1>4, <2>1, <2>2, <2>3, <2>4
<1> QED BY <1>3, <1>4 DEF Plain!Issue

(* As SessionReads.                                                          *)
LEMMA PlainReads ==
  ASSUME Plain!CommandsAssumption, PlainInv, NEW line, Plain!Reads(line)
  PROVE  /\ line \in Lines /\ line.val \in Values /\ plainDue' \in Seq(Lines)
         /\ \A i \in 1 .. Len(plainDue') : plainDue'[i].n \in 0 .. plainIssued
              /\ plainDue'[i].kind \in Kinds
         /\ ~plainSlipped =>
              /\ line.n = plainIssued /\ \A i \in 1 .. Len(plainDue') : plainDue'[i].n = plainIssued
              /\ plainCall.stage = "resp" => IF plainCall.cmd \in PlainLong /\ line.kind = "plus"
                                        THEN LastDot(plainDue') ELSE plainDue' = <<>>
              /\ plainCall.stage = "lines" =>
                   LastDot(plainDue') /\ (line.kind = "dot" => plainDue' = <<>>)
<1>1. /\ plainDue # <<>> /\ line = Head(plainDue) /\ plainDue' = Tail(plainDue)
      /\ plainDue \in Seq(Lines)
      /\ \A i \in 1 .. Len(plainDue) : plainDue[i].n \in 0 .. plainIssued /\ plainDue[i].kind \in Kinds
      /\ ~plainSlipped => Owes(plainDue, plainCall, plainIssued, PlainLong)
  BY PlainKinds DEF PlainInv, Plain!TypeOK, Plain!Reads
<1>2. 1 \in 1 .. Len(plainDue) /\ (line \in Lines => line.val \in Values)
  BY <1>1 DEF Lines
<1>3. /\ line \in Lines /\ line = plainDue[1] /\ plainDue' \in Seq(Lines)
      /\ \A i \in 1 .. Len(plainDue') : \E j \in 1 .. Len(plainDue) : plainDue'[i] = plainDue[j]
      /\ Answer(plainDue, plainCall.cmd \in PlainLong) =>
           IF plainCall.cmd \in PlainLong /\ line.kind = "plus"
             THEN LastDot(plainDue') ELSE plainDue' = <<>>
      /\ LastDot(plainDue) => LastDot(plainDue') /\ (line.kind = "dot" => plainDue' = <<>>)
  <2> DEFINE long == plainCall.cmd \in PlainLong
  <2>1. /\ Head(plainDue) = plainDue[1] /\ plainDue[1] \in Lines /\ Tail(plainDue) \in Seq(Lines)
        /\ \A i \in 1 .. Len(Tail(plainDue))
             : \E j \in 1 .. Len(plainDue) : Tail(plainDue)[i] = plainDue[j]
        /\ Answer(plainDue, long) =>
             IF long /\ plainDue[1].kind = "plus"
               THEN LastDot(Tail(plainDue)) ELSE Tail(plainDue) = <<>>
        /\ LastDot(plainDue) => LastDot(Tail(plainDue))
             /\ (plainDue[1].kind = "dot" => Tail(plainDue) = <<>>)
    BY <1>1, AnswerReads, Zenon
  <2> QED BY <1>1, <2>1
<1> QED BY <1>1, <1>2, <1>3 DEF Owes

(* What a plainCall does with the line it has read.                               *)
LEMMA PlainTakes ==
  ASSUME Plain!CommandsAssumption, PlainInv, NEW line, Plain!Reads(line),
         NEW stage \in {"lines", "handshake", "ok"}, Plain!Take(line, stage),
         plainCall.stage \in {"resp", "lines"},
         ~plainSlipped => IF stage = "lines" THEN LastDot(plainDue') ELSE plainDue' = <<>>,
         plainSlipped' \in BOOLEAN, ~plainSlipped' => ~plainSlipped,
         UNCHANGED <<plainTLS, plainIssued, plainHears>>,
         plainConn' = "none" \/ (stage # "handshake" /\ UNCHANGED plainConn)
           \/ (plainCall.cmd = "stls" /\ stage = "handshake"
                                      /\ plainCall.stage = "resp" /\ UNCHANGED plainConn),
         stage = "handshake" => plainCall.stage = "resp" /\ plainCall.cmd = "stls",
         stage = "lines" => plainCall.cmd \in PlainLong
  PROVE  PlainInv'
<1> USE PlainKinds DEF PlainInv, Plain!TypeOK, PlainCallRecords, Stages
<1>1. /\ line.val \in Values /\ plainDue' \in Seq(Lines)
      /\ \A i \in 1 .. Len(plainDue') : plainDue'[i].n \in 0 .. plainIssued
           /\ plainDue'[i].kind \in Kinds
      /\ ~plainSlipped => line.n = plainIssued
           /\ \A i \in 1 .. Len(plainDue') : plainDue'[i].n = plainIssued
  BY PlainReads
<1>2. plainCall' = [plainCall EXCEPT !.stage = stage, !.own = @ /\ line.n = plainIssued,
                           !.got = @ \cup ({line.val} \ {NoValue})]
  BY DEF Plain!Take
<1>3. /\ plainCall'.cmd = plainCall.cmd /\ plainCall'.stage = stage
      /\ plainCall'.own = (plainCall.own /\ line.n = plainIssued)
      /\ plainCall' \in PlainCallRecords
  BY <1>1, <1>2
<1>4. Plain!TypeOK'
  BY <1>1, <1>3
<1>5. ~plainSlipped => Owes(plainDue', plainCall', plainIssued', PlainLong)
  BY <1>1, <1>3 DEF Owes
<1> QED BY <1>1, <1>3, <1>4, <1>5

(* As SessionExchange.                                                       *)
LEMMA PlainExchange ==
  ASSUME Plain!CommandsAssumption, PlainInv, Plain!Exchange
  PROVE  PlainInv'
<1> USE PlainKinds DEF PlainInv, Plain!TypeOK, PlainCallRecords, Stages
<1>0. plainIssued \in Nat /\ plainIssued \in 0 .. PlainCalls
  BY DEF Plain!CommandsAssumption
<1>1. CASE Plain!Dial
  <2>0. Plain!Welcome \in Lines /\ Plain!Welcome.n = 0 /\ Plain!Welcome.kind = "plus"
    BY DEF Plain!Welcome, Plain!Line, Lines, Values, Kinds
  <2>1. CASE Plain!Return("failed") /\ UNCHANGED <<plainDue, plainHears>>
    BY <1>0, <1>1, <2>1 DEF Plain!Dial, Plain!Return, Plain!Closes, Owes
  <2>2. CASE /\ plainConn' = "plain"
             /\ plainCall' = [plainCall EXCEPT !.stage = "resp"]
             /\ plainDue' = <<Plain!Welcome>>
             /\ plainHears' = "plain"
    <3>1. /\ plainCall.stage = "dial" /\ plainCall.cmd = "connect" /\ plainIssued = 0 /\ ~plainSlipped
          /\ ~plainTLS /\ plainCall.own
          /\ UNCHANGED <<plainTLS, plainIssued, plainSlipped>>
      BY <1>1 DEF Plain!Dial
    <3>2. /\ plainDue' \in Seq(Lines)
          /\ \A i \in 1 .. Len(plainDue') : plainDue'[i].n = 0 /\ plainDue'[i].kind \in Kinds
      BY <2>0, <2>2 DEF Kinds
    <3>3. /\ plainCall'.cmd = "connect" /\ plainCall'.stage = "resp" /\ plainCall'.own
          /\ plainCall' \in PlainCallRecords
      BY <2>2, <3>1
    <3>4. Plain!TypeOK'
      BY <1>0, <2>2, <3>1, <3>2, <3>3
    <3>5. Owes(plainDue', plainCall', plainIssued', PlainLong)
      <4>1. Len(plainDue') = 1
        BY <2>2
      <4>2. "connect" \notin PlainLong
        BY DEF Plain!CommandsAssumption
      <4> QED BY <3>1, <3>2, <3>3, <4>1, <4>2 DEF Owes, Answer
    <3> QED BY <2>2, <3>1, <3>2, <3>3, <3>4, <3>5
  <2> QED BY <1>1, <2>1, <2>2 DEF Plain!Dial
<1>2. CASE Plain!WrapTLS
  <2>2. CASE /\ plainHears = "handshake" /\ plainConn' = "tls" /\ plainTLS' = TRUE /\ plainHears' = "tls"
             /\ plainDue' = <<>> /\ plainCall' = [plainCall EXCEPT !.stage = "ok"]
    BY <1>0, <1>2, <2>2 DEF Plain!WrapTLS, Owes
  <2>3. CASE Plain!Return("failed") /\ plainHears' = "deaf" /\ plainDue' = <<>> /\ UNCHANGED plainTLS
    BY <1>0, <1>2, <2>3 DEF Plain!WrapTLS, Plain!Return, Plain!Closes, Owes
  <2> QED BY <1>2, <2>2, <2>3 DEF Plain!WrapTLS
<1>3. CASE Plain!GetResp
  <2>1. PICK line :
          /\ Plain!Reads(line) /\ plainSlipped' = (plainSlipped \/ line.kind = "long")
          /\ IF line.kind = "plus"
             THEN LET stage == IF plainCall.cmd \in PlainLong THEN "lines"
                               ELSE IF plainCall.cmd = "stls" THEN "handshake" ELSE "ok"
                  IN /\ Plain!Take(line, stage)
                     /\ plainConn' = IF stage = "ok" /\ Plain!Closes("ok") THEN "none" ELSE plainConn
             ELSE Plain!Return("failed")
    BY <1>3 DEF Plain!GetResp
  <2>2. plainCall.stage = "resp" /\ UNCHANGED <<plainTLS, plainIssued, plainHears>>
    BY <1>3 DEF Plain!GetResp
  <2>3. /\ plainDue' \in Seq(Lines)
        /\ \A i \in 1 .. Len(plainDue') : plainDue'[i].n \in 0 .. plainIssued
             /\ plainDue'[i].kind \in Kinds
        /\ ~plainSlipped => IF plainCall.cmd \in PlainLong /\ line.kind = "plus"
                       THEN LastDot(plainDue') ELSE plainDue' = <<>>
        /\ plainSlipped' \in BOOLEAN /\ (~plainSlipped' => ~plainSlipped)
    BY <2>1, <2>2, PlainReads
  <2>4. CASE line.kind # "plus"
    BY <1>0, <2>1, <2>2, <2>3, <2>4 DEF Plain!Return, Plain!Closes, Owes
  <2>5. CASE line.kind = "plus"
    <3> DEFINE stage == IF plainCall.cmd \in PlainLong THEN "lines"
                        ELSE IF plainCall.cmd = "stls" THEN "handshake" ELSE "ok"
    <3>1. /\ Plain!Take(line, stage) /\ stage \in {"lines", "handshake", "ok"}
          /\ plainConn' = IF stage = "ok" /\ Plain!Closes("ok") THEN "none" ELSE plainConn
      BY <2>1, <2>5
    <3>2. /\ stage = "lines" <=> plainCall.cmd \in PlainLong
          /\ stage = "handshake" => plainCall.cmd = "stls"
      OBVIOUS
    <3> HIDE DEF stage
    <3>3. ~plainSlipped => IF stage = "lines" THEN LastDot(plainDue') ELSE plainDue' = <<>>
      BY <2>3, <2>5, <3>2
    <3> HIDE DEF PlainInv, Plain!TypeOK, PlainCallRecords, Stages
    <3> QED BY <2>1, <2>2, <2>3, <3>1, <3>2, <3>3, PlainTakes
  <2> QED BY <2>4, <2>5
<1>4. CASE Plain!GetLine
  <2>1. PICK line :
          /\ Plain!Reads(line) /\ plainSlipped' = (plainSlipped \/ line.kind = "long")
          /\ IF line.kind = "long" THEN plainCall' = [plainCall EXCEPT !.stage = "failed"]
             ELSE Plain!Take(line, IF line.kind = "dot" THEN "ok" ELSE "lines")
    BY <1>4 DEF Plain!GetLine, Plain!EndsAnswer
  <2>2. plainCall.stage = "lines" /\ UNCHANGED <<plainConn, plainTLS, plainIssued, plainHears>>
    BY <1>4 DEF Plain!GetLine
  <2>3. /\ plainDue' \in Seq(Lines)
        /\ \A i \in 1 .. Len(plainDue') : plainDue'[i].n \in 0 .. plainIssued
             /\ plainDue'[i].kind \in Kinds
        /\ ~plainSlipped => LastDot(plainDue') /\ (line.kind = "dot" => plainDue' = <<>>)
        /\ plainSlipped' \in BOOLEAN /\ (~plainSlipped' => ~plainSlipped /\ line.kind # "long")
    BY <2>1, <2>2, PlainReads
  <2>4. CASE line.kind = "long"
    BY <1>0, <2>1, <2>2, <2>3, <2>4
  <2>5. CASE line.kind # "long"
    <3> DEFINE stage == IF line.kind = "dot" THEN "ok" ELSE "lines"
    <3>1. Plain!Take(line, stage) /\ stage \in {"lines", "handshake", "ok"}
      BY <2>1, <2>5
    <3>2. (stage = "lines" <=> line.kind # "dot") /\ stage # "handshake"
      OBVIOUS
    <3> HIDE DEF stage
    <3>3. ~plainSlipped => IF stage = "lines" THEN LastDot(plainDue') ELSE plainDue' = <<>>
      BY <2>3, <2>5, <3>1, <3>2
    <3>4. plainCall.cmd \in PlainLong
      BY <2>2
    <3> HIDE DEF PlainInv, Plain!TypeOK, PlainCallRecords, Stages
    <3> QED BY <2>1, <2>2, <2>3, <3>1, <3>2, <3>3, <3>4, PlainTakes
  <2> QED BY <2>4, <2>5
<1>5. CASE Plain!Timeout
  <2>1. /\ plainDue' \in Seq(Lines)
        /\ \A i \in 1 .. Len(plainDue') : plainDue'[i].n \in 0 .. plainIssued
             /\ plainDue'[i].kind \in Kinds
    <3>1. CASE UNCHANGED plainDue
      BY <3>1
    <3>2. ASSUME plainDue # <<>>, NEW k \in Kinds, plainDue' = [plainDue EXCEPT ![1].kind = k]
          PROVE  /\ plainDue' \in Seq(Lines)
                 /\ \A i \in 1 .. Len(plainDue') : plainDue'[i].n \in 0 .. plainIssued
                      /\ plainDue'[i].kind \in Kinds
      <4>1. /\ plainDue' \in Seq(Lines) /\ Len(plainDue') = Len(plainDue)
            /\ \A i \in 1 .. Len(plainDue) : plainDue'[i].n = plainDue[i].n
                 /\ plainDue'[i].kind \in Kinds
        BY <3>2, AnswerGarbles
      <4> QED BY <4>1
    <3> QED BY <1>5, <3>1, <3>2 DEF Plain!Timeout
  <2>2. /\ plainCall' = [plainCall EXCEPT !.stage = "failed"] /\ plainSlipped' = TRUE
        /\ plainConn' = IF Plain!Closes("failed") THEN "none" ELSE plainConn
        /\ UNCHANGED <<plainTLS, plainIssued, plainHears>>
        /\ plainCall.stage \in {"resp", "lines"}
    BY <1>5 DEF Plain!Timeout, Plain!Return
  <2> QED BY <1>0, <2>1, <2>2 DEF Plain!Closes
<1>6. CASE Plain!Break
  BY <1>0, <1>6 DEF Plain!Break, Plain!Return, Plain!Closes, Owes
<1> QED BY <1>1, <1>2, <1>3, <1>4, <1>5, <1>6 DEF Plain!Exchange

(* What a server answers ends in time.                                       *)
LEMMA PlainAnswers ==
  /\ \A a \in Plain!ShortAnswers : a \in Seq(Lines) /\ Len(a) = 1
  /\ \A a \in Plain!LongAnswers : a \in Seq(Lines) /\ Answer(a, TRUE)
<1>1. \A k \in Kinds : /\ Plain!Line(0, k, NoValue) \in Lines
                       /\ Plain!Line(0, k, NoValue).kind = k
  BY DEF Plain!Line, Lines, Values
<1>2. {"plus", "err", "text", "stuffed", "dot", "long"} \subseteq Kinds
  BY DEF Kinds
<1>3. /\ Plain!Refusal \in Seq(Lines) /\ Len(Plain!Refusal) = 1
      /\ Plain!Refusal[1].kind = "err"
  BY <1>1, <1>2 DEF Plain!Refusal
<1>4. ASSUME NEW a \in Plain!ShortAnswers PROVE a \in Seq(Lines) /\ Len(a) = 1
  BY <1>1, <1>2, <1>4 DEF Plain!ShortAnswers
<1>5. ASSUME NEW a \in Plain!LongAnswers PROVE a \in Seq(Lines) /\ Answer(a, TRUE)
  <2>1. CASE a = Plain!Refusal
    BY <1>3, <2>1 DEF Answer
  <2>2. ASSUME NEW k \in {"text", "stuffed", "long"},
               a = <<Plain!Line(0, "plus", NoValue)>> \o <<Plain!Line(0, k, NoValue)>>
                     \o <<Plain!Line(0, "dot", NoValue)>>
        PROVE  a \in Seq(Lines) /\ Answer(a, TRUE)
    <3> DEFINE p == Plain!Line(0, "plus", NoValue)
               t == Plain!Line(0, k, NoValue)
               d == Plain!Line(0, "dot", NoValue)
    <3>0. p \in Lines /\ t \in Lines /\ d \in Lines /\ k \in Kinds
      BY <1>1, <1>2
    <3> HIDE DEF p, t, d
    <3>1. /\ <<p>> \o <<t>> \in Seq(Lines) /\ Len(<<p>> \o <<t>>) = 2
          /\ (<<p>> \o <<t>>)[1] = p /\ (<<p>> \o <<t>>)[2] = t
      BY <3>0
    <3> DEFINE pt == <<p>> \o <<t>>
    <3> HIDE DEF pt
    <3>2. /\ pt \o <<d>> \in Seq(Lines) /\ Len(pt \o <<d>>) = 3
          /\ (pt \o <<d>>)[1] = p /\ (pt \o <<d>>)[2] = t /\ (pt \o <<d>>)[3] = d
      BY <3>0, <3>1 DEF pt
    <3>3. /\ a = pt \o <<d>> /\ k # "dot"
          /\ p.kind = "plus" /\ t.kind = k /\ d.kind = "dot"
      BY <1>1, <1>2, <2>2 DEF pt, p, t, d
    <3> QED BY <3>2, <3>3 DEF Answer, LastDot
  <2> QED BY <1>5, <2>1, <2>2 DEF Plain!LongAnswers
<1> QED BY <1>4, <1>5

(* A session that has not begun satisfies it.                                *)
LEMMA PlainInit == Plain!CommandsAssumption /\ Plain!Init => PlainInv
<1> SUFFICES ASSUME Plain!CommandsAssumption, Plain!Init PROVE PlainInv
  OBVIOUS
<1>1. /\ plainConn = "none" /\ plainTLS = FALSE /\ plainIssued = 0 /\ plainDue = <<>>
      /\ plainHears = "plain" /\ plainSlipped = FALSE /\ 0 \in 0 .. PlainCalls
      /\ plainCall = [cmd |-> "connect", stage |-> "dial", own |-> TRUE, got |-> {}]
  BY DEF Plain!Init, Plain!NewCall, Plain!CommandsAssumption
<1>2. plainCall \in PlainCallRecords /\ <<>> \in Seq(Lines) /\ Len(<<>>) = 0
  BY <1>1 DEF PlainCallRecords, Stages
<1>3. plainCall.cmd = "connect" /\ plainCall.stage = "dial" /\ plainCall.own
  BY <1>1
<1>4. Plain!TypeOK
  <2>1. \A i \in 1 .. Len(plainDue) : plainDue[i].n \in 0 .. plainIssued
                                     /\ plainDue[i].kind \in Plain!Kinds
    BY <1>1, <1>2
  <2> QED BY <1>1, <1>3, <2>1 DEF Plain!TypeOK
<1> QED BY <1>1, <1>2, <1>3, <1>4 DEF PlainInv, Owes

(* Every step of a session preserves it.                                     *)
LEMMA PlainStep ==
  ASSUME Plain!CommandsAssumption, PlainInv, [Plain!Next]_plainVars
  PROVE  PlainInv'
<1>1. CASE Plain!Exchange
  BY <1>1, PlainExchange
<1>2. ASSUME NEW cmd \in PlainShort \ {"stls"}, NEW a \in Plain!ShortAnswers,
             Plain!Issue(cmd, a)
      PROVE  PlainInv'
  <2>1. a \in Seq(Lines) /\ Answer(a, cmd \in PlainLong)
    BY <1>2, PlainAnswers DEF Answer, Plain!CommandsAssumption
  <2> QED BY <1>2, <2>1, PlainIssue
<1>3. ASSUME NEW cmd \in PlainLong, NEW a \in Plain!LongAnswers, Plain!Issue(cmd, a)
      PROVE  PlainInv'
  <2>1. a \in Seq(Lines) /\ Answer(a, cmd \in PlainLong) /\ cmd # "stls"
    BY <1>3, PlainAnswers DEF Plain!CommandsAssumption
  <2> QED BY <1>3, <2>1, PlainIssue
<1>4. ASSUME NEW a \in Plain!ShortAnswers, Plain!STLS(a) PROVE PlainInv'
  <2>1. CASE ~plainTLS /\ Plain!Issue("stls", a)
    <3>1. a \in Seq(Lines) /\ Answer(a, "stls" \in PlainLong)
      BY <1>4, PlainAnswers DEF Answer, Plain!CommandsAssumption
    <3> QED BY <2>1, <3>1, PlainIssue
  <2>2. CASE /\ Plain!Idle /\ plainIssued < PlainCalls /\ plainTLS
             /\ plainCall' = Plain!NewCall("stls", "failed")
             /\ plainIssued' = plainIssued + 1 /\ plainTLS' = TRUE
             /\ UNCHANGED <<plainConn, plainDue, plainHears, plainSlipped>>
    <3>1. /\ plainCall'.cmd = "stls" /\ plainCall'.stage = "failed" /\ plainCall'.own
          /\ plainCall' \in PlainCallRecords
      BY <2>2 DEF Plain!NewCall, PlainCallRecords, Stages
    <3>2. ~plainSlipped => plainDue = <<>>
      BY <2>2 DEF Plain!Idle, PlainInv, Owes
    <3>3. plainIssued \in Nat /\ plainIssued' \in 0 .. PlainCalls
      BY <2>2 DEF PlainInv, Plain!TypeOK, Plain!CommandsAssumption
    <3>4. Plain!TypeOK'
      <4>1. \A i \in 1 .. Len(plainDue') : plainDue'[i].n \in 0 .. plainIssued'
                                          /\ plainDue'[i].kind \in Plain!Kinds
        BY <2>2, <3>3 DEF PlainInv, Plain!TypeOK
      <4> QED BY <2>2, <3>1, <3>3, <4>1 DEF PlainInv, Plain!TypeOK
    <3>5. ~plainSlipped' => Owes(plainDue', plainCall', plainIssued', PlainLong)
      BY <2>2, <3>1, <3>2 DEF Owes
    <3> QED BY <2>2, <3>1, <3>4, <3>5 DEF PlainInv
  <2> QED BY <1>4, <2>1, <2>2 DEF Plain!STLS
<1>5. CASE Plain!Close
  BY <1>5 DEF Plain!Close, Plain!Idle, PlainInv, Plain!TypeOK
<1>6. CASE UNCHANGED plainVars
  BY <1>6 DEF plainVars, PlainInv, Plain!TypeOK
<1> QED BY <1>1, <1>2, <1>3, <1>4, <1>5, <1>6 DEF Plain!Next, Plain!Command

-------------------------------------------------------------------------------
(*****************************************************************************)
(* The mailbox, in the order in which mail comes.                            *)
(*****************************************************************************)
(* The place of a message in the order in which mail comes.                  *)
Pos(m) == CHOOSE i \in 1 .. Len(Mail) : Mail[i] = m

Sorted(box) == \A i, j \in 1 .. Len(box) : i < j => Pos(box[i]) < Pos(box[j])

(* Every message comes once.                                                 *)
LEMMA MailPos ==
  ASSUME EmailAssumption
  PROVE  /\ \A m \in Messages : Pos(m) \in 1 .. Len(Mail) /\ Mail[Pos(m)] = m
         /\ \A i \in 1 .. Len(Mail) : Mail[i] \in Messages /\ Pos(Mail[i]) = i
         /\ IsFiniteSet(Messages) /\ Len(Mail) \in Nat
<1>1. \A m \in Messages : Pos(m) \in 1 .. Len(Mail) /\ Mail[Pos(m)] = m
  BY DEF Pos, Messages
<1>2. \A i \in 1 .. Len(Mail) : Mail[i] \in Messages /\ Pos(Mail[i]) = i
  <2> TAKE i \in 1 .. Len(Mail)
  <2>1. Mail[i] \in Messages
    BY DEF Messages
  <2>2. Pos(Mail[i]) \in 1 .. Len(Mail) /\ Mail[Pos(Mail[i])] = Mail[i]
    BY <1>1, <2>1
  <2> QED BY <2>1, <2>2 DEF EmailAssumption
<1>3. Len(Mail) \in Nat
  BY DEF EmailAssumption
<1>4. IsFiniteSet(Messages)
  <2> DEFINE f == [m \in Messages |-> Pos(m)]
  <2>1. f \in Injection(Messages, 1 .. Len(Mail))
    <3>1. f \in [Messages -> 1 .. Len(Mail)]
      BY <1>1
    <3>2. \A a, b \in Messages : f[a] = f[b] => a = b
      BY <1>1
    <3> QED BY <3>1, <3>2 DEF Injection, IsInjective
  <2>2. IsFiniteSet(1 .. Len(Mail))
    BY <1>3, FS_Interval
  <2> QED BY <2>1, <2>2, FS_Injection
<1> QED BY <1>1, <1>2, <1>3, <1>4

(* A mailbox in that order has no message twice.                             *)
LEMMA BoxSize ==
  ASSUME EmailAssumption, NEW box \in Seq(Messages), Sorted(box)
  PROVE  IsFiniteSet(In(box)) /\ Cardinality(In(box)) = Len(box) /\ In(box) \subseteq Messages
<1>1. Len(box) \in Nat /\ In(box) \subseteq Messages
  BY DEF In
<1>2. box \in Bijection(1 .. Len(box), In(box))
  <2>1. box \in [1 .. Len(box) -> In(box)]
    BY DEF In
  <2>2. ASSUME NEW i \in 1 .. Len(box), NEW j \in 1 .. Len(box), box[i] = box[j] PROVE i = j
    <3>1. /\ Pos(box[i]) \in Nat /\ Pos(box[j]) \in Nat
      <4>1. box[i] \in Messages /\ box[j] \in Messages
        OBVIOUS
      <4> QED BY <4>1, MailPos
    <3>2. CASE i < j
      BY <2>2, <3>1, <3>2 DEF Sorted
    <3>3. CASE j < i
      BY <2>2, <3>1, <3>3 DEF Sorted
    <3> QED BY <3>2, <3>3
  <2>3. \A m \in In(box) : \E i \in 1 .. Len(box) : box[i] = m
    BY DEF In
  <2> QED BY <2>1, <2>2, <2>3 DEF Bijection, Injection, Surjection, IsInjective
<1>3. ExistsBijection(1 .. Len(box), In(box))
  BY <1>2 DEF ExistsBijection
<1>4. Cardinality(In(box)) = Len(box)
  BY <1>1, <1>3, FS_CountingElements
<1>5. IsFiniteSet(In(box))
  BY <1>1, <1>3, FS_NatBijection
<1> QED BY <1>1, <1>4, <1>5

(* Mail that comes later goes to the end.                                    *)
LEMMA BoxGrows ==
  ASSUME EmailAssumption, NEW box \in Seq(Messages), Sorted(box), NEW m \in Messages,
         \A b \in In(box) : Pos(b) < Pos(m)
  PROVE  /\ Append(box, m) \in Seq(Messages) /\ Sorted(Append(box, m))
         /\ In(Append(box, m)) = In(box) \cup {m}
<1> DEFINE more == Append(box, m)
<1>1. /\ more \in Seq(Messages) /\ Len(more) = Len(box) + 1 /\ Len(box) \in Nat
      /\ more[Len(box) + 1] = m /\ \A i \in 1 .. Len(box) : more[i] = box[i]
  OBVIOUS
<1> HIDE DEF more
<1>2. Sorted(more)
  <2>1. ASSUME NEW i \in 1 .. Len(more), NEW j \in 1 .. Len(more), i < j
        PROVE  Pos(more[i]) < Pos(more[j])
    <3>1. i \in 1 .. Len(box) /\ more[i] = box[i] /\ box[i] \in In(box)
      BY <1>1, <2>1 DEF In
    <3>2. CASE j = Len(box) + 1
      BY <1>1, <3>1, <3>2
    <3>3. CASE j \in 1 .. Len(box)
      BY <1>1, <2>1, <3>1, <3>3 DEF Sorted
    <3> QED BY <1>1, <2>1, <3>2, <3>3
  <2> QED BY <2>1 DEF Sorted
<1>3. In(more) = In(box) \cup {m}
  <2>1. \A i \in 1 .. Len(more) : more[i] \in In(box) \cup {m}
    <3> TAKE i \in 1 .. Len(more)
    <3>1. i \in 1 .. Len(box) \/ i = Len(box) + 1
      BY <1>1
    <3> QED BY <1>1, <3>1 DEF In
  <2>2. In(box) \subseteq In(more)
    <3> SUFFICES ASSUME NEW i \in 1 .. Len(box) PROVE box[i] \in In(more)
      BY DEF In
    <3>1. i \in 1 .. Len(more) /\ more[i] = box[i]
      BY <1>1
    <3> QED BY <3>1 DEF In
  <2>3. m \in In(more)
    BY <1>1 DEF In
  <2> QED BY <2>1, <2>2, <2>3 DEF In
<1> QED BY <1>1, <1>2, <1>3 DEF more

(* What is left of a mailbox is in order.                                    *)
LEMMA BoxShrinks ==
  ASSUME EmailAssumption, NEW box \in Seq(Messages), Sorted(box), NEW i \in 1 .. Len(box)
  PROVE  /\ Without(box, i) \in Seq(Messages) /\ Sorted(Without(box, i))
         /\ In(Without(box, i)) \subseteq In(box)
<1> DEFINE head == SubSeq(box, 1, i - 1)
           tail == SubSeq(box, i + 1, Len(box))
           rest == head \o tail
<1>1. /\ Len(box) \in Nat /\ i \in Nat /\ i >= 1 /\ i <= Len(box)
      /\ \A k \in 1 .. Len(box) : box[k] \in Messages
  OBVIOUS
<1>2. /\ head \in Seq(Messages) /\ Len(head) = i - 1
      /\ \A k \in 1 .. i - 1 : head[k] = box[k]
  BY <1>1, SubSeqProperties
<1>3. /\ tail \in Seq(Messages) /\ Len(tail) = Len(box) - i
      /\ \A k \in 1 .. Len(box) - i : tail[k] = box[k + i]
  <2>1. /\ tail \in Seq(Messages)
        /\ Len(tail) = IF i + 1 <= Len(box) THEN Len(box) - (i + 1) + 1 ELSE 0
        /\ \A k \in 1 .. Len(box) - (i + 1) + 1 : tail[k] = box[(i + 1) + k - 1]
    BY <1>1, SubSeqProperties
  <2> HIDE DEF tail
  <2>2. Len(tail) = Len(box) - i
    BY <1>1, <2>1
  <2>3. \A k \in 1 .. Len(box) - i : (i + 1) + k - 1 = k + i /\ k \in 1 .. Len(box) - (i + 1) + 1
    BY <1>1
  <2> QED BY <2>1, <2>2, <2>3
<1> HIDE DEF head, tail
<1>4. /\ rest \in Seq(Messages) /\ Len(rest) = Len(box) - 1
      /\ \A k \in 1 .. Len(box) - 1 : rest[k] = IF k < i THEN box[k] ELSE box[k + 1]
  <2>1. /\ rest \in Seq(Messages) /\ Len(rest) = Len(head) + Len(tail)
        /\ \A k \in 1 .. Len(head) + Len(tail) :
             rest[k] = IF k <= Len(head) THEN head[k] ELSE tail[k - Len(head)]
    BY <1>2, <1>3, ConcatProperties
  <2> HIDE DEF rest
  <2>2. Len(head) + Len(tail) = Len(box) - 1
    BY <1>1, <1>2, <1>3
  <2>3. ASSUME NEW k \in 1 .. Len(box) - 1
        PROVE  rest[k] = IF k < i THEN box[k] ELSE box[k + 1]
    <3>1. CASE k < i
      BY <1>1, <1>2, <2>1, <2>2, <2>3, <3>1
    <3>2. CASE k >= i
      <4>1. /\ k - (i - 1) \in 1 .. Len(box) - i /\ rest[k] = tail[k - (i - 1)]
            /\ k - (i - 1) + i = k + 1
        BY <1>1, <1>2, <2>1, <2>2, <2>3, <3>2
      <4> QED BY <1>3, <3>2, <4>1
    <3> QED BY <1>1, <3>1, <3>2
  <2> QED BY <2>1, <2>2, <2>3
<1> HIDE DEF rest
<1>5. \A k \in 1 .. Len(rest) : /\ k + 1 \in 1 .. Len(box) /\ k \in 1 .. Len(box)
                                /\ rest[k] \in {box[k], box[k + 1]}
  BY <1>1, <1>4
<1>6. Sorted(rest)
  <2>1. ASSUME NEW k \in 1 .. Len(rest), NEW l \in 1 .. Len(rest), k < l
        PROVE  Pos(rest[k]) < Pos(rest[l])
    <3> DEFINE a == IF k < i THEN k ELSE k + 1
               b == IF l < i THEN l ELSE l + 1
    <3>1. a \in 1 .. Len(box) /\ b \in 1 .. Len(box) /\ a < b
      BY <1>1, <1>4, <2>1
    <3>2. rest[k] = box[a] /\ rest[l] = box[b]
      BY <1>4
    <3> QED BY <3>1, <3>2 DEF Sorted
  <2> QED BY <2>1 DEF Sorted
<1>7. In(rest) \subseteq In(box)
  BY <1>5 DEF In
<1> QED BY <1>4, <1>6, <1>7 DEF rest, head, tail, Without

-------------------------------------------------------------------------------
(*****************************************************************************)
(* The e-mail client.                                                        *)
(*****************************************************************************)
Working == op \in {"connect", "getnew"}
Last == snapshot[Len(snapshot)]

(* Mail stays in the order in which it came.                                 *)
MailInv ==
  /\ mailbox \in [Accounts -> Seq(Messages)] /\ arrived \in 0 .. Len(Mail)
  /\ \A a \in Accounts : Sorted(mailbox[a]) /\ \A m \in In(mailbox[a]) : Pos(m) <= arrived
  /\ snapshot \in Seq(Messages) /\ Sorted(snapshot) /\ \A m \in In(snapshot) : Pos(m) <= arrived
  /\ old \in SUBSET Messages /\ \A m \in old : Pos(m) <= arrived

(* What is not old came later than all that is, and what is left of the old  *)
(* is no more than the count.                                                *)
CountInv ==
  /\ username \in Accounts \cup {NoAccount} /\ initialEmailCount \in Nat
  /\ initialCountSet \in BOOLEAN /\ (initialCountSet => username \in Accounts)
  /\ username \in Accounts =>
       \A m \in In(mailbox[username]) \ old, o \in old : Pos(o) < Pos(m)
  /\ initialCountSet => /\ Cardinality(In(mailbox[username]) \cap old) <= initialEmailCount
                        /\ initialEmailCount <= Cardinality(old)

(* The same for what the session shows; mail that it does not is later.      *)
ShowsMail ==
  /\ owner = username /\ username \in Accounts
  /\ In(mailbox[username]) \cap old \subseteq In(snapshot)
  /\ \A m \in In(mailbox[username]) \ In(snapshot), s \in In(snapshot) : Pos(s) < Pos(m)
  /\ \A m \in In(snapshot) \ old, o \in old : Pos(o) < Pos(m)
  /\ initialCountSet => Cardinality(In(snapshot) \cap old) <= initialEmailCount

Refused == call.stage = "failed" \/ (call.stage = "resp" /\
             \A i \in 1 .. Len(due) : due[i].kind # "plus")

(* A call that connects works on a session of its own, which is in step.     *)
WorkInv ==
  /\ op \in {"none", "connect", "getnew", "stats", "content"} /\ filtered \in BOOLEAN
  /\ at \in {"closed", "dial", "user", "pass", "baseline", "connected", "count", "latest"}
  /\ op # "none" => result = "nothing" /\ at # "closed"
  /\ op \in {"stats", "content"} => at \in {"count", "latest"}
  /\ Working => username \in Accounts /\ (slipped => call.stage = "failed")
  /\ Working /\ at \in {"baseline", "connected", "count", "latest"} => ShowsMail
  /\ Working /\ at = "pass" => ShowsMail \/ Refused
  /\ Working /\ at \in {"connected", "count", "latest"} => initialCountSet
  /\ Working /\ at = "connected" => call.stage = "ok"

(* What it reads is the size of the snapshot, and its last message.          *)
ReadInv ==
  /\ Working /\ at \in {"baseline", "count"} =>
       /\ call.cmd = "stat"
       /\ call.stage = "resp" => \A i \in 1 .. Len(due) : due[i].kind = "plus" =>
                                                           due[i].val = Len(snapshot)
       /\ call.stage = "ok" => call.got = {Len(snapshot)}
  /\ Working /\ at = "latest" =>
       /\ call.cmd = "retr" /\ snapshot # <<>> /\ Last \notin old
       /\ call.stage \in {"resp", "lines"} =>
            \A i \in 1 .. Len(due) : due[i].val \in {NoValue, Last}
       /\ call.got \subseteq {Last}

EmailInv == /\ SessionInv /\ MailInv /\ CountInv /\ WorkInv /\ ReadInv
            /\ ReturnedIsNew /\ NoneMeansNoMore

(* A session that is dropped is in step.                                     *)
LEMMA EmailDrops ==
  ASSUME CommandsAssumption, NEW next, DropSession(next)
  PROVE  SessionInv'
<1>1. /\ conn' = "none" /\ tlsEstablished' = FALSE /\ hears' = "plain" /\ due' = <<>>
      /\ issued' = 0 /\ slipped' = FALSE /\ 0 \in 0 .. MaxCalls
      /\ call' = [cmd |-> "connect", stage |-> "dial", own |-> TRUE, got |-> {}]
  BY DEF DropSession, NewCall, CommandsAssumption
<1>2. /\ call'.cmd = "connect" /\ call'.stage = "dial" /\ call'.own /\ call'.got = {}
      /\ call' \in [cmd : ShortCmds \cup LongCmds \cup {"connect", "stls"}, stage : Stages,
                    own : BOOLEAN, got : SUBSET Values]
      /\ due' \in Seq(Lines) /\ Len(due') = 0
  BY <1>1 DEF Stages
<1>3. TypeOK'
  <2>1. \A i \in 1 .. Len(due') : due'[i].n \in 0 .. issued' /\ due'[i].kind \in Kinds
    BY <1>2
  <2> QED BY <1>1, <1>2, <2>1 DEF TypeOK
<1> QED BY <1>1, <1>2, <1>3 DEF SessionInv, Owes

(* A command of a session in step, and what is due of its answer.            *)
LEMMA EmailAsks ==
  ASSUME CommandsAssumption, EmailAssumption, SessionInv, ~slipped, call.stage = "ok",
         NEW cmd \in {"user", "pass", "stat", "retr"}, NEW answer \in Seq(Lines),
         Answer(answer, cmd \in LongCmds), Issue(cmd, answer)
  PROVE  /\ SessionInv' /\ ~slipped'
         /\ call'.cmd = cmd /\ call'.got = {} /\ call'.stage \in {"failed", "resp"}
         /\ call'.stage = "resp" =>
              /\ \A i \in 1 .. Len(due') :
                   i \in 1 .. Len(answer) /\ due'[i].kind = answer[i].kind
                   /\ due'[i].val = answer[i].val
<1>1. SessionInv'
  <2>1. cmd \in ShortCmds \cup LongCmds \cup {"stls"} /\ cmd # "stls"
    BY DEF EmailAssumption
  <2> QED BY <2>1, SessionIssue
<1>2. /\ due = <<>> /\ issued \in Nat
  BY DEF SessionInv, Owes, TypeOK, CommandsAssumption
<1>3. /\ Numbered(answer) \in Seq(Lines) /\ Len(Numbered(answer)) = Len(answer)
      /\ \A i \in 1 .. Len(answer) : /\ Numbered(answer)[i].kind = answer[i].kind
                                     /\ Numbered(answer)[i].val = answer[i].val
  BY <1>2, SessionNumbers
<1>4. CASE call' = NewCall(cmd, "failed")
  BY <1>1, <1>4 DEF Issue, NewCall
<1>5. CASE call' = NewCall(cmd, "resp") /\ due' = IF hears = conn THEN due \o Numbered(answer) ELSE due
  <2>1. due' = <<>> \/ due' = Numbered(answer)
    BY <1>2, <1>3, <1>5, ConcatEmptySeq
  <2>2. \A i \in 1 .. Len(due') :
          i \in 1 .. Len(answer) /\ due'[i].kind = answer[i].kind /\ due'[i].val = answer[i].val
    BY <1>3, <2>1
  <2>3. call'.cmd = cmd /\ call'.got = {} /\ call'.stage = "resp"
    BY <1>5 DEF NewCall
  <2> QED BY <1>1, <2>2, <2>3 DEF Issue
<1> QED BY <1>4, <1>5 DEF Issue

(* What the server of the mailbox answers.                                   *)
LEMMA EmailAnswers ==
  ASSUME MailInv
  PROVE  /\ Refusal \in Seq(Lines) /\ Len(Refusal) = 1 /\ Refusal[1].kind = "err"
         /\ Refusal[1].val = NoValue
         /\ \A v \in Values : /\ Plus(v) \in Seq(Lines) /\ Len(Plus(v)) = 1
                               /\ Plus(v)[1].val = v
         /\ \A i \in 1 .. Len(snapshot) + 1 : \A a \in RetrAnswers(i) :
              /\ a \in Seq(Lines) /\ Answer(a, TRUE)
              /\ \A k \in 1 .. Len(a) : a[k].val = NoValue
                                        \/ (i \in 1 .. Len(snapshot) /\ a[k].val = snapshot[i])
<1>1. \A k \in Kinds, v \in Values :
        Line(0, k, v) \in Lines /\ Line(0, k, v).kind = k /\ Line(0, k, v).val = v
  BY DEF Line, Lines
<1>2. {"plus", "err", "text", "dot"} \subseteq Kinds /\ NoValue \in Values
  BY DEF Kinds, Values
<1>3. /\ Refusal \in Seq(Lines) /\ Len(Refusal) = 1 /\ Refusal[1].kind = "err"
      /\ Refusal[1].val = NoValue
  BY <1>1, <1>2 DEF Refusal
<1>4. ASSUME NEW v \in Values
      PROVE  Plus(v) \in Seq(Lines) /\ Len(Plus(v)) = 1 /\ Plus(v)[1].val = v
  BY <1>1, <1>2 DEF Plus
<1>5. ASSUME NEW i \in 1 .. Len(snapshot) + 1, NEW a \in RetrAnswers(i)
      PROVE  /\ a \in Seq(Lines) /\ Answer(a, TRUE)
             /\ \A k \in 1 .. Len(a) : a[k].val = NoValue
                                       \/ (i \in 1 .. Len(snapshot) /\ a[k].val = snapshot[i])
  <2>1. CASE a = Refusal
    <3>1. Len(a) = 1 /\ 1 .. 1 = {1}
      BY <1>3, <2>1
    <3> QED BY <1>3, <2>1, <3>1 DEF Answer
  <2>2. ASSUME i \in 1 .. Len(snapshot),
               a = <<Line(0, "plus", NoValue), Line(0, "text", snapshot[i]),
                     Line(0, "dot", NoValue)>>
        PROVE  /\ a \in Seq(Lines) /\ Answer(a, TRUE)
               /\ \A k \in 1 .. Len(a) : a[k].val = NoValue \/ a[k].val = snapshot[i]
    <3> DEFINE p == Line(0, "plus", NoValue)
               t == Line(0, "text", snapshot[i])
               d == Line(0, "dot", NoValue)
    <3>1. snapshot[i] \in Values
      BY <2>2 DEF MailInv, Values
    <3>2. /\ p \in Lines /\ t \in Lines /\ d \in Lines
          /\ p.kind = "plus" /\ t.kind = "text" /\ d.kind = "dot"
          /\ p.val = NoValue /\ t.val = snapshot[i] /\ d.val = NoValue
      BY <1>1, <1>2, <3>1
    <3>3. a = <<p, t, d>>
      BY <2>2
    <3> HIDE DEF p, t, d
    <3>4. /\ a \in Seq(Lines) /\ Len(a) = 3 /\ a[1] = p /\ a[2] = t /\ a[3] = d
      BY <3>2, <3>3
    <3> QED BY <3>2, <3>4 DEF Answer, LastDot
  <2>3. a = Refusal \/ (i \in 1 .. Len(snapshot) /\
          a = <<Line(0, "plus", NoValue), Line(0, "text", snapshot[i]), Line(0, "dot", NoValue)>>)
    BY <1>5 DEF RetrAnswers
  <2> QED BY <2>1, <2>2, <2>3
<1> QED BY <1>3, <1>4, <1>5

(* A call that has returned nothing says nothing about the mail.             *)
LEMMA EmailSilent ==
  ASSUME EmailAssumption, result' \in {"nothing", "error"}
  PROVE  ReturnedIsNew' /\ NoneMeansNoMore'
  BY DEF EmailAssumption, ReturnedIsNew, NoneMeansNoMore

(* What is said of the mail depends on the mail, the account and the counts. *)
LEMMA EmailMailKept ==
  ASSUME MailInv, CountInv, UNCHANGED <<username, old, countVars, boxVars, sessionVars>>
  PROVE  MailInv' /\ CountInv' /\ (ShowsMail => ShowsMail')
<1>1. UNCHANGED <<username, old, initialEmailCount, initialCountSet, mailbox, arrived, owner,
                  snapshot>>
  BY DEF countVars, boxVars, sessionVars
<1>2. MailInv'
  BY <1>1 DEF MailInv
<1>3. CountInv'
  BY <1>1 DEF CountInv
<1>4. ShowsMail => ShowsMail'
  BY <1>1 DEF ShowsMail
<1> QED BY <1>2, <1>3, <1>4

(* What is said of the session depends on the session.                       *)
LEMMA EmailReadKept ==
  ASSUME EmailInv, UNCHANGED <<popVars, op, at, snapshot>>, old' \subseteq old \/ at # "latest"
  PROVE  SessionInv' /\ ReadInv'
<1>1. UNCHANGED <<conn, tlsEstablished, call, issued, due, hears, slipped>>
  BY DEF popVars
<1>2. SessionInv'
  BY <1>1 DEF EmailInv, SessionInv, TypeOK, Owes, Answer, LastDot
<1> QED BY <1>1, <1>2 DEF EmailInv, ReadInv, Working, Last

(* Mail arrives.                                                             *)
LEMMA EmailArrives ==
  ASSUME EmailAssumption, EmailInv, NEW a \in Accounts, Arrive(a)
  PROVE  EmailInv'
<1> DEFINE m == Mail[arrived + 1]
<1>1. /\ UNCHANGED <<popVars, username, old, countVars, op, at, filtered, result, ops, sessionVars>>
      /\ arrived' = arrived + 1 /\ arrived + 1 \in 1 .. Len(Mail) /\ arrived \in Nat
      /\ mailbox' = [mailbox EXCEPT ![a] = Append(@, m)]
  BY MailPos DEF Arrive, EmailInv, MailInv
<1>2. m \in Messages /\ Pos(m) = arrived + 1
  BY <1>1, MailPos
<1> HIDE DEF m
<1>3. /\ mailbox[a] \in Seq(Messages) /\ Sorted(mailbox[a])
      /\ \A b \in In(mailbox[a]) : b \in Messages /\ Pos(b) \in Nat /\ Pos(b) <= arrived
  <2>1. mailbox[a] \in Seq(Messages) /\ Sorted(mailbox[a])
        /\ \A b \in In(mailbox[a]) : Pos(b) <= arrived
    BY DEF EmailInv, MailInv
  <2>2. \A b \in In(mailbox[a]) : b \in Messages
    BY <2>1, BoxSize
  <2> QED BY <2>1, <2>2, MailPos
<1>4. /\ Append(mailbox[a], m) \in Seq(Messages) /\ Sorted(Append(mailbox[a], m))
      /\ In(Append(mailbox[a], m)) = In(mailbox[a]) \cup {m}
  <2>1. \A b \in In(mailbox[a]) : Pos(b) < Pos(m)
    BY <1>1, <1>2, <1>3
  <2> QED BY <1>2, <1>3, <2>1, BoxGrows
<1>5. /\ mailbox' \in [Accounts -> Seq(Messages)]
      /\ \A b \in Accounts : b # a => mailbox'[b] = mailbox[b]
      /\ mailbox'[a] = Append(mailbox[a], m)
  BY <1>1, <1>4 DEF EmailInv, MailInv
<1>6. \A o \in old \cup In(snapshot) : Pos(o) \in Nat /\ Pos(o) <= arrived /\ Pos(o) < Pos(m)
                                     /\ o # m
  <2>1. snapshot \in Seq(Messages) /\ Sorted(snapshot)
    BY DEF EmailInv, MailInv
  <2>2. \A o \in old \cup In(snapshot) : o \in Messages /\ Pos(o) <= arrived
    BY <2>1, BoxSize DEF EmailInv, MailInv
  <2> QED BY <1>1, <1>2, <2>2, MailPos
<1>7. UNCHANGED <<username, old, initialEmailCount, initialCountSet, op, at, filtered, result,
                  owner, snapshot>>
  BY <1>1 DEF countVars, sessionVars
<1>8. MailInv'
  <2>1. \A b \in Accounts : Sorted(mailbox'[b]) /\ \A x \in In(mailbox'[b]) : Pos(x) <= arrived'
    <3> TAKE b \in Accounts
    <3>1. CASE b = a
      BY <1>1, <1>2, <1>3, <1>4, <1>5, <3>1
    <3>2. CASE b # a
      <4>1. mailbox'[b] = mailbox[b] /\ Sorted(mailbox[b]) /\ mailbox[b] \in Seq(Messages)
            /\ \A x \in In(mailbox[b]) : Pos(x) <= arrived
        BY <1>5, <3>2 DEF EmailInv, MailInv
      <4>2. \A x \in In(mailbox[b]) : Pos(x) \in Nat
        BY <4>1, BoxSize, MailPos
      <4> QED BY <1>1, <4>1, <4>2
    <3> QED BY <3>1, <3>2
  <2>2. \A o \in old \cup In(snapshot) : Pos(o) <= arrived'
    BY <1>1, <1>6
  <2>3. arrived' \in 0 .. Len(Mail)
    BY <1>1, MailPos
  <2> QED BY <1>5, <1>7, <2>1, <2>2, <2>3 DEF EmailInv, MailInv
<1>9. /\ username \in Accounts => /\ In(mailbox'[username]) \subseteq In(mailbox[username]) \cup {m}
                                  /\ In(mailbox'[username]) \cap old = In(mailbox[username]) \cap old
  BY <1>4, <1>5, <1>6
<1>10. CountInv'
  BY <1>6, <1>7, <1>9 DEF EmailInv, CountInv
<1>11. ShowsMail => ShowsMail'
  BY <1>6, <1>7, <1>9 DEF ShowsMail
<1>12. WorkInv'
  BY <1>1, <1>7, <1>11 DEF EmailInv, WorkInv, Working, Refused, popVars
<1>13. ReturnedIsNew' /\ NoneMeansNoMore'
  BY <1>7 DEF EmailInv, ReturnedIsNew, NoneMeansNoMore
<1>14. SessionInv' /\ ReadInv'
  BY <1>1, <1>7, EmailReadKept
<1> QED BY <1>8, <1>10, <1>12, <1>13, <1>14 DEF EmailInv

(* Mail is removed.                                                          *)
LEMMA EmailRemoves ==
  ASSUME EmailAssumption, EmailInv, NEW a \in Accounts, Remove(a)
  PROVE  EmailInv'
<1>1. PICK i \in 1 .. Len(mailbox[a]) :
        /\ mailbox' = [mailbox EXCEPT ![a] = Without(@, i)]
        /\ UNCHANGED <<popVars, username, old, countVars, op, at, filtered, result, ops, arrived,
                       sessionVars>>
  BY DEF Remove
<1>2. mailbox[a] \in Seq(Messages) /\ Sorted(mailbox[a])
  BY DEF EmailInv, MailInv
<1>3. /\ Without(mailbox[a], i) \in Seq(Messages) /\ Sorted(Without(mailbox[a], i))
      /\ In(Without(mailbox[a], i)) \subseteq In(mailbox[a])
  BY <1>2, BoxShrinks
<1>4. /\ mailbox' \in [Accounts -> Seq(Messages)]
      /\ \A b \in Accounts : Sorted(mailbox'[b]) /\ In(mailbox'[b]) \subseteq In(mailbox[b])
  <2>1. mailbox' \in [Accounts -> Seq(Messages)] /\ mailbox'[a] = Without(mailbox[a], i)
        /\ \A b \in Accounts : b # a => mailbox'[b] = mailbox[b]
    BY <1>1, <1>3 DEF EmailInv, MailInv
  <2> QED BY <1>3, <2>1 DEF EmailInv, MailInv
<1>5. UNCHANGED <<username, old, initialEmailCount, initialCountSet, op, at, filtered, result,
                  owner, snapshot, arrived>>
  BY <1>1 DEF countVars, sessionVars
<1>6. MailInv'
  BY <1>4, <1>5 DEF EmailInv, MailInv
<1>7. CountInv'
  <2>1. ASSUME initialCountSet
        PROVE  Cardinality(In(mailbox'[username]) \cap old) <= initialEmailCount
    <3>1. /\ username \in Accounts /\ initialEmailCount \in Nat /\ old \in SUBSET Messages
          /\ Cardinality(In(mailbox[username]) \cap old) <= initialEmailCount
      BY <2>1 DEF EmailInv, CountInv, MailInv
    <3>2. In(mailbox'[username]) \cap old \in SUBSET (In(mailbox[username]) \cap old)
      BY <1>4, <3>1
    <3>3. IsFiniteSet(In(mailbox[username]) \cap old)
      BY <3>1, MailPos, FS_Subset
    <3>4. /\ Cardinality(In(mailbox'[username]) \cap old) <= Cardinality(In(mailbox[username]) \cap old)
          /\ Cardinality(In(mailbox'[username]) \cap old) \in Nat
          /\ Cardinality(In(mailbox[username]) \cap old) \in Nat
      BY <3>2, <3>3, FS_Subset, FS_CardinalityType
    <3> QED BY <3>1, <3>4
  <2> QED BY <1>4, <1>5, <2>1 DEF EmailInv, CountInv
<1>8. ShowsMail => ShowsMail'
  BY <1>4, <1>5 DEF ShowsMail
<1>9. WorkInv'
  BY <1>1, <1>5, <1>8 DEF EmailInv, WorkInv, Working, Refused, popVars
<1>10. ReturnedIsNew' /\ NoneMeansNoMore'
  BY <1>5 DEF EmailInv, ReturnedIsNew, NoneMeansNoMore
<1>11. SessionInv' /\ ReadInv'
  BY <1>1, <1>5, EmailReadKept
<1> QED BY <1>6, <1>7, <1>9, <1>10, <1>11 DEF EmailInv

(* SetEmail: what the mailbox has is old, and nothing is known of its count. *)
LEMMA EmailSets ==
  ASSUME EmailAssumption, EmailInv, NEW a \in Accounts, SetEmail(a)
  PROVE  EmailInv'
<1>1. /\ op = "none" /\ username' = a /\ result' = "nothing" /\ old' = In(mailbox[a])
      /\ initialEmailCount' = 0 /\ initialCountSet' = FALSE
      /\ UNCHANGED <<popVars, op, at, filtered, mailbox, arrived, owner, snapshot>>
  BY DEF SetEmail, boxVars, sessionVars
<1>2. /\ mailbox[a] \in Seq(Messages) /\ Sorted(mailbox[a])
      /\ \A m \in In(mailbox[a]) : Pos(m) <= arrived
  BY DEF EmailInv, MailInv
<1>3. In(mailbox[a]) \subseteq Messages
  BY <1>2, BoxSize
<1>4. MailInv'
  BY <1>1, <1>2, <1>3 DEF EmailInv, MailInv
<1>5. CountInv'
  BY <1>1 DEF CountInv
<1>6. WorkInv' /\ ReadInv' /\ SessionInv'
  <2>1. SessionInv'
    BY <1>1 DEF EmailInv, popVars, SessionInv, TypeOK, Owes, Answer, LastDot
  <2>2. WorkInv' /\ ReadInv'
    BY <1>1 DEF EmailInv, WorkInv, ReadInv, Working
  <2> QED BY <2>1, <2>2
<1> QED BY <1>1, <1>4, <1>5, <1>6, EmailSilent DEF EmailInv

(* A session is dropped, for the next one or for good.                       *)
LEMMA EmailLeaves ==
  ASSUME CommandsAssumption, EmailAssumption, EmailInv, NEW next, DropSession(next),
         UNCHANGED <<username, old, countVars, boxVars>>, filtered' \in BOOLEAN,
         \/ next = "dial" /\ op' \in {"connect", "getnew"} /\ result' = "nothing"
                          /\ username # NoAccount
         \/ next = "closed" /\ op' = "none" /\ result' \in {"nothing", "error"}
  PROVE  EmailInv'
<1>1. /\ UNCHANGED <<username, old, initialEmailCount, initialCountSet, mailbox, arrived>>
      /\ at' = next /\ slipped' = FALSE /\ snapshot' = <<>>
  BY DEF DropSession, countVars, boxVars
<1>2. SessionInv'
  BY EmailDrops
<1>3. MailInv'
  <2>1. \A i \in 1 .. Len(snapshot') : FALSE
    BY <1>1
  <2>2. snapshot' \in Seq(Messages) /\ Sorted(snapshot') /\ In(snapshot') = {}
    BY <1>1, <2>1 DEF Sorted, In
  <2>3. /\ mailbox' \in [Accounts -> Seq(Messages)] /\ arrived' \in 0 .. Len(Mail)
        /\ \A a \in Accounts : Sorted(mailbox'[a]) /\ \A m \in In(mailbox'[a]) : Pos(m) <= arrived'
        /\ old' \in SUBSET Messages /\ \A m \in old' : Pos(m) <= arrived'
    BY <1>1 DEF EmailInv, MailInv
  <2> QED BY <2>2, <2>3 DEF MailInv
<1>4. CountInv'
  BY <1>1 DEF EmailInv, CountInv
<1>5. WorkInv'
  BY <1>1 DEF EmailInv, WorkInv, CountInv, Working
<1>6. ReadInv'
  BY <1>1 DEF ReadInv, Working
<1>7. result' \in {"nothing", "error"}
  OBVIOUS
<1> QED BY <1>2, <1>3, <1>4, <1>5, <1>6, <1>7, EmailSilent DEF EmailInv

(* The lines of a command: a call that has sent it fails or reads the next.  *)
LEMMA EmailExchanges ==
  ASSUME CommandsAssumption, SessionInv, Exchange
  PROVE  /\ call.stage \in {"dial", "handshake", "resp", "lines"} /\ call'.cmd = call.cmd
         /\ call.stage \in {"resp", "lines"} =>
              /\ slipped' => slipped \/ call'.stage = "failed"
              /\ \/ call'.stage = "failed" /\ call'.got = call.got
                 \/ \E line : /\ Reads(line) /\ line \in {due[i] : i \in 1 .. Len(due)}
                              /\ call.stage = "resp" => line.kind = "plus"
                              /\ call'.got = call.got \cup ({line.val} \ {NoValue})
                              /\ call'.stage \in {"lines", "handshake", "ok"}
<1> DEFINE Failed == call'.stage = "failed" /\ call'.got = call.got /\ call'.cmd = call.cmd
           Read(line) == /\ call'.got = call.got \cup ({line.val} \ {NoValue})
                         /\ call'.cmd = call.cmd
                         /\ call'.stage \in {"lines", "handshake", "ok"}
<1>1. call \in [cmd : ShortCmds \cup LongCmds \cup {"connect", "stls"}, stage : Stages,
                own : BOOLEAN, got : SUBSET Values]
  BY DEF SessionInv
<1>2. Return("failed") => Failed
  BY <1>1 DEF Return
<1>3. ASSUME NEW line, NEW stage \in {"lines", "handshake", "ok"}, Take(line, stage)
      PROVE  Read(line)
  BY <1>1, <1>3 DEF Take
<1>4. CASE Dial \/ WrapTLS
  <2>1. call'.cmd = call.cmd
    BY <1>1, <1>4 DEF Dial, WrapTLS, Return
  <2> QED BY <1>4, <2>1 DEF Dial, WrapTLS
<1>5. CASE GetResp
  <2>1. PICK line \in {due[i] : i \in 1 .. Len(due)} :
          /\ Reads(line)
          /\ IF line.kind = "plus"
             THEN \E stage \in {"lines", "handshake", "ok"} : Take(line, stage)
             ELSE Return("failed")
          /\ slipped' = (slipped \/ line.kind = "long")
    BY <1>5 DEF GetResp
  <2>2. CASE line.kind = "plus"
    <3>1. PICK stage \in {"lines", "handshake", "ok"} : Take(line, stage)
      BY <2>1, <2>2
    <3>2. Read(line)
      BY <1>3, <3>1
    <3> QED BY <1>5, <2>1, <2>2, <3>2 DEF GetResp
  <2>3. CASE line.kind # "plus"
    BY <1>2, <1>5, <2>1, <2>3 DEF GetResp
  <2> QED BY <2>2, <2>3
<1>6. CASE GetLine
  <2>1. PICK line \in {due[i] : i \in 1 .. Len(due)} :
          /\ Reads(line)
          /\ IF line.kind = "long" THEN call' = [call EXCEPT !.stage = "failed"]
             ELSE \E stage \in {"lines", "handshake", "ok"} : Take(line, stage)
          /\ slipped' = (slipped \/ line.kind = "long")
    BY <1>6 DEF GetLine
  <2>2. CASE line.kind = "long"
    <3>1. Failed
      BY <1>1, <2>1, <2>2
    <3> QED BY <1>6, <3>1 DEF GetLine
  <2>3. CASE line.kind # "long"
    <3>1. PICK stage \in {"lines", "handshake", "ok"} : Take(line, stage)
      BY <2>1, <2>3
    <3>2. Read(line)
      BY <1>3, <3>1
    <3> QED BY <1>6, <2>1, <2>3, <3>2 DEF GetLine
  <2> QED BY <2>2, <2>3
<1>7. CASE Timeout \/ Break
  BY <1>2, <1>7 DEF Timeout, Break
<1> QED BY <1>4, <1>5, <1>6, <1>7 DEF Exchange

(* A step of the command under way: what it reads is what the server sent.   *)
LEMMA EmailSteps ==
  ASSUME CommandsAssumption, EmailAssumption, EmailInv, Step
  PROVE  EmailInv'
<1>1. /\ op # "none" /\ Exchange
      /\ UNCHANGED <<username, old, countVars, op, at, filtered, result, boxVars, sessionVars>>
      /\ UNCHANGED <<owner, snapshot, initialCountSet>>
  BY DEF Step, sessionVars, countVars
<1>2. SessionInv /\ SessionInv'
  BY <1>1, SessionExchange DEF EmailInv
<1>3. MailInv' /\ CountInv' /\ (ShowsMail => ShowsMail')
  BY <1>1, EmailMailKept DEF EmailInv
<1>4. /\ call.stage \in {"dial", "handshake", "resp", "lines"} /\ call'.cmd = call.cmd
      /\ call.cmd # "connect" /\ call.cmd # "stls" => call.stage \in {"resp", "lines"}
  BY <1>1, <1>2, EmailExchanges DEF SessionInv
<1>5. Working => (slipped' => call'.stage = "failed")
  <2>1. Working => ~slipped
    BY <1>4 DEF EmailInv, WorkInv
  <2>2. CASE call.stage \in {"resp", "lines"}
    BY <1>1, <1>2, <2>1, <2>2, EmailExchanges
  <2>3. CASE call.stage \in {"dial", "handshake"}
    BY <1>1, <2>1, <2>3 DEF Exchange, Dial, WrapTLS, GetResp, GetLine, Timeout, Break
  <2> QED BY <1>4, <2>2, <2>3
<1>6. Refused => Refused'
  <2>1. ASSUME Refused PROVE call'.stage = "failed"
    <3>1. call.stage = "resp" /\ \A i \in 1 .. Len(due) : due[i].kind # "plus"
      BY <1>4, <2>1 DEF Refused
    <3>2. \/ call'.stage = "failed"
          \/ \E line : line \in {due[i] : i \in 1 .. Len(due)} /\ line.kind = "plus"
      BY <1>1, <1>2, <3>1, EmailExchanges
    <3> QED BY <3>1, <3>2
  <2> QED BY <2>1 DEF Refused
<1>7. WorkInv'
  BY <1>1, <1>3, <1>4, <1>5, <1>6 DEF EmailInv, WorkInv, Working
<1>8. ReadInv'
  <2>1. Working' = Working /\ at' = at /\ snapshot' = snapshot /\ old' = old
    BY <1>1 DEF Working
  <2>2. ASSUME Working, at \in {"baseline", "count"}
        PROVE  /\ call'.cmd = "stat" /\ call'.stage # "resp"
               /\ call'.stage = "ok" => call'.got = {Len(snapshot)}
    <3>1. /\ call.cmd = "stat" /\ call.cmd # "connect" /\ call.cmd # "stls" /\ "stat" \notin LongCmds
          /\ call.stage = "resp" => /\ call.got = {}
                                    /\ \A i \in 1 .. Len(due) : due[i].kind = "plus" =>
                                                                  due[i].val = Len(snapshot)
      BY <1>2, <2>2 DEF EmailInv, ReadInv, SessionInv, EmailAssumption, CommandsAssumption
    <3>2. call.stage = "resp"
      BY <1>2, <1>4, <3>1 DEF SessionInv
    <3>3. Len(snapshot) \in Nat /\ NoValue \notin Nat
      BY DEF EmailInv, MailInv, EmailAssumption
    <3>4. \/ call'.stage = "failed"
          \/ \E line : /\ line \in {due[i] : i \in 1 .. Len(due)} /\ line.kind = "plus"
                       /\ call'.got = call.got \cup ({line.val} \ {NoValue})
                       /\ call'.stage \in {"lines", "handshake", "ok"}
      BY <1>1, <1>2, <3>2, EmailExchanges
    <3>5. call'.stage = "failed" \/ call'.got = {Len(snapshot)}
      BY <3>1, <3>2, <3>3, <3>4
    <3> QED BY <1>4, <3>1, <3>4, <3>5
  <2>3. ASSUME Working, at = "latest"
        PROVE  /\ call'.cmd = "retr" /\ snapshot # <<>> /\ Last \notin old
               /\ call'.stage \in {"resp", "lines"} =>
                    \A i \in 1 .. Len(due') : due'[i].val \in {NoValue, Last}
               /\ call'.got \subseteq {Last}
    <3>1. /\ call.cmd = "retr" /\ snapshot # <<>> /\ Last \notin old /\ "retr" # "connect"
          /\ "retr" # "stls" /\ call.got \subseteq {Last}
          /\ call.stage \in {"resp", "lines"} =>
               \A i \in 1 .. Len(due) : due[i].val \in {NoValue, Last}
      BY <2>3 DEF EmailInv, ReadInv
    <3>2. call.stage \in {"resp", "lines"}
      BY <1>4, <3>1
    <3>3. \/ call'.stage = "failed" /\ call'.got = call.got
          \/ \E line : /\ Reads(line) /\ line \in {due[i] : i \in 1 .. Len(due)}
                       /\ call'.got = call.got \cup ({line.val} \ {NoValue})
      BY <1>1, <1>2, <3>2, EmailExchanges
    <3>4. CASE call'.stage = "failed" /\ call'.got = call.got
      BY <1>4, <3>1, <3>4
    <3>5. ASSUME NEW line, Reads(line), line \in {due[i] : i \in 1 .. Len(due)},
                 call'.got = call.got \cup ({line.val} \ {NoValue})
          PROVE  /\ call'.got \subseteq {Last}
                 /\ \A i \in 1 .. Len(due') : due'[i].val \in {NoValue, Last}
      <4>1. due # <<>> /\ due \in Seq(Lines) /\ due' = Tail(due)
        BY <1>2, <3>5 DEF Reads, SessionInv
      <4>2. \A i \in 1 .. Len(due') : \E j \in 1 .. Len(due) : due'[i] = due[j]
        BY <4>1, AnswerReads
      <4> QED BY <3>1, <3>2, <3>5, <4>2
    <3> QED BY <1>4, <3>1, <3>3, <3>4, <3>5
  <2> QED BY <2>1, <2>2, <2>3 DEF ReadInv, Last
<1>9. ReturnedIsNew' /\ NoneMeansNoMore'
  BY <1>1 DEF EmailInv, ReturnedIsNew, NoneMeansNoMore
<1> QED BY <1>2, <1>3, <1>7, <1>8, <1>9 DEF EmailInv

(* A call that connects sends the next command of its session.               *)
LEMMA EmailSends ==
  ASSUME CommandsAssumption, EmailAssumption, EmailInv, Working, call.stage = "ok",
         NEW cmd \in {"user", "pass", "stat", "retr"}, NEW answers, NEW next,
         Ask(cmd, answers, next), UNCHANGED <<countVars, result, sessionVars>>,
         \A a \in answers : a \in Seq(Lines) /\ Answer(a, cmd \in LongCmds)
  PROVE  /\ SessionInv' /\ MailInv' /\ CountInv' /\ ReturnedIsNew' /\ NoneMeansNoMore'
         /\ ShowsMail => ShowsMail'
         /\ op \in {"connect", "getnew"} /\ username' \in Accounts /\ result' = "nothing"
         /\ at' = next /\ ~slipped' /\ filtered' \in BOOLEAN
         /\ UNCHANGED <<op, old, initialCountSet, snapshot>>
         /\ call'.cmd = cmd /\ call'.got = {} /\ call'.stage \in {"failed", "resp"}
         /\ call'.stage = "resp" =>
              \E a \in answers : \A i \in 1 .. Len(due') :
                i \in 1 .. Len(a) /\ due'[i].kind = a[i].kind /\ due'[i].val = a[i].val
<1>1. /\ UNCHANGED <<username, old, op, filtered, countVars, boxVars, sessionVars, result>>
      /\ UNCHANGED <<initialCountSet, snapshot>> /\ at' = next
      /\ op \in {"connect", "getnew"} /\ username \in Accounts /\ result = "nothing"
      /\ op # "none" /\ ~slipped /\ SessionInv /\ filtered \in BOOLEAN
  BY DEF Ask, countVars, sessionVars, Working, EmailInv, WorkInv
<1>2. PICK a \in answers : Issue(cmd, a)
  BY DEF Ask
<1>3. /\ SessionInv' /\ ~slipped'
      /\ call'.cmd = cmd /\ call'.got = {} /\ call'.stage \in {"failed", "resp"}
      /\ call'.stage = "resp" =>
           \A i \in 1 .. Len(due') :
             i \in 1 .. Len(a) /\ due'[i].kind = a[i].kind /\ due'[i].val = a[i].val
  BY <1>1, <1>2, EmailAsks
<1>4. MailInv' /\ CountInv' /\ (ShowsMail => ShowsMail')
  BY <1>1, EmailMailKept DEF EmailInv
<1>5. ReturnedIsNew' /\ NoneMeansNoMore'
  BY <1>1, EmailSilent
<1> QED BY <1>1, <1>3, <1>4, <1>5

(* USER and PASS; the session shows the mailbox as it is when PASS is accepted. *)
LEMMA EmailLogsIn ==
  ASSUME CommandsAssumption, EmailAssumption, EmailInv, LogIn
  PROVE  EmailInv'
<1>1. /\ op # "none" /\ at \in {"dial", "user"} /\ call.stage = "ok" /\ Working /\ ~slipped
      /\ username \in Accounts
  BY DEF LogIn, Returned, EmailInv, WorkInv, Working
<1>2. /\ Refusal \in Seq(Lines) /\ Len(Refusal) = 1 /\ Refusal[1].kind = "err"
      /\ Plus(NoValue) \in Seq(Lines) /\ Len(Plus(NoValue)) = 1
  BY EmailAnswers DEF EmailInv, Values
<1>3. "user" \notin LongCmds /\ "pass" \notin LongCmds
  BY DEF CommandsAssumption, EmailAssumption
<1>4. \A a \in {Plus(NoValue), Refusal} :
        a \in Seq(Lines) /\ Answer(a, "user" \in LongCmds) /\ Answer(a, "pass" \in LongCmds)
  BY <1>2, <1>3 DEF Answer
<1>5. CASE /\ Ask("user", {Plus(NoValue), Refusal}, "user")
           /\ UNCHANGED <<countVars, result, sessionVars>>
  <2>1. /\ SessionInv' /\ MailInv' /\ CountInv' /\ ReturnedIsNew' /\ NoneMeansNoMore'
        /\ op \in {"connect", "getnew"} /\ username' \in Accounts /\ result' = "nothing"
        /\ at' = "user" /\ ~slipped' /\ filtered' \in BOOLEAN /\ op' = op
    BY <1>1, <1>4, <1>5, EmailSends
  <2>2. WorkInv' /\ ReadInv'
    BY <2>1 DEF WorkInv, ReadInv
  <2> QED BY <2>1, <2>2 DEF EmailInv
<1>6. CASE /\ Ask("pass", {Refusal}, "pass")
           /\ UNCHANGED <<countVars, result, sessionVars>>
  <2>1. /\ SessionInv' /\ MailInv' /\ CountInv' /\ ReturnedIsNew' /\ NoneMeansNoMore'
        /\ op \in {"connect", "getnew"} /\ username' \in Accounts /\ result' = "nothing"
        /\ at' = "pass" /\ ~slipped' /\ filtered' \in BOOLEAN /\ op' = op
        /\ call'.stage \in {"failed", "resp"}
        /\ call'.stage = "resp" => \E a \in {Refusal} : \A i \in 1 .. Len(due') :
             i \in 1 .. Len(a) /\ due'[i].kind = a[i].kind /\ due'[i].val = a[i].val
    BY <1>1, <1>4, <1>6, EmailSends
  <2>2. Refused'
    <3>1. \A i \in 1 .. 1 : i = 1
      OBVIOUS
    <3> QED BY <1>2, <2>1, <3>1 DEF Refused
  <2>3. WorkInv' /\ ReadInv'
    BY <2>1, <2>2 DEF WorkInv, ReadInv
  <2> QED BY <2>1, <2>3 DEF EmailInv
<1>7. CASE /\ Ask("pass", {Plus(NoValue)}, "pass")
           /\ owner' = username /\ snapshot' = mailbox[username]
           /\ UNCHANGED <<countVars, result>>
  <2>1. /\ Issue("pass", Plus(NoValue)) /\ at' = "pass"
        /\ UNCHANGED <<username, old, op, filtered, mailbox, arrived, initialEmailCount,
                       initialCountSet, result>>
        /\ owner' = username /\ snapshot' = mailbox[username]
        /\ op \in {"connect", "getnew"} /\ result = "nothing" /\ filtered \in BOOLEAN
    BY <1>1, <1>7 DEF Ask, countVars, boxVars, EmailInv, WorkInv, Working
  <2>2. SessionInv' /\ ~slipped'
    BY <1>1, <1>4, <2>1, EmailAsks DEF EmailInv
  <2>3. MailInv'
    BY <1>1, <2>1 DEF EmailInv, MailInv
  <2>4. CountInv'
    BY <2>1 DEF EmailInv, CountInv
  <2>5. ShowsMail'
    BY <1>1, <2>1 DEF EmailInv, CountInv, ShowsMail
  <2>6. ReturnedIsNew' /\ NoneMeansNoMore'
    BY <2>1, EmailSilent
  <2>7. WorkInv' /\ ReadInv'
    BY <1>1, <2>1, <2>2, <2>5 DEF WorkInv, ReadInv
  <2> QED BY <2>2, <2>3, <2>4, <2>6, <2>7 DEF EmailInv
<1> QED BY <1>5, <1>6, <1>7 DEF LogIn

(* STAT of a session that shows the mail.                                    *)
LEMMA EmailStats ==
  ASSUME CommandsAssumption, EmailAssumption, EmailInv, Working, call.stage = "ok", ShowsMail,
         NEW next \in {"baseline", "count"}, next = "count" => initialCountSet,
         Ask("stat", StatAnswers, next), UNCHANGED <<countVars, result, sessionVars>>
  PROVE  EmailInv'
<1>1. /\ Refusal \in Seq(Lines) /\ Len(Refusal) = 1 /\ Refusal[1].kind = "err"
      /\ Plus(Len(snapshot)) \in Seq(Lines) /\ Len(Plus(Len(snapshot))) = 1
      /\ Plus(Len(snapshot))[1].val = Len(snapshot)
  <2>1. Len(snapshot) \in Values
    BY DEF EmailInv, MailInv, Values
  <2> QED BY <2>1, EmailAnswers DEF EmailInv
<1>2. "stat" \notin LongCmds
  BY DEF CommandsAssumption, EmailAssumption
<1>3. \A a \in StatAnswers :
        /\ a \in Seq(Lines) /\ Answer(a, "stat" \in LongCmds)
        /\ Len(a) = 1 /\ (a[1].kind = "plus" => a[1].val = Len(snapshot))
  BY <1>1, <1>2 DEF Answer, StatAnswers
<1>4. /\ SessionInv' /\ MailInv' /\ CountInv' /\ ReturnedIsNew' /\ NoneMeansNoMore' /\ ShowsMail'
      /\ op \in {"connect", "getnew"} /\ username' \in Accounts /\ result' = "nothing"
      /\ at' = next /\ ~slipped' /\ filtered' \in BOOLEAN
      /\ UNCHANGED <<op, old, initialCountSet, snapshot>>
      /\ call'.cmd = "stat" /\ call'.got = {} /\ call'.stage \in {"failed", "resp"}
      /\ call'.stage = "resp" => \E a \in StatAnswers : \A i \in 1 .. Len(due') :
           i \in 1 .. Len(a) /\ due'[i].kind = a[i].kind /\ due'[i].val = a[i].val
  BY <1>3, EmailSends
<1>5. WorkInv'
  BY <1>4 DEF WorkInv
<1>6. ReadInv'
  <2>1. \A i \in 1 .. 1 : i = 1
    OBVIOUS
  <2>2. call'.stage = "resp" => \A i \in 1 .. Len(due') : due'[i].kind = "plus" =>
                                                            due'[i].val = Len(snapshot)
    BY <1>3, <1>4, <2>1
  <2> QED BY <1>4, <2>2 DEF ReadInv
<1> QED BY <1>4, <1>5, <1>6 DEF EmailInv

(* A session that was logged in shows the mail; the first asks for its count. *)
LEMMA EmailIsLoggedIn ==
  ASSUME CommandsAssumption, EmailAssumption, EmailInv, LoggedIn
  PROVE  EmailInv'
<1>1. op # "none" /\ at = "pass" /\ call.stage = "ok"
  BY DEF LoggedIn, Returned
<1>2. Working /\ ShowsMail
  BY <1>1 DEF EmailInv, WorkInv, Working, Refused
<1>3. CASE Ask("stat", StatAnswers, "baseline") /\ UNCHANGED <<countVars, result, sessionVars>>
  BY <1>1, <1>2, <1>3, EmailStats
<1>4. CASE /\ initialCountSet /\ at' = "connected"
           /\ UNCHANGED <<popVars, username, old, countVars, op, filtered, result, ops, boxVars,
                          sessionVars>>
  <2>1. UNCHANGED <<conn, tlsEstablished, call, issued, due, hears, slipped, initialCountSet, snapshot>>
    BY <1>4 DEF popVars, sessionVars, countVars
  <2>2. MailInv' /\ CountInv' /\ ShowsMail'
    BY <1>2, <1>4, EmailMailKept DEF EmailInv
  <2>3. SessionInv'
    BY <2>1 DEF EmailInv, SessionInv, TypeOK, Owes, Answer, LastDot
  <2>4. WorkInv' /\ ReadInv'
    BY <1>1, <1>2, <1>4, <2>1, <2>2 DEF EmailInv, WorkInv, ReadInv, Working
  <2>5. ReturnedIsNew' /\ NoneMeansNoMore'
    BY <1>1, <1>4, EmailSilent DEF EmailInv, WorkInv
  <2> QED BY <2>2, <2>3, <2>4, <2>5 DEF EmailInv
<1> QED BY <1>3, <1>4 DEF LoggedIn

(* Nothing but what the user sees of a call changes.                         *)
LEMMA EmailKeeps ==
  ASSUME EmailInv, UNCHANGED <<popVars, username, old, countVars, boxVars, sessionVars>>
  PROVE  SessionInv' /\ MailInv' /\ CountInv' /\ (ShowsMail => ShowsMail')
<1>1. UNCHANGED <<conn, tlsEstablished, call, issued, due, hears, slipped>>
  BY DEF popVars
<1>2. SessionInv'
  BY <1>1 DEF EmailInv, SessionInv, TypeOK, Owes, Answer, LastDot
<1> QED BY <1>2, EmailMailKept DEF EmailInv

(* The count that later ones are compared with is that of a snapshot, all of *)
(* which is old from then on.                                                *)
LEMMA EmailCounts ==
  ASSUME EmailInv, Working, at \in {"baseline", "count"}, call.stage = "ok"
  PROVE  Count = Len(snapshot) /\ Len(snapshot) \in Nat
<1>1. Len(snapshot) \in Nat /\ Len(snapshot) \in 0 .. Len(snapshot)
  BY DEF EmailInv, MailInv
<1>2. call.got = {Len(snapshot)}
  BY DEF EmailInv, ReadInv
<1>3. \A n \in 0 .. Len(snapshot) : call.got = {n} <=> n = Len(snapshot)
  BY <1>1, <1>2
<1> QED BY <1>1, <1>3 DEF Count

(* The count of the first session: all it shows is old.                      *)
LEMMA EmailBaseline ==
  ASSUME CommandsAssumption, EmailAssumption, EmailInv, SetBaseline
  PROVE  EmailInv'
<1>1. /\ op # "none" /\ at = "baseline" /\ call.stage = "ok"
      /\ initialEmailCount' = Count /\ initialCountSet' = TRUE
      /\ old' = old \cup In(snapshot) /\ at' = "connected"
      /\ UNCHANGED <<popVars, username, op, filtered, result, mailbox, arrived, owner, snapshot>>
      /\ UNCHANGED slipped
  BY DEF SetBaseline, Returned, boxVars, sessionVars, popVars
<1>2. Working /\ ShowsMail /\ result = "nothing" /\ username \in Accounts /\ filtered \in BOOLEAN
      /\ ~slipped
  BY <1>1 DEF EmailInv, WorkInv, Working, Refused
<1>3. initialEmailCount' = Len(snapshot) /\ Len(snapshot) \in Nat
  BY <1>1, <1>2, EmailCounts
<1>4. /\ IsFiniteSet(In(snapshot)) /\ Cardinality(In(snapshot)) = Len(snapshot)
      /\ In(snapshot) \subseteq Messages /\ old \subseteq Messages
      /\ \A m \in In(snapshot) \cup old : Pos(m) <= arrived
  <2>1. snapshot \in Seq(Messages) /\ Sorted(snapshot)
    BY DEF EmailInv, MailInv
  <2> QED BY <2>1, BoxSize DEF EmailInv, MailInv
<1>5. MailInv'
  BY <1>1, <1>4 DEF EmailInv, MailInv
<1>6. /\ In(mailbox[username]) \cap old' \subseteq In(snapshot)
      /\ In(snapshot) \cap old' = In(snapshot)
  BY <1>1, <1>2 DEF ShowsMail
<1>7. /\ Cardinality(In(mailbox[username]) \cap old') <= Len(snapshot)
      /\ Len(snapshot) <= Cardinality(old')
  <2>1. old' \in SUBSET Messages /\ In(snapshot) \in SUBSET old'
    BY <1>1, <1>4
  <2>2. IsFiniteSet(old')
    BY <2>1, MailPos, FS_Subset
  <2> QED BY <1>4, <1>6, <2>1, <2>2, FS_Subset
<1>8. CountInv'
  <2>1. \A m \in In(mailbox[username]) \ old', o \in old' : Pos(o) < Pos(m)
    BY <1>1, <1>2 DEF EmailInv, CountInv, ShowsMail
  <2> QED BY <1>1, <1>2, <1>3, <1>7, <2>1 DEF CountInv
<1>9. ShowsMail'
  <2>1. /\ owner' = username' /\ username' \in Accounts
        /\ In(mailbox'[username']) = In(mailbox[username]) /\ In(snapshot') = In(snapshot)
    BY <1>1, <1>2 DEF ShowsMail
  <2>2. \A m \in In(mailbox[username]) \ In(snapshot), s \in In(snapshot) : Pos(s) < Pos(m)
    BY <1>2 DEF ShowsMail
  <2>3. Cardinality(In(snapshot) \cap old') <= initialEmailCount'
    <3>1. Cardinality(In(snapshot) \cap old') = Cardinality(In(snapshot))
      BY <1>6, Zenon
    <3> QED BY <1>3, <1>4, <3>1
  <2>4. In(snapshot) \ old' = {}
    BY <1>1
  <2> QED BY <1>6, <2>1, <2>2, <2>3, <2>4 DEF ShowsMail
<1>10. SessionInv'
  BY <1>1 DEF EmailInv, SessionInv, TypeOK, Owes, Answer, LastDot, popVars
<1>11. WorkInv' /\ ReadInv'
  BY <1>1, <1>2, <1>9 DEF EmailInv, WorkInv, ReadInv, Working, popVars
<1>12. ReturnedIsNew' /\ NoneMeansNoMore'
  BY <1>1, <1>2, EmailSilent
<1> QED BY <1>5, <1>8, <1>10, <1>11, <1>12 DEF EmailInv

(* Connect returns, or GetNewEmail asks for the count.                       *)
LEMMA EmailIsConnected ==
  ASSUME CommandsAssumption, EmailAssumption, EmailInv, Connected
  PROVE  EmailInv'
<1>1. CASE /\ op = "connect" /\ at = "connected" /\ Finish("nothing")
           /\ UNCHANGED <<popVars, username, old, countVars, at, filtered, ops, boxVars, sessionVars>>
  <2>1. op' = "none" /\ result' = "nothing" /\ UNCHANGED <<username, old, at, filtered>>
    BY <1>1 DEF Finish
  <2>2. SessionInv' /\ MailInv' /\ CountInv'
    BY <1>1, EmailKeeps
  <2>3. WorkInv' /\ ReadInv'
    BY <2>1 DEF EmailInv, WorkInv, ReadInv, Working
  <2> QED BY <2>1, <2>2, <2>3, EmailSilent DEF EmailInv
<1>2. CASE /\ op = "getnew" /\ at = "connected" /\ Ask("stat", StatAnswers, "count")
           /\ UNCHANGED <<countVars, result, sessionVars>>
  <2>1. Working /\ ShowsMail /\ initialCountSet /\ call.stage = "ok"
    <3>1. PICK a \in StatAnswers : Issue("stat", a)
      BY <1>2 DEF Ask
    <3> QED BY <1>2, <3>1 DEF EmailInv, WorkInv, Working, Issue, Idle
  <2> QED BY <1>2, <2>1, EmailStats
<1> QED BY <1>1, <1>2 DEF Connected

(* The user asks for a count or a message, and gets the answer, on the       *)
(* session there is.                                                         *)
LEMMA EmailAsksAgain ==
  ASSUME CommandsAssumption, EmailAssumption, EmailInv, NEW method \in {"stats", "content"},
         AskAgain(method)
  PROVE  EmailInv'
<1>1. /\ op' = method /\ result' = "nothing" /\ at' \in {"count", "latest"}
      /\ UNCHANGED <<username, old, countVars, filtered, boxVars, sessionVars>>
  BY DEF AskAgain, Begin
<1>2. "stat" \notin LongCmds /\ "retr" \in LongCmds /\ "stat" \in ShortCmds
  BY DEF CommandsAssumption, EmailAssumption
<1>3. \A a \in StatAnswers : a \in Seq(Lines) /\ Answer(a, "stat" \in LongCmds)
  <2>1. Len(snapshot) \in Values
    BY DEF EmailInv, MailInv, Values
  <2> QED BY <1>2, <2>1, EmailAnswers DEF EmailInv, StatAnswers, Answer
<1>4. \A i \in 1 .. Len(snapshot) + 1 : \A a \in RetrAnswers(i) :
        a \in Seq(Lines) /\ Answer(a, "retr" \in LongCmds)
  BY <1>2, EmailAnswers DEF EmailInv
<1>5. SessionInv'
  <2>1. CASE \E a \in StatAnswers : Issue("stat", a)
    BY <1>2, <1>3, <2>1, SessionIssue DEF EmailInv
  <2>2. CASE \E i \in 1 .. Len(snapshot) + 1 : \E a \in RetrAnswers(i) : Issue("retr", a)
    BY <1>2, <1>4, <2>2, SessionIssue DEF EmailInv
  <2> QED BY <2>1, <2>2 DEF AskAgain
<1>6. MailInv' /\ CountInv'
  BY <1>1, EmailMailKept DEF EmailInv
<1>7. WorkInv' /\ ReadInv'
  BY <1>1 DEF EmailInv, WorkInv, ReadInv, Working
<1> QED BY <1>1, <1>5, <1>6, <1>7, EmailSilent DEF EmailInv

(* A count or a message is returned.                                         *)
LEMMA EmailReturns ==
  ASSUME EmailAssumption, EmailInv, AskedReturns
  PROVE  EmailInv'
<1>1. /\ op # "none" /\ op' = "none" /\ result' \in {"nothing", "error"}
      /\ UNCHANGED <<popVars, username, old, countVars, at, filtered, boxVars, sessionVars>>
  BY DEF AskedReturns, Finish
<1>2. SessionInv' /\ MailInv' /\ CountInv'
  BY <1>1, EmailKeeps
<1>3. WorkInv' /\ ReadInv'
  BY <1>1 DEF EmailInv, WorkInv, ReadInv, Working
<1> QED BY <1>1, <1>2, <1>3, EmailSilent DEF EmailInv

(* More messages than there can be old ones: the last is new.                *)
LEMMA EmailLastIsNew ==
  ASSUME EmailAssumption, MailInv, CountInv, ShowsMail, initialCountSet,
         Len(snapshot) > initialEmailCount
  PROVE  snapshot # <<>> /\ Last \in Messages /\ Last \notin old
<1>1. /\ snapshot \in Seq(Messages) /\ Sorted(snapshot) /\ Len(snapshot) \in Nat
      /\ initialEmailCount \in Nat /\ old \subseteq Messages
      /\ Cardinality(In(snapshot) \cap old) <= initialEmailCount
  BY DEF MailInv, CountInv, ShowsMail
<1>2. /\ IsFiniteSet(In(snapshot)) /\ Cardinality(In(snapshot)) = Len(snapshot)
      /\ In(snapshot) \subseteq Messages
  BY <1>1, BoxSize
<1>3. PICK m \in In(snapshot) : m \notin old
  <2>1. ASSUME In(snapshot) \subseteq old PROVE FALSE
    <3>1. In(snapshot) \cap old = In(snapshot)
      BY <2>1
    <3>2. Cardinality(In(snapshot) \cap old) = Cardinality(In(snapshot))
      BY <3>1, Zenon
    <3> QED BY <1>1, <1>2, <3>2
  <2> QED BY <2>1
<1>4. PICK i \in 1 .. Len(snapshot) : m = snapshot[i]
  BY <1>3 DEF In
<1>5. Len(snapshot) \in 1 .. Len(snapshot) /\ Last \in In(snapshot) /\ snapshot # <<>>
  BY <1>1, <1>4 DEF Last, In
<1>6. Pos(m) \in Nat /\ Pos(Last) \in Nat
  BY <1>2, <1>3, <1>5, MailPos
<1>7. i = Len(snapshot) \/ Pos(m) < Pos(Last)
  BY <1>1, <1>4, <1>5 DEF Sorted, Last
<1>8. Last \notin old
  <2>1. ASSUME Last \in old PROVE FALSE
    <3>1. Pos(Last) < Pos(m)
      BY <1>3, <2>1 DEF ShowsMail
    <3>2. i = Len(snapshot)
      BY <1>6, <1>7, <3>1
    <3> QED BY <1>3, <1>4, <2>1, <3>2 DEF Last
  <2> QED BY <2>1
<1> QED BY <1>2, <1>5, <1>8

(* No more messages than there were old ones: no more have come than gone.   *)
LEMMA EmailNoMore ==
  ASSUME EmailAssumption, MailInv, CountInv, initialCountSet,
         Len(snapshot) <= initialEmailCount
  PROVE  Cardinality(In(snapshot) \ old) <= Cardinality(old \ In(snapshot))
<1>1. /\ snapshot \in Seq(Messages) /\ Sorted(snapshot) /\ Len(snapshot) \in Nat
      /\ initialEmailCount \in Nat /\ old \subseteq Messages
      /\ initialEmailCount <= Cardinality(old)
  BY DEF MailInv, CountInv
<1>2. IsFiniteSet(In(snapshot)) /\ Cardinality(In(snapshot)) = Len(snapshot) /\ IsFiniteSet(old)
  BY <1>1, BoxSize, MailPos, FS_Subset
<1>3. /\ Cardinality(In(snapshot) \ old) = Cardinality(In(snapshot)) - Cardinality(In(snapshot) \cap old)
      /\ Cardinality(old \ In(snapshot)) = Cardinality(old) - Cardinality(old \cap In(snapshot))
  BY <1>2, FS_Difference
<1>4. In(snapshot) \cap old = old \cap In(snapshot)
  OBVIOUS
<1>5. Cardinality(In(snapshot) \cap old) = Cardinality(old \cap In(snapshot))
  BY <1>4, Zenon
<1>6. /\ Cardinality(In(snapshot) \cap old) \in Nat /\ Cardinality(old) \in Nat
  BY <1>2, FS_Intersection, FS_CardinalityType
<1> QED BY <1>1, <1>2, <1>3, <1>5, <1>6

(* GetNewEmail compares the counts.                                          *)
LEMMA EmailHasCounted ==
  ASSUME CommandsAssumption, EmailAssumption, EmailInv, Counted
  PROVE  EmailInv'
<1>1. op = "getnew" /\ at = "count" /\ call.stage = "ok"
  BY DEF Counted, Returned
<1>2. /\ Working /\ ShowsMail /\ initialCountSet /\ result = "nothing" /\ filtered \in BOOLEAN
      /\ username \in Accounts
  BY <1>1 DEF EmailInv, WorkInv, Working
<1>3. Count = Len(snapshot) /\ Len(snapshot) \in Nat
  BY <1>1, <1>2, EmailCounts
<1>4. CASE /\ HasNew(Count) /\ Ask("retr", RetrAnswers(Count), "latest")
           /\ UNCHANGED <<countVars, result, sessionVars>>
  <2>1. snapshot # <<>> /\ Last \in Messages /\ Last \notin old
    BY <1>2, <1>3, <1>4, EmailLastIsNew DEF EmailInv, HasNew
  <2>2. Count \in 1 .. Len(snapshot) + 1 /\ Count \in 1 .. Len(snapshot) /\ snapshot[Count] = Last
    BY <1>3, <2>1 DEF Last, EmailInv, MailInv
  <2>3. "retr" \in LongCmds
    BY DEF EmailAssumption
  <2>4. \A a \in RetrAnswers(Count) : /\ a \in Seq(Lines) /\ Answer(a, "retr" \in LongCmds)
                                      /\ \A k \in 1 .. Len(a) : a[k].val \in {NoValue, Last}
    BY <2>2, <2>3, EmailAnswers DEF EmailInv
  <2>5. /\ SessionInv' /\ MailInv' /\ CountInv' /\ ReturnedIsNew' /\ NoneMeansNoMore' /\ ShowsMail'
        /\ op \in {"connect", "getnew"} /\ username' \in Accounts /\ result' = "nothing"
        /\ at' = "latest" /\ ~slipped' /\ filtered' \in BOOLEAN
        /\ UNCHANGED <<op, old, initialCountSet, snapshot>>
        /\ call'.cmd = "retr" /\ call'.got = {} /\ call'.stage \in {"failed", "resp"}
        /\ call'.stage = "resp" => \E a \in RetrAnswers(Count) : \A i \in 1 .. Len(due') :
             i \in 1 .. Len(a) /\ due'[i].kind = a[i].kind /\ due'[i].val = a[i].val
    BY <1>1, <1>2, <1>4, <2>4, EmailSends
  <2>6. WorkInv'
    BY <1>2, <2>5 DEF WorkInv
  <2>7. ReadInv'
    <3>1. call'.stage = "resp" => \A i \in 1 .. Len(due') : due'[i].val \in {NoValue, Last}
      BY <2>4, <2>5
    <3>2. Last' = Last
      BY <2>5 DEF Last
    <3> QED BY <2>1, <2>5, <3>1, <3>2 DEF ReadInv
  <2> QED BY <2>5, <2>6, <2>7 DEF EmailInv
<1>5. CASE /\ ~HasNew(Count) /\ Finish("none")
           /\ UNCHANGED <<popVars, username, old, countVars, at, filtered, ops, boxVars, sessionVars>>
  <2>1. /\ op' = "none" /\ result' = "none"
        /\ UNCHANGED <<username, old, at, filtered, snapshot, owner>>
    BY <1>5 DEF Finish, sessionVars
  <2>2. SessionInv' /\ MailInv' /\ CountInv'
    BY <1>5, EmailKeeps
  <2>3. WorkInv' /\ ReadInv'
    BY <2>1 DEF EmailInv, WorkInv, ReadInv, Working
  <2>4. Len(snapshot) <= initialEmailCount
    BY <1>3, <1>5 DEF HasNew, EmailInv, CountInv
  <2>5. NoneMeansNoMore'
    <3>1. Cardinality(In(snapshot) \ old) <= Cardinality(old \ In(snapshot))
      BY <1>2, <2>4, EmailNoMore DEF EmailInv
    <3> QED BY <2>1, <3>1 DEF NoneMeansNoMore
  <2>6. ReturnedIsNew'
    BY <2>1 DEF ReturnedIsNew, EmailAssumption
  <2> QED BY <2>2, <2>3, <2>5, <2>6 DEF EmailInv
<1> QED BY <1>4, <1>5 DEF Counted

(* GetNewEmail returns the last message, if a filter does not keep it back.  *)
LEMMA EmailFetches ==
  ASSUME EmailAssumption, EmailInv, Fetched
  PROVE  EmailInv'
<1>1. /\ op = "getnew" /\ at = "latest" /\ op' = "none"
      /\ UNCHANGED <<popVars, username, old, countVars, at, filtered, ops, boxVars, sessionVars>>
      /\ UNCHANGED <<owner, snapshot>>
  BY DEF Fetched, Returned, Finish, sessionVars
<1>2. /\ Working /\ ShowsMail /\ snapshot # <<>> /\ Last \notin old /\ call.got \subseteq {Last}
      /\ filtered \in BOOLEAN
  BY <1>1 DEF EmailInv, WorkInv, ReadInv, Working
<1>3. Last \in Messages
  BY <1>2 DEF Last, EmailInv, MailInv
<1>4. result' \in {"error", "none", Last} /\ (result' = "none" => filtered)
      /\ (result' = Last => (filtered => Last \in Wanted))
  BY <1>2, <1>3 DEF Fetched, Finish, EmailAssumption
<1>5. SessionInv' /\ MailInv' /\ CountInv'
  BY <1>1, EmailKeeps
<1>6. WorkInv' /\ ReadInv'
  BY <1>1 DEF EmailInv, WorkInv, ReadInv, Working
<1>7. ReturnedIsNew'
  BY <1>1, <1>2, <1>4 DEF ReturnedIsNew, EmailAssumption, ShowsMail, Last
<1>8. NoneMeansNoMore'
  BY <1>1, <1>3, <1>4 DEF NoneMeansNoMore, EmailAssumption
<1> QED BY <1>5, <1>6, <1>7, <1>8 DEF EmailInv

(* A client that has not connected satisfies it.                             *)
LEMMA EmailStarts ==
  ASSUME CommandsAssumption, EmailAssumption, EmailInit
  PROVE  EmailInv
<1>1. /\ conn = "none" /\ tlsEstablished = FALSE /\ hears = "plain" /\ due = <<>>
      /\ issued = 0 /\ slipped = FALSE /\ 0 \in 0 .. MaxCalls
      /\ call = [cmd |-> "connect", stage |-> "dial", own |-> TRUE, got |-> {}]
  BY DEF EmailInit, Init, NewCall, CommandsAssumption
<1>2. SessionInv
  <2>1. /\ call.cmd = "connect" /\ call.stage = "dial" /\ call.own /\ call.got = {}
        /\ call \in [cmd : ShortCmds \cup LongCmds \cup {"connect", "stls"}, stage : Stages,
                     own : BOOLEAN, got : SUBSET Values]
        /\ due \in Seq(Lines) /\ Len(due) = 0
    BY <1>1 DEF Stages
  <2>2. \A i \in 1 .. Len(due) : due[i].n \in 0 .. issued /\ due[i].kind \in Kinds
    BY <2>1
  <2>3. TypeOK
    BY <1>1, <2>1, <2>2 DEF TypeOK
  <2> QED BY <1>1, <2>1, <2>3 DEF SessionInv, Owes
<1>3. /\ username = NoAccount /\ initialCountSet = FALSE /\ old = {} /\ initialEmailCount = 0
      /\ op = "none" /\ at = "closed" /\ filtered = FALSE /\ result = "nothing"
      /\ mailbox = [a \in Accounts |-> <<>>] /\ arrived = 0 /\ snapshot = <<>>
  BY DEF EmailInit
<1>4. MailInv
  <2>1. \A i \in 1 .. Len(<<>>) : FALSE
    OBVIOUS
  <2>2. <<>> \in Seq(Messages) /\ Sorted(<<>>) /\ In(<<>>) = {}
    BY <2>1 DEF Sorted, In
  <2>3. arrived \in 0 .. Len(Mail)
    BY <1>3, MailPos
  <2> QED BY <1>3, <2>2, <2>3 DEF MailInv
<1>5. CountInv
  BY <1>3 DEF CountInv, EmailAssumption
<1>6. WorkInv /\ ReadInv
  BY <1>3 DEF WorkInv, ReadInv, Working
<1>7. ReturnedIsNew /\ NoneMeansNoMore
  BY <1>3 DEF ReturnedIsNew, NoneMeansNoMore, EmailAssumption
<1> QED BY <1>2, <1>4, <1>5, <1>6, <1>7 DEF EmailInv

(* Every step of the client and of the mailbox preserves it.                 *)
LEMMA EmailStep ==
  ASSUME CommandsAssumption, EmailAssumption, EmailInv, [EmailNext]_emailVars
  PROVE  EmailInv'
<1>1. CASE UNCHANGED emailVars
  <2>1. /\ UNCHANGED <<popVars, username, old, countVars, boxVars, sessionVars>>
        /\ UNCHANGED <<op, at, filtered, result, call, slipped, initialCountSet>>
        /\ UNCHANGED <<username, old, snapshot, owner, due>>
    BY <1>1 DEF emailVars, popVars, countVars, sessionVars
  <2>2. SessionInv' /\ MailInv' /\ CountInv' /\ (ShowsMail => ShowsMail')
    BY <2>1, EmailKeeps
  <2>3. WorkInv' /\ ReadInv'
    BY <2>1, <2>2 DEF EmailInv, WorkInv, ReadInv, Working, Refused, Last
  <2>4. ReturnedIsNew' /\ NoneMeansNoMore'
    BY <2>1 DEF EmailInv, ReturnedIsNew, NoneMeansNoMore
  <2> QED BY <2>2, <2>3, <2>4 DEF EmailInv
<1>2. ASSUME NEW a \in Accounts, SetEmail(a) \/ Arrive(a) \/ Remove(a) PROVE EmailInv'
  BY <1>2, EmailSets, EmailArrives, EmailRemoves
<1>3. ASSUME NEW method \in {"connect", "getnew"}, BeginConnect(method) PROVE EmailInv'
  <2>1. /\ DropSession("dial") /\ UNCHANGED <<username, old, countVars, boxVars>>
        /\ filtered' \in BOOLEAN /\ op' \in {"connect", "getnew"} /\ result' = "nothing"
        /\ username # NoAccount
    BY <1>3 DEF BeginConnect, Begin
  <2> QED BY <2>1, EmailLeaves
<1>4. ASSUME ConnectFails \/ CloseEmail PROVE EmailInv'
  <2>1. /\ DropSession("closed") /\ UNCHANGED <<username, old, countVars, boxVars>>
        /\ filtered' \in BOOLEAN /\ op' = "none" /\ result' \in {"nothing", "error"}
    BY <1>4 DEF ConnectFails, CloseEmail, Finish, EmailInv, WorkInv
  <2> QED BY <2>1, EmailLeaves
<1>5. ASSUME NEW method \in {"stats", "content"}, AskAgain(method) PROVE EmailInv'
  BY <1>5, EmailAsksAgain
<1>6. CASE \/ Step \/ LogIn \/ LoggedIn \/ SetBaseline \/ Connected \/ Counted \/ Fetched
           \/ AskedReturns
  BY <1>6, EmailSteps, EmailLogsIn, EmailIsLoggedIn, EmailBaseline, EmailIsConnected,
     EmailHasCounted, EmailFetches, EmailReturns
<1> QED BY <1>1, <1>2, <1>3, <1>4, <1>5, <1>6 DEF EmailNext

(* What the invariant of the e-mail client says of it and of its session.    *)
LEMMA EmailTells ==
  ASSUME EmailInv
  PROVE  EmailTypeOK /\ InStep /\ TalksTLS /\ ReturnedIsNew /\ NoneMeansNoMore
<1>1. TypeOK /\ InStep
  BY DEF EmailInv, SessionInv, InStep
<1>2. TalksTLS
  BY DEF EmailInv, SessionInv, TalksTLS, Idle
<1>3. EmailTypeOK
  BY <1>1 DEF EmailInv, WorkInv, EmailTypeOK, Working
<1> QED BY <1>1, <1>2, <1>3 DEF EmailInv

-------------------------------------------------------------------------------
(*****************************************************************************)
(* The parts together.                                                       *)
(*****************************************************************************)
(* A step of one part is a step of it and of no other.                       *)
LEMMA PartsStep ==
  ASSUME [ServicesNext]_serviceVars
  PROVE  /\ [EmailNext]_emailVars /\ [Plain!Next]_plainVars /\ [Proxied!Next]_dialVars
         /\ [Bitcoin!Next]_btcVars /\ [EVM!Next]_evmVars /\ [Tron!Next]_tronVars
         /\ [Solana!Next]_solVars /\ [Default!Next]_defaultVars
<1>1. CASE UNCHANGED serviceVars
  BY <1>1 DEF serviceVars, mailVars, walletVars
<1>2. CASE MoveEmail \/ MovePlain \/ MoveDial
  BY <1>2 DEF MoveEmail, MovePlain, MoveDial, walletVars
<1>3. CASE MoveBitcoin \/ MoveEVM \/ MoveTron \/ MoveSolana \/ MoveDefault
  BY <1>3 DEF MoveBitcoin, MoveEVM, MoveTron, MoveSolana, MoveDefault, mailVars
<1> QED BY <1>1, <1>2, <1>3 DEF ServicesNext

MailPartsInv == EmailInv /\ PlainInv /\ DialInv
WalletPartsInv == BtcInv /\ FeeInv /\ EVMInv /\ TronInv /\ SolanaInv /\ DefaultInv

(* Every part has its invariant, in every reachable state.                   *)
LEMMA PartsInv == ServicesSpec => [](MailPartsInv /\ WalletPartsInv)
<1>1. ServicesInit => MailPartsInv /\ WalletPartsInv
  BY ServicesAssumption, EmailStarts, PlainInit, DialInit, BtcInit, FeeInit, EVMInit, TronInit,
     SolanaInit, DefaultInit
  DEF ServicesAssumption, ServicesInit, MailPartsInv, WalletPartsInv
<1>2. MailPartsInv /\ WalletPartsInv /\ [ServicesNext]_serviceVars
        => MailPartsInv' /\ WalletPartsInv'
  BY ServicesAssumption, PartsStep, EmailStep, PlainStep, DialStep, BtcStep, FeeStep, EVMStep,
     TronStep, SolanaStep, DefaultStep
  DEF ServicesAssumption, MailPartsInv, WalletPartsInv
<1> QED BY <1>1, <1>2, PTL DEF ServicesSpec

(* Types, and more than types: transferMu of a bitcoin wallet is held by the *)
(* call between its Lock and its Unlock, no two live transactions spend one  *)
(* coin, and the nonces of evm are used in order.                            *)
THEOREM ServicesTypes == ServicesSpec => []ServicesTypeOK
<1>1. MailPartsInv => EmailTypeOK /\ Plain!TypeOK /\ Proxied!TypeOK
  BY EmailTells DEF MailPartsInv, PlainInv, DialInv
<1>2. BtcInv => Bitcoin!TypeOK
  BY DEF BtcInv, BtcCalls, BtcCall, BtcPool, Bitcoin!TypeOK
<1>3. WalletPartsInv => /\ Bitcoin!TypeOK /\ EVM!TypeOK /\ Tron!TypeOK /\ Solana!TypeOK
                        /\ Default!TypeOK
  BY <1>2 DEF WalletPartsInv, EVMInv, TronInv, SolanaInv, DefaultInv
<1>4. MailPartsInv /\ WalletPartsInv => ServicesTypeOK
  BY <1>1, <1>3 DEF ServicesTypeOK
<1> QED BY PartsInv, <1>4, PTL

(* A POP3 call that succeeds has read the answer to its own command, unless  *)
(* a call before it slipped: every error and every broken connection leaves  *)
(* the session in step.  No command goes out unencrypted after TLS.          *)
THEOREM SessionsStayInStep == ServicesSpec => []SessionsInStep
<1>1. PlainInv => Plain!InStep /\ Plain!TalksTLS
  BY DEF PlainInv, Plain!InStep, Plain!TalksTLS
<1>2. MailPartsInv => SessionsInStep
  BY <1>1, EmailTells DEF MailPartsInv, SessionsInStep
<1> QED BY PartsInv, <1>2, PTL

(* What GetNewEmail returns is the newest message, and new; and it says that *)
(* there is none only when at least as many old messages have gone as new    *)
(* ones have come, although it compares two counts and nothing else.         *)
THEOREM CountsTellNewMail == ServicesSpec => []NewMailIsNew
<1>1. MailPartsInv => NewMailIsNew
  BY EmailTells DEF MailPartsInv, NewMailIsNew
<1> QED BY PartsInv, <1>1, PTL

(* A dial through a proxy returns an open connection that nothing will close *)
(* behind its owner's back, or leaves none open, whenever its context ends.  *)
THEOREM DialsAlwaysEndCleanly == ServicesSpec => []DialsEndCleanly
<1>1. DialInv => Proxied!HandsOutOpen /\ Proxied!FailureCloses /\ Proxied!WaitsEnd
  BY DEF DialInv, Proxied!HandsOutOpen, Proxied!FailureCloses, Proxied!WaitsEnd, Proxied!Waits,
         Proxied!Tunnels, Proxied!Timed, Proxied!Dialers, Proxied!TypeOK
<1>2. MailPartsInv => DialsEndCleanly
  BY <1>1 DEF MailPartsInv, DialsEndCleanly
<1> QED BY PartsInv, <1>2, PTL

(* The default wallet is the one asked for last, those it replaced are       *)
(* closed, and a call fails only on a wallet that was taken away or never    *)
(* connected.                                                                *)
THEOREM DefaultsAlwaysFollow == ServicesSpec => []DefaultsFollowInit
<1>1. WalletPartsInv => DefaultsFollowInit
  BY DEF WalletPartsInv, DefaultInv, DefaultsFollowInit
<1> QED BY PartsInv, <1>1, PTL

(* "Insufficient balance" is said only if no coins of the list, as many as a *)
(* transaction may have, pay the amount and the fee; and a transaction whose *)
(* coins were verified pays for its size, and not much more.                 *)
THEOREM FeesAlwaysRight == ServicesSpec => []FeesAreRight
<1>1. WalletPartsInv => FeesAreRight
  BY ServicesAssumption, FeesTell DEF ServicesAssumption, WalletPartsInv
<1> QED BY PartsInv, <1>1, PTL

(* The transfers of every wallet implement Payment: no error that hides a    *)
(* payment but when the answer to the broadcast was lost, no confirmation    *)
(* without one, and nothing told twice.                                      *)
THEOREM TransfersImplementPayment == ServicesSpec => TransfersKeepPromise
<1>1. ServicesInit => /\ Bitcoin!Promise!Init /\ EVM!Promise!Init
                      /\ Tron!Promise!Init /\ Solana!Promise!Init
  BY ServicesAssumption, BtcInit, EVMInit, TronInit, SolanaInit
  DEF ServicesAssumption, ServicesInit
<1>2. WalletPartsInv /\ [ServicesNext]_serviceVars
        => /\ [Bitcoin!Promise!Next]_(Bitcoin!Promise!paymentVars)
           /\ [EVM!Promise!Next]_(EVM!Promise!paymentVars)
           /\ [Tron!Promise!Next]_(Tron!Promise!paymentVars)
           /\ [Solana!Promise!Next]_(Solana!Promise!paymentVars)
  BY ServicesAssumption, PartsStep, BtcStep, EVMStep, TronStep, SolanaStep
  DEF ServicesAssumption, WalletPartsInv
<1> QED BY PartsInv, <1>1, <1>2, PTL
        DEF ServicesSpec, TransfersKeepPromise, Bitcoin!KeepsPromise, EVM!KeepsPromise,
            Tron!KeepsPromise, Solana!KeepsPromise, Bitcoin!Promise!Spec, EVM!Promise!Spec,
            Tron!Promise!Spec, Solana!Promise!Spec

(* No transfer takes the coins or the nonce of one before it, unless the two *)
(* overlapped (evm) or the index was behind (bitcoin).                       *)
THEOREM TransfersLeaveEachOther == ServicesSpec => NothingReplaced
<1>1. BtcReplaces =>
        \A t, u \in Payments :
          /\ btcHanded[t] = "taken" /\ btcHanded'[t] = "dropped"
          /\ btcHanded[u] = "no" /\ btcHanded'[u] = "taken"
          /\ Wallet[t] = Wallet[u] /\ ~btcBlind'[t] /\ ~btcBlind'[u]
          => t \in unseen[u]
  BY DEF BtcReplaces
<1>2. WalletPartsInv /\ [ServicesNext]_serviceVars => BtcReplaces /\ EVMReplaces
  BY ServicesAssumption, PartsStep, BtcStep, EVMStep DEF ServicesAssumption, WalletPartsInv
<1>3. WalletPartsInv /\ [ServicesNext]_serviceVars =>
        [BtcReplaces]_(Bitcoin!vars) /\ [EVMReplaces]_(EVM!vars)
  BY <1>2
<1> QED BY PartsInv, <1>3, PTL
        DEF ServicesSpec, NothingReplaced, Bitcoin!ReplacedOnlyIfUnseen,
            EVM!ReplacedOnlyIfOverlapping, BtcReplaces, EVMReplaces
===============================================================================
