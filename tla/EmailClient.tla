------------------------------ MODULE EmailClient ------------------------------
(*****************************************************************************)
(* pop3client.EmailClient: a mailbox watched for new mail by counting.  Each *)
(* session is a POP3Client; its server shows the mailbox as it was when the  *)
(* password was accepted.  Meanwhile mail arrives, and other clients of the  *)
(* mailbox remove some.                                                      *)
(*****************************************************************************)
EXTENDS POP3Client, FiniteSets

CONSTANTS Accounts, NoAccount,
          Mail,        \* the messages that may come, in their order: a bound
          Wanted,      \* those that the filters of a call match
          MaxOps       \* bound on the calls of the user

Messages == {Mail[i] : i \in 1 .. Len(Mail)}

EmailAssumption == /\ {"user", "pass", "stat", "quit"} \subseteq ShortCmds
                   /\ "retr" \in LongCmds /\ Implicit
                   /\ NoAccount \notin Accounts /\ Wanted \subseteq Messages
                   /\ Mail \in Seq(Messages) /\ NoValue \notin Nat
                   /\ \A i, j \in 1 .. Len(Mail) : Mail[i] = Mail[j] => i = j
                   /\ Messages \cap {"nothing", "none", "error"} = {}

VARIABLES
  username, initialEmailCount, initialCountSet,
  op,            \* the method under way, "none" between two
  at,            \* what it waits for; "closed": popServer is nil
  filtered,      \* it was given a filter
  result,        \* what GetNewEmail returned, until the next call: "none",
                 \* "error" or a message
  ops,           \* calls made
  mailbox,       \* mailbox[a]: the messages of account a, oldest first
  arrived,       \* how many have come, to all accounts
  owner,         \* the account the session is logged in to
  snapshot,      \* what the session shows
  old            \* history: the messages that are not new for the user

countVars   == <<initialEmailCount, initialCountSet>>
boxVars     == <<mailbox, arrived>>
sessionVars == <<owner, snapshot>>
emailVars   == <<popVars, username, old, countVars, op, at, filtered, result, ops, boxVars,
                 sessionVars>>

EmailInit == /\ Init
             /\ username = NoAccount
             /\ initialEmailCount = 0 /\ initialCountSet = FALSE /\ old = {}
             /\ op = "none" /\ at = "closed" /\ filtered = FALSE
             /\ result = "nothing" /\ ops = 0
             /\ mailbox = [a \in Accounts |-> <<>>] /\ arrived = 0
             /\ owner = NoAccount /\ snapshot = <<>>

-------------------------------------------------------------------------------
In(box) == {box[i] : i \in 1 .. Len(box)}

(* The session so far, if any, is closed, whatever becomes of its QUIT.      *)
DropSession(next) ==
  /\ conn' = "none" /\ tlsEstablished' = FALSE /\ hears' = "plain" /\ due' = <<>>
  /\ call' = NewCall("connect", "dial") /\ issued' = 0 /\ slipped' = FALSE
  /\ owner' = NoAccount /\ snapshot' = <<>>
  /\ at' = next

Begin(method) == /\ op = "none" /\ ops < MaxOps
                 /\ op' = method /\ ops' = ops + 1
                 /\ result' = "nothing"

Finish(r) == op' = "none" /\ result' = r

(* SetEmail, with an address of a supported provider.  A session stays, and  *)
(* stays with the account before.                                            *)
SetEmail(a) ==
  /\ op = "none" /\ ops < MaxOps
  /\ username' = a /\ ops' = ops + 1 /\ result' = "nothing"
  /\ old' = In(mailbox[a])
  /\ initialEmailCount' = 0 /\ initialCountSet' = FALSE
  /\ UNCHANGED <<popVars, op, at, filtered, boxVars, sessionVars>>

(* Connect, Reconnect, and GetNewEmail which begins with Reconnect.          *)
BeginConnect(method) ==
  /\ Begin(method) /\ username # NoAccount
  /\ DropSession("dial")
  /\ filtered' \in IF method = "getnew" THEN BOOLEAN ELSE {FALSE}
  /\ UNCHANGED <<username, old, countVars, boxVars>>

CloseEmail == /\ op = "none" /\ at # "closed"
              /\ DropSession("closed")
              /\ result' = "nothing"
              /\ UNCHANGED <<username, old, countVars, op, filtered, ops, boxVars>>

-------------------------------------------------------------------------------
Plus(val) == <<Line(0, "plus", val)>>

StatAnswers == {Plus(Len(snapshot)), Refusal}

(* A message that another client has removed may be refused.                 *)
RetrAnswers(i) ==
  {Refusal} \cup
  {<<Line(0, "plus", NoValue), Line(0, "text", snapshot[j]), Line(0, "dot", NoValue)>> :
     j \in {i} \cap 1 .. Len(snapshot)}

Ask(cmd, answers, next) ==
  /\ \E a \in answers : Issue(cmd, a)
  /\ at' = next
  /\ UNCHANGED <<username, old, op, filtered, ops, boxVars>>

(* The lines of the POP3 command under way.                                  *)
Step == /\ op # "none"
        /\ Exchange
        /\ UNCHANGED <<username, old, countVars, op, at, filtered, result, ops, boxVars,
                       sessionVars>>

Returned(next, outcome) == op # "none" /\ at = next /\ call.stage = outcome

(* USER and PASS; with the password the server takes its snapshot.           *)
LogIn ==
  \/ /\ Returned("dial", "ok")
     /\ Ask("user", {Plus(NoValue), Refusal}, "user")
     /\ UNCHANGED <<countVars, result, sessionVars>>
  \/ /\ Returned("user", "ok")
     /\ Ask("pass", {Refusal}, "pass")
     /\ UNCHANGED <<countVars, result, sessionVars>>
  \/ /\ Returned("user", "ok")
     /\ Ask("pass", {Plus(NoValue)}, "pass")
     /\ owner' = username /\ snapshot' = mailbox[username]
     /\ UNCHANGED <<countVars, result>>

(* The first time Connect also asks for the count that later ones are        *)
(* compared with.                                                            *)
LoggedIn ==
  \/ /\ Returned("pass", "ok") /\ initialCountSet
     /\ at' = "connected"
     /\ UNCHANGED <<popVars, username, old, countVars, op, filtered, result, ops, boxVars,
                    sessionVars>>
  \/ /\ Returned("pass", "ok") /\ ~initialCountSet
     /\ Ask("stat", StatAnswers, "baseline")
     /\ UNCHANGED <<countVars, result, sessionVars>>

Count == CHOOSE n \in 0 .. Len(snapshot) : call.got = {n}

SetBaseline ==
  /\ Returned("baseline", "ok")
  /\ initialEmailCount' = Count /\ initialCountSet' = TRUE
  /\ old' = old \cup In(snapshot)
  /\ at' = "connected"
  /\ UNCHANGED <<popVars, username, op, filtered, result, ops, boxVars, sessionVars>>

ConnectFails ==
  /\ \E next \in {"dial", "user", "pass", "baseline"} : Returned(next, "failed")
  /\ DropSession("closed")
  /\ Finish("error")
  /\ UNCHANGED <<username, old, countVars, filtered, ops, boxVars>>

Connected ==
  \/ /\ op = "connect" /\ at = "connected"
     /\ Finish("nothing")
     /\ UNCHANGED <<popVars, username, old, countVars, at, filtered, ops, boxVars, sessionVars>>
  \/ /\ op = "getnew" /\ at = "connected"
     /\ Ask("stat", StatAnswers, "count")
     /\ UNCHANGED <<countVars, result, sessionVars>>

-------------------------------------------------------------------------------
(* A mutant: a count that has not changed counts as new mail. *)
HasNewOrSame(count) == count >= initialEmailCount /\ count > 0

HasNew(count) == count > initialEmailCount

(* GetNewEmail: STAT again, and the last message if there are more.          *)
Counted ==
  \/ /\ op = "getnew" /\ Returned("count", "ok") /\ HasNew(Count)
     /\ Ask("retr", RetrAnswers(Count), "latest")
     /\ UNCHANGED <<countVars, result, sessionVars>>
  \/ /\ op = "getnew" /\ Returned("count", "ok") /\ ~HasNew(Count)
     /\ Finish("none")
     /\ UNCHANGED <<popVars, username, old, countVars, at, filtered, ops, boxVars, sessionVars>>

(* ParseEmail may fail; the filters look at the latest message only.         *)
Fetched ==
  /\ Returned("latest", "ok") /\ op = "getnew"
  /\ \E m \in call.got :
       \/ Finish("error")
       \/ Finish(IF filtered /\ m \notin Wanted THEN "none" ELSE m)
  /\ UNCHANGED <<popVars, username, old, countVars, at, filtered, ops, boxVars, sessionVars>>

(* GetEmailStats, GetEmailList and GetEmailContent use the session there is, *)
(* even one that an earlier call has left out of step.                       *)
AskAgain(method) ==
  /\ at # "closed"
  /\ Begin(method)
  /\ IF method = "stats" THEN \E a \in StatAnswers : Issue("stat", a)
     ELSE \E i \in 1 .. Len(snapshot) + 1 : \E a \in RetrAnswers(i) : Issue("retr", a)
  /\ at' = IF method = "stats" THEN "count" ELSE "latest"
  /\ UNCHANGED <<username, old, countVars, filtered, boxVars, sessionVars>>

(* These return what they read; the session stays, also after an error.      *)
AskedReturns ==
  /\ \/ op \in {"stats", "content"} /\ (\E r \in {"ok", "failed"} :
                                          Returned("count", r) \/ Returned("latest", r))
        /\ Finish("nothing")
     \/ op = "getnew" /\ (Returned("count", "failed") \/ Returned("latest", "failed"))
        /\ Finish("error")
  /\ UNCHANGED <<popVars, username, old, countVars, at, filtered, ops, boxVars, sessionVars>>

-------------------------------------------------------------------------------
(* The mailbox: mail goes to its end, and a session does not see it change.  *)
Arrive(a) ==
  /\ arrived < Len(Mail) /\ arrived' = arrived + 1
  /\ mailbox' = [mailbox EXCEPT ![a] = Append(@, Mail[arrived'])]
  /\ UNCHANGED <<popVars, username, old, countVars, op, at, filtered, result, ops, sessionVars>>

Without(box, i) == SubSeq(box, 1, i - 1) \o SubSeq(box, i + 1, Len(box))

Remove(a) == \E i \in 1 .. Len(mailbox[a]) :
  /\ mailbox' = [mailbox EXCEPT ![a] = Without(@, i)]
  /\ UNCHANGED <<popVars, username, old, countVars, op, at, filtered, result, ops, arrived,
                 sessionVars>>

EmailNext ==
  \/ \E a \in Accounts : SetEmail(a) \/ Arrive(a) \/ Remove(a)
  \/ \E method \in {"connect", "getnew"} : BeginConnect(method)
  \/ \E method \in {"stats", "content"} : AskAgain(method)
  \/ Step \/ LogIn \/ LoggedIn \/ SetBaseline \/ ConnectFails \/ Connected
  \/ Counted \/ Fetched \/ AskedReturns \/ CloseEmail

EmailSpec == EmailInit /\ [][EmailNext]_emailVars

-------------------------------------------------------------------------------
EmailTypeOK == /\ TypeOK
               /\ at \in {"closed", "dial", "user", "pass", "baseline", "connected",
                          "count", "latest"}
               /\ op # "none" => at # "closed"
               /\ at \in {"count", "latest", "connected"} => initialCountSet \/ op = "none"
                                                             \/ op \in {"stats", "content"}

(* What GetNewEmail returns is mail that came after the first connection to  *)
(* the account set last, and the newest that the account had: it can tell by *)
(* a count alone, and although other calls may be out of step, because it    *)
(* begins with a session of its own.                                         *)
ReturnedIsNew ==
  result \in Messages => /\ owner = username
                         /\ result = snapshot[Len(snapshot)]
                         /\ result \notin old
                         /\ filtered => result \in Wanted

(* When it returns nothing, without a filter, at least as many of the old    *)
(* messages have gone as new ones have come.                                 *)
NoneMeansNoMore ==
  result = "none" /\ ~filtered =>
    Cardinality(In(snapshot) \ old) <= Cardinality(old \ In(snapshot))
===============================================================================
