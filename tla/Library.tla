-------------------------------- MODULE Library --------------------------------
(*****************************************************************************)
(* The parts of the library that one lock guards: the settings of the two    *)
(* HTTP clients, the redirects of httpclient, the browser headers over those *)
(* of httpclienttls, the package-level defaults of workerpool and            *)
(* filewriter, and the proxy manager.  They share nothing, so that every     *)
(* behaviour of all of them projects to a behaviour of each; the variable    *)
(* part names the one that moves, and the others stay as they were made.     *)
(*****************************************************************************)
EXTENDS TLSClient

CONSTANTS (* DoRequest *)
          Hosts, Home, Within, Opaque, Limits, MaxHops,
          (* BrowserHeaders *)
          Targets, Origin, Site, Https, Loopback, NoURL,
          (* WorkerPoolDefault and FileWriterDefault *)
          Callers, Pools, NoPool, Sizes, Writers, NoWriter, Dirs, NoDir,
          (* ProxyManager *)
          Gets, Kind, URLs, Counts, DefaultCount, None

VARIABLES
  part,
  plainTransport, plainProxyURL, plainVerify, plainConfigErr, plainJar,
  plainStored, plainObserved, plainRequest, plainAsked,
  options, pc, hop, host, sticky, explicit, carried, stripped, overrides, previous,
  chainJar, wire, response, course,
  mode, given, source, site, target, referer, sent, visited,
  defaultPool, defaultMaxWorkers, maxWorkers, poolStopped, poolCall, poolOverlap,
  defaultDir, defaultWriter, dir, writerClosed, writerCall, writerOverlap,
  writerUnswitched,
  usesPool, poolSettings, pool, getStop, get

plainVars   == <<plainTransport, plainProxyURL, plainVerify, plainConfigErr, plainJar,
                 plainStored, plainObserved, plainRequest, plainAsked>>
chainVars   == <<options, pc, hop, host, sticky, explicit, carried, stripped,
                 overrides, previous, chainJar, wire, response, course>>
headerVars  == <<mode, given, source, site, target, referer, sent, visited>>
poolVars    == <<defaultPool, defaultMaxWorkers, maxWorkers, poolStopped, poolCall,
                 poolOverlap>>
writerVars  == <<defaultDir, defaultWriter, dir, writerClosed, writerCall,
                 writerOverlap, writerUnswitched>>
managerVars == <<usesPool, poolSettings, pool, getStop, get>>
clientVars  == <<vars, plainVars, chainVars, headerVars>>
otherVars   == <<poolVars, writerVars, managerVars>>
libraryVars == <<part, clientVars, otherVars>>

Plain == INSTANCE HTTPClient WITH
  transport <- plainTransport, proxyURL <- plainProxyURL, verify <- plainVerify,
  configErr <- plainConfigErr, jar <- plainJar, stored <- plainStored,
  observed <- plainObserved, request <- plainRequest, asked <- plainAsked

Chain == INSTANCE DoRequest WITH call <- options, jar <- chainJar

Metadata == INSTANCE BrowserHeaders

DefaultPool == INSTANCE WorkerPoolDefault WITH
  stopped <- poolStopped, call <- poolCall, overlapped <- poolOverlap

DefaultWriter == INSTANCE FileWriterDefault WITH
  closed <- writerClosed, call <- writerCall, overlapped <- writerOverlap,
  unswitched <- writerUnswitched

Manager == INSTANCE ProxyManager WITH
  settings <- poolSettings, Calls <- Gets, Default <- DefaultCount

ASSUME PartsAssumption ==
  /\ Plain!ProxiesAssumption /\ Plain!MaxJarsAssumption
  /\ Chain!HomeAssumption /\ Chain!WithinAssumption /\ Chain!BoundsAssumption
  /\ Metadata!URLsAssumption
  /\ DefaultPool!NoPoolAssumption /\ DefaultPool!SizesAssumption
  /\ DefaultWriter!NamesAssumption
  /\ Manager!KindAssumption /\ Manager!CountsAssumption /\ Manager!NoneAssumption

-------------------------------------------------------------------------------
Parts == {"tls", "plain", "chain", "headers", "pool", "writer", "manager"}

(* A part that does not move is made in one of the ways it can be made.      *)
LibraryInit ==
  /\ part \in Parts
  /\ Init /\ (part = "tls" \/ (asked = "direct" /\ verify))
  /\ Plain!Init /\ (part = "plain" \/ (plainAsked = "direct" /\ plainVerify))
  /\ Chain!Init
  /\ part = "chain" \/ /\ options = CHOOSE o \in Chain!Calls : TRUE
                       /\ chainJar = {} /\ ~ sticky
  /\ Metadata!Init
  /\ part = "headers" \/ /\ mode = "identity" /\ given = {} /\ source = NoURL
                         /\ target = CHOOSE t \in Targets : TRUE
  /\ DefaultPool!Init /\ (part = "pool" \/ defaultMaxWorkers = 1)
  /\ DefaultWriter!Init
  /\ Manager!Init
  /\ part = "manager" \/ poolSettings.url = CHOOSE u \in URLs : TRUE

MoveTLS     == /\ part = "tls" /\ Next
               /\ UNCHANGED <<plainVars, chainVars, headerVars, otherVars>>
MovePlain   == /\ part = "plain" /\ Plain!Next
               /\ UNCHANGED <<vars, chainVars, headerVars, otherVars>>
MoveChain   == /\ part = "chain" /\ Chain!Next
               /\ UNCHANGED <<vars, plainVars, headerVars, otherVars>>
MoveHeaders == /\ part = "headers" /\ Metadata!Next
               /\ UNCHANGED <<vars, plainVars, chainVars, otherVars>>
MovePool    == /\ part = "pool" /\ DefaultPool!Next
               /\ UNCHANGED <<clientVars, writerVars, managerVars>>
MoveWriter  == /\ part = "writer" /\ DefaultWriter!Next
               /\ UNCHANGED <<clientVars, poolVars, managerVars>>
MoveManager == /\ part = "manager" /\ Manager!Next
               /\ UNCHANGED <<clientVars, poolVars, writerVars>>

LibraryNext == /\ MoveTLS \/ MovePlain \/ MoveChain \/ MoveHeaders
                 \/ MovePool \/ MoveWriter \/ MoveManager
               /\ UNCHANGED part

LibrarySpec == LibraryInit /\ [][LibraryNext]_libraryVars

-------------------------------------------------------------------------------
(* Every part is well typed, with what its own TypeOK says in addition.      *)
PartsTypeOK ==
  /\ TypeOK /\ Plain!TypeOK /\ Chain!TypeOK /\ Metadata!TypeOK
  /\ DefaultPool!TypeOK /\ DefaultWriter!TypeOK /\ Manager!TypeOK

(* httpclient, too, sends a request the way asked for last, or not at all.   *)
PlainFollowsPolicy == Plain!FollowsPolicy

(* Over a chain of redirects of httpclient every host is sent the value of   *)
(* a cookie that it should be, with the exceptions RightValue makes.         *)
CookiesTellTrue == Chain!RightValue

(* In a chain of redirects of httpclienttls the headers say where it has     *)
(* been, however it comes back, to those who may know it.                    *)
HeadersTellTrue == Metadata!SiteIsHonest /\ Metadata!HintsFollowTrust

(* No package-level pool or writer is replaced, or lost to a call that came  *)
(* too late, and left running.  What the package-level setters are told      *)
(* reaches the pool or the writer in use, as long as they do not overlap     *)
(* nor fail, and what the proxy manager is told reaches its pool, whether that exists  *)
(* already or not.                                                           *)
DefaultsInOrder ==
  /\ DefaultPool!NoPoolLeaks /\ DefaultWriter!NoWriterLeaks
  /\ DefaultPool!SequentialSetsApply /\ DefaultWriter!SequentialSetsApply
  /\ Manager!PoolFollowsSettings
===============================================================================
