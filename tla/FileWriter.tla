------------------------------ MODULE FileWriter ------------------------------
(*****************************************************************************)
(* filewriter.FileWriter: lines appended to files of one directory through   *)
(* cached handles.  mu guards the maps and is never held across another      *)
(* lock, so a section under mu is one step.  A file lock per name is held    *)
(* by an append while it uses the handle, and by Close and SetDir, which     *)
(* take the locks that exist when they begin in the order of their names,    *)
(* detach all handles and then close them one by one.                        *)
(*                                                                           *)
(* A handle is named by the append that opened it.                           *)
(*****************************************************************************)
EXTENDS Integers, FiniteSets

CONSTANTS Appends,  \* the calls of AppendLine with a non-empty line
          KeyOf,    \* KeyOf[a]: the normalised file name, a natural number
          Closers,  \* the calls of Close
          Setters,  \* the calls of SetDir
          DirOf,    \* DirOf[s]: the resolved directory SetDir s is called with
          Dir0,     \* the directory of New
          None      \* nil

Calls == Closers \cup Setters
Keys  == {KeyOf[a] : a \in Appends}
Dirs  == {DirOf[s] : s \in Setters} \cup {Dir0}

ASSUME CallsAssumption ==
  /\ Appends \cap Calls = {} /\ Closers \cap Setters = {}
  /\ None \notin Appends \cup Calls \cup Dirs
ASSUME KeysAssumption == KeyOf \in [Appends -> Nat]

VARIABLES dir, closed,
          fileLocks,    \* the names that have a lock
          owner,        \* owner[k]: the call that holds the lock of k, or None
          fileHandles,  \* fileHandles[k]: the cached handle of k, or None
          open,         \* the handles that are open
          openedIn,     \* openedIn[h]: the directory handle h was opened in
          append,       \* append[a]: where the call is, or its result
          using,        \* using[a]: the handle append a has got hold of
          call,         \* call[c]: where a Close or SetDir call is
          snapshot,     \* snapshot[c]: the names whose locks it takes
          detached      \* detached[c]: the handles it has still to close

mapVars  == <<dir, closed, fileLocks, fileHandles>>
diskVars == <<open, openedIn>>
callVars == <<call, snapshot, detached>>
vars == <<mapVars, owner, diskVars, append, using, callVars>>

-------------------------------------------------------------------------------
Cached == {fileHandles[k] : k \in Keys} \ {None}

HeldBy(c) == {k \in Keys : owner[k] = c}

(* unlockAll, and the deferred Unlock of an append.                          *)
Released(c) == [k \in Keys |-> IF owner[k] = c THEN None ELSE owner[k]]

Init == /\ dir = Dir0
        /\ closed = FALSE
        /\ fileLocks = {}
        /\ owner = [k \in Keys |-> None]
        /\ fileHandles = [k \in Keys |-> None]
        /\ open = {}
        /\ openedIn = [a \in Appends |-> None]
        /\ append = [a \in Appends |-> "new"]
        /\ using = [a \in Appends |-> None]
        /\ call = [c \in Calls |-> "new"]
        /\ snapshot = [c \in Calls |-> {}]
        /\ detached = [c \in Calls |-> {}]

-------------------------------------------------------------------------------
(* AppendLine *)

GetOrCreateFileLock(a) ==
  /\ append[a] = "new"
  /\ append' = [append EXCEPT ![a] = "lock"]
  /\ fileLocks' = fileLocks \cup {KeyOf[a]}
  /\ UNCHANGED <<dir, closed, fileHandles, owner, diskVars, using, callVars>>

LockFile(a) ==
  /\ append[a] = "lock"
  /\ owner[KeyOf[a]] = None
  /\ owner' = [owner EXCEPT ![KeyOf[a]] = a]
  /\ append' = [append EXCEPT ![a] = "handle"]
  /\ UNCHANGED <<mapVars, diskVars, using, callVars>>

Fail(a, result) ==
  /\ append' = [append EXCEPT ![a] = result]
  /\ owner' = Released(a)
  /\ UNCHANGED <<mapVars, diskVars, using>>

Use(a, h) ==
  /\ append' = [append EXCEPT ![a] = "write"]
  /\ using' = [using EXCEPT ![a] = h]
  /\ UNCHANGED owner

OpenFile(a) ==
  \/ /\ Use(a, a)
     /\ fileHandles' = [fileHandles EXCEPT ![KeyOf[a]] = a]
     /\ open' = open \cup {a}
     /\ openedIn' = [openedIn EXCEPT ![a] = dir]
     /\ UNCHANGED <<dir, closed, fileLocks>>
  \/ Fail(a, "openFailed")

GetOrCreateFileHandle(a) ==
  /\ append[a] = "handle"
  /\ IF closed THEN Fail(a, "writerClosed")
     ELSE IF fileHandles[KeyOf[a]] # None
     THEN Use(a, fileHandles[KeyOf[a]]) /\ UNCHANGED <<mapVars, diskVars>>
     ELSE OpenFile(a)
  /\ UNCHANGED callVars

WriteString(a) ==
  /\ append[a] = "write"
  /\ Fail(a, IF using[a] \in open THEN "written" ELSE "handleClosed")
  /\ UNCHANGED callVars

-------------------------------------------------------------------------------
(* Close and SetDir *)

TakeSnapshot(c) ==
  /\ call' = [call EXCEPT ![c] = "lock"]
  /\ snapshot' = [snapshot EXCEPT ![c] = fileLocks]
  /\ UNCHANGED <<dir, fileLocks, fileHandles, owner, diskVars, append, using, detached>>

BeginClose(c) ==
  /\ c \in Closers
  /\ call[c] = "new"
  /\ ~closed
  /\ closed' = TRUE
  /\ TakeSnapshot(c)

BeginSetDir(c) ==
  /\ c \in Setters
  /\ call[c] = "new"
  /\ ~closed
  /\ closed' = closed
  /\ TakeSnapshot(c)

(* A second Close returns nil; SetDir, at either test, ErrWriterClosed.      *)
FoundClosed(c) ==
  /\ closed
  /\ \/ call[c] = "new"
     \/ c \in Setters /\ call[c] = "lock" /\ HeldBy(c) = snapshot[c]
  /\ call' = [call EXCEPT ![c] = "refused"]
  /\ owner' = Released(c)
  /\ UNCHANGED <<mapVars, diskVars, append, using, snapshot, detached>>

(* A mutant: the locks are taken in any order.                               *)
LockNextUnsorted(c) ==
  /\ call[c] = "lock"
  /\ \E k \in snapshot[c] \ HeldBy(c) :
       /\ owner[k] = None
       /\ owner' = [owner EXCEPT ![k] = c]
  /\ UNCHANGED <<mapVars, diskVars, append, using, callVars>>

(* lockAll: the locks in the order of their names.                           *)
LockNext(c) ==
  /\ call[c] = "lock"
  /\ \E k \in snapshot[c] \ HeldBy(c) :
       /\ \A l \in snapshot[c] \ HeldBy(c) : k <= l
       /\ owner[k] = None
       /\ owner' = [owner EXCEPT ![k] = c]
  /\ UNCHANGED <<mapVars, diskVars, append, using, callVars>>

(* A mutant: no file lock is waited for.                                     *)
DetachEarly(c) ==
  /\ call[c] = "lock"
  /\ c \in Closers \/ ~closed
  /\ call' = [call EXCEPT ![c] = "close"]
  /\ detached' = [detached EXCEPT ![c] = Cached]
  /\ fileHandles' = [k \in Keys |-> None]
  /\ dir' = IF c \in Setters THEN DirOf[c] ELSE dir
  /\ UNCHANGED <<closed, fileLocks, owner, diskVars, append, using, snapshot>>

(* A mutant: the detached handles are lost.                                  *)
DetachForgotten(c) ==
  /\ call[c] = "lock"
  /\ HeldBy(c) = snapshot[c]
  /\ c \in Closers \/ ~closed
  /\ call' = [call EXCEPT ![c] = "close"]
  /\ fileHandles' = [k \in Keys |-> None]
  /\ dir' = IF c \in Setters THEN DirOf[c] ELSE dir
  /\ UNCHANGED <<closed, fileLocks, owner, diskVars, append, using, snapshot, detached>>

Detach(c) ==
  /\ call[c] = "lock"
  /\ HeldBy(c) = snapshot[c]
  /\ c \in Closers \/ ~closed
  /\ call' = [call EXCEPT ![c] = "close"]
  /\ detached' = [detached EXCEPT ![c] = Cached]
  /\ fileHandles' = [k \in Keys |-> None]
  /\ dir' = IF c \in Setters THEN DirOf[c] ELSE dir
  /\ UNCHANGED <<closed, fileLocks, owner, diskVars, append, using, snapshot>>

(* closeHandles goes on after an error: the handle is gone all the same.     *)
CloseHandle(c) ==
  /\ call[c] = "close"
  /\ \E h \in detached[c] :
       /\ open' = open \ {h}
       /\ detached' = [detached EXCEPT ![c] = @ \ {h}]
  /\ UNCHANGED <<mapVars, owner, openedIn, append, using, call, snapshot>>

Return(c) ==
  /\ call[c] = "close"
  /\ detached[c] = {}
  /\ call' = [call EXCEPT ![c] = "returned"]
  /\ owner' = Released(c)
  /\ UNCHANGED <<mapVars, diskVars, append, using, snapshot, detached>>

-------------------------------------------------------------------------------
AppendLine(a) == \/ GetOrCreateFileLock(a) \/ LockFile(a)
                 \/ GetOrCreateFileHandle(a) \/ WriteString(a)

Begin(c)  == BeginClose(c) \/ BeginSetDir(c)
GoOn(c)   == \/ FoundClosed(c) \/ LockNext(c) \/ Detach(c) \/ CloseHandle(c)
             \/ Return(c)

Next == \/ \E a \in Appends : AppendLine(a)
        \/ \E c \in Calls : Begin(c) \/ GoOn(c)

Spec == Init /\ [][Next]_vars

(* Goroutines run and Go's mutexes are granted in the end: with finitely     *)
(* many calls weak fairness says so.  Nobody is obliged to make a call.      *)
FairSpec ==
  /\ Spec
  /\ \A a \in Appends : WF_vars(LockFile(a) \/ GetOrCreateFileHandle(a) \/ WriteString(a))
  /\ \A c \in Calls : WF_vars(GoOn(c))

-------------------------------------------------------------------------------
Results == {"written", "handleClosed", "writerClosed", "openFailed"}

(* Types; an append holds its lock from "handle" to its result, and a Close  *)
(* or SetDir holds locks of its snapshot only, all of them from Detach on.   *)
TypeOK ==
  /\ dir \in Dirs /\ closed \in BOOLEAN
  /\ fileLocks \subseteq Keys
  /\ owner \in [Keys -> Appends \cup Calls \cup {None}]
  /\ fileHandles \in [Keys -> Appends \cup {None}]
  /\ open \subseteq Appends
  /\ openedIn \in [Appends -> Dirs \cup {None}]
  /\ append \in [Appends -> {"new", "lock", "handle", "write"} \cup Results]
  /\ using \in [Appends -> Appends \cup {None}]
  /\ call \in [Calls -> {"new", "lock", "close", "returned", "refused"}]
  /\ snapshot \in [Calls -> SUBSET Keys]
  /\ detached \in [Calls -> SUBSET Appends]
  /\ \A a \in Appends :
       HeldBy(a) = IF append[a] \in {"handle", "write"} THEN {KeyOf[a]} ELSE {}
  /\ \A c \in Calls :
       /\ HeldBy(c) \subseteq snapshot[c]
       /\ call[c] = "close" => HeldBy(c) = snapshot[c]
       /\ call[c] \in {"new", "returned", "refused"} => HeldBy(c) = {}

(* No handle is leaked: an open one is cached under its name in the present  *)
(* directory, or a Close or SetDir that has not returned will close it.      *)
NoHandleLeaks ==
  \A h \in open :
    \/ fileHandles[KeyOf[h]] = h /\ openedIn[h] = dir
    \/ \E c \in Calls : call[c] = "close" /\ h \in detached[c]

(* A line goes to a directory that is no longer the writer's only while the  *)
(* SetDir that switched it has not returned yet.                             *)
StaleDirOnlyDuringSwitch ==
  \A a \in Appends :
    append[a] = "write" /\ using[a] \in open /\ openedIn[using[a]] # dir =>
      \E s \in Setters : call[s] = "close"

(* An append meets a closed handle only if a SetDir had taken its snapshot   *)
(* of the locks before the append's file had one: Close never does this, nor *)
(* SetDir to a file that was in use before.                                  *)
LostHandleIsFresh ==
  \A a \in Appends :
    append[a] = "write" /\ using[a] \notin open =>
      \E s \in Setters : /\ call[s] \in {"close", "returned"}
                         /\ KeyOf[a] \notin snapshot[s]

(* All that a SetDir under way may do to appends.                            *)
SwitchDisturbsOnlyNew == StaleDirOnlyDuringSwitch /\ LostHandleIsFresh

(* Every call returns: the locks cannot be waited for in a circle.           *)
EveryCallReturns ==
  /\ \A a \in Appends : append[a] = "lock" ~> append[a] \in Results
  /\ \A c \in Calls : call[c] = "lock" ~> call[c] \in {"returned", "refused"}

(* The documented claim: the writer is safe for concurrent use, so no append *)
(* loses its line to a handle closed under it.                               *)
NoAppendLosesItsHandle == \A a \in Appends : append[a] # "handleClosed"
===============================================================================
