--------------------------- MODULE FileWriterProofs ---------------------------
(* Theorems about FileWriter, for any number of files and calls.             *)
EXTENDS FileWriter, TLAPS

(* The initial states are well typed.                                       *)
LEMMA TypeInit == Init => TypeOK
<1> SUFFICES ASSUME Init PROVE TypeOK
  OBVIOUS
<1>1. dir \in Dirs
  BY DEF Init, Dirs
<1>2. \A c \in Appends \cup Calls : HeldBy(c) = {}
  BY CallsAssumption DEF Init, HeldBy
<1> QED
  BY <1>1, <1>2 DEF Init, TypeOK

(* Every step keeps the types.                                              *)
LEMMA TypeNext == TypeOK /\ [Next]_vars => TypeOK'
<1> SUFFICES ASSUME TypeOK, [Next]_vars PROVE TypeOK'
  OBVIOUS
<1> USE CallsAssumption DEF TypeOK, mapVars, diskVars, callVars, HeldBy, Released
<1>1. ASSUME NEW a \in Appends, GetOrCreateFileLock(a) PROVE TypeOK'
  BY <1>1 DEF GetOrCreateFileLock, Keys
<1>2. ASSUME NEW a \in Appends, LockFile(a) PROVE TypeOK'
  BY <1>2 DEF LockFile, Keys
<1>3. ASSUME NEW a \in Appends, NEW r \in Results, Fail(a, r), UNCHANGED callVars,
             append[a] \in {"handle", "write"}
      PROVE TypeOK'
  BY <1>3 DEF Fail, Results, Keys
<1>4. ASSUME NEW a \in Appends, NEW h \in Appends, Use(a, h), append[a] = "handle",
             UNCHANGED <<mapVars, diskVars, callVars>>
      PROVE TypeOK'
  BY <1>4 DEF Use, Keys
<1>5. ASSUME NEW a \in Appends, append[a] = "handle", OpenFile(a), ~ Fail(a, "openFailed"),
             UNCHANGED callVars
      PROVE TypeOK'
  <2>1. KeyOf[a] \in Keys
    BY DEF Keys
  <2> QED
    BY <1>5, <2>1 DEF OpenFile, Use
<1>6. ASSUME NEW a \in Appends, GetOrCreateFileHandle(a) \/ WriteString(a) PROVE TypeOK'
  <2>1. fileHandles[KeyOf[a]] \in Appends \cup {None}
    BY DEF Keys
  <2> QED
    BY <1>3, <1>4, <1>5, <1>6, <2>1
    DEF GetOrCreateFileHandle, WriteString, OpenFile, Results
<1>7. ASSUME NEW c \in Calls, Begin(c) PROVE TypeOK'
  <2>1. /\ call[c] = "new" /\ TakeSnapshot(c) /\ closed' \in BOOLEAN
    BY <1>7 DEF Begin, BeginClose, BeginSetDir
  <2> QED
    BY <2>1 DEF TakeSnapshot, Calls
<1>8. ASSUME NEW c \in Calls, FoundClosed(c) \/ Return(c) PROVE TypeOK'
  BY <1>8 DEF FoundClosed, Return, Calls
<1>9. ASSUME NEW c \in Calls, LockNext(c) PROVE TypeOK'
  BY <1>9 DEF LockNext, Calls
<1>10. ASSUME NEW c \in Calls, Detach(c) PROVE TypeOK'
  BY <1>10 DEF Detach, Calls, Cached, Dirs
<1>11. ASSUME NEW c \in Calls, CloseHandle(c) PROVE TypeOK'
  BY <1>11 DEF CloseHandle, Calls
<1>12. CASE UNCHANGED vars
  BY <1>12 DEF vars
<1> QED
  BY <1>1, <1>2, <1>6, <1>7, <1>8, <1>9, <1>10, <1>11, <1>12
  DEF Next, AppendLine, GoOn

(* Locks are held by those who may use what they guard: an append by itself, *)
(* Close and SetDir from the end of lockAll to their return.                 *)
THEOREM TypeCorrect == Spec => []TypeOK
  BY TypeInit, TypeNext, PTL DEF Spec

-------------------------------------------------------------------------------
(* Where handles are.  A cached handle is open, belongs to its name and to   *)
(* the present directory; a detached one is in nobody's cache; and an append *)
(* that has not opened a file names no handle.                               *)
HandleInv ==
  /\ \A k \in Keys : fileHandles[k] # None =>
       /\ fileHandles[k] \in open
       /\ KeyOf[fileHandles[k]] = k
       /\ openedIn[fileHandles[k]] = dir
  /\ \A h \in Appends : append[h] \in {"new", "lock", "handle"} => openedIn[h] = None
  /\ \A h \in open : openedIn[h] # None
  /\ \A c \in Calls : \A h \in detached[c] :
       call[c] = "close" /\ openedIn[h] # None /\ h \notin Cached

(* What a snapshot protects.  A Close that has begun has the lock of every   *)
(* append that still writes in its snapshot, because no handle is handed out *)
(* after it set closed; and an append whose handle is no longer cached has a *)
(* SetDir without its lock to thank for that.                                *)
SnapshotInv ==
  /\ \A a \in Appends : append[a] # "new" => KeyOf[a] \in fileLocks
  /\ \A c \in Closers : call[c] \in {"lock", "close"} => closed
  /\ \A c \in Closers, a \in Appends :
       call[c] \in {"lock", "close"} /\ append[a] = "write" => KeyOf[a] \in snapshot[c]
  /\ \A a \in Appends : append[a] = "write" =>
       /\ using[a] # None /\ KeyOf[using[a]] = KeyOf[a]
       /\ fileHandles[KeyOf[a]] # using[a] =>
            \E s \in Setters : /\ call[s] \in {"close", "returned"}
                               /\ KeyOf[a] \notin snapshot[s]

FileInv == TypeOK /\ NoHandleLeaks /\ HandleInv /\ SnapshotInv

(* The initial states satisfy the invariant of the writer.                  *)
LEMMA FileInit == Init => FileInv
<1> SUFFICES ASSUME Init PROVE FileInv
  OBVIOUS
<1>1. NoHandleLeaks /\ HandleInv
  BY DEF Init, NoHandleLeaks, HandleInv
<1>2. SnapshotInv
  BY DEF Init, SnapshotInv, Calls
<1> QED
  BY TypeInit, <1>1, <1>2 DEF FileInv

(* An append in "handle" or "write" is the owner of its file's lock.         *)
LEMMA LockHeld ==
  ASSUME TypeOK, NEW a \in Appends, append[a] \in {"handle", "write"}
  PROVE  KeyOf[a] \in Keys /\ owner[KeyOf[a]] = a
  BY DEF TypeOK, HeldBy, Keys

(* No step loses sight of an open handle.                                   *)
LEMMA NoHandleLeaksNext == FileInv /\ [Next]_vars => NoHandleLeaks'
<1> SUFFICES ASSUME FileInv, [Next]_vars PROVE NoHandleLeaks'
  OBVIOUS
<1> USE CallsAssumption
    DEF FileInv, TypeOK, NoHandleLeaks, HandleInv, mapVars, diskVars, callVars
<1>1. ASSUME NEW a \in Appends, AppendLine(a), UNCHANGED <<fileHandles, diskVars>>
      PROVE NoHandleLeaks'
  BY <1>1 DEF AppendLine, GetOrCreateFileLock, LockFile, GetOrCreateFileHandle,
              OpenFile, Use, Fail, WriteString
<1>2. ASSUME NEW a \in Appends, GetOrCreateFileHandle(a),
             ~ UNCHANGED <<fileHandles, diskVars>>
      PROVE NoHandleLeaks'
  <2>1. /\ fileHandles[KeyOf[a]] = None /\ UNCHANGED <<dir, callVars>>
        /\ fileHandles' = [fileHandles EXCEPT ![KeyOf[a]] = a]
        /\ open' = open \cup {a}
        /\ openedIn' = [openedIn EXCEPT ![a] = dir]
    BY <1>2 DEF GetOrCreateFileHandle, OpenFile, Use, Fail
  <2>2. KeyOf[a] \in Keys /\ openedIn[a] = None /\ a \notin open
    BY <1>2 DEF GetOrCreateFileHandle, Keys
  <2> QED
    BY <2>1, <2>2
<1>3. ASSUME NEW c \in Calls, Begin(c) \/ FoundClosed(c) \/ LockNext(c)
      PROVE NoHandleLeaks'
  BY <1>3 DEF Begin, BeginClose, BeginSetDir, TakeSnapshot, FoundClosed, LockNext
<1>4. ASSUME NEW c \in Calls, Detach(c) PROVE NoHandleLeaks'
  BY <1>4 DEF Detach, Cached, Keys
<1>5. ASSUME NEW c \in Calls, CloseHandle(c) \/ Return(c) PROVE NoHandleLeaks'
  BY <1>5 DEF CloseHandle, Return
<1>6. CASE UNCHANGED vars
  BY <1>6 DEF vars
<1> QED
  BY <1>1, <1>2, <1>3, <1>4, <1>5, <1>6
  DEF Next, AppendLine, GoOn, GetOrCreateFileLock, LockFile, WriteString, Fail

(* Every step keeps what is known of the handles in use.                    *)
LEMMA HandleInvNext == FileInv /\ [Next]_vars => HandleInv'
<1> SUFFICES ASSUME FileInv, [Next]_vars PROVE HandleInv'
  OBVIOUS
<1> USE CallsAssumption
    DEF FileInv, TypeOK, HandleInv, mapVars, diskVars, callVars, Cached
<1>1. ASSUME NEW a \in Appends, AppendLine(a), UNCHANGED <<fileHandles, diskVars>>
      PROVE HandleInv'
  BY <1>1 DEF AppendLine, GetOrCreateFileLock, LockFile, GetOrCreateFileHandle,
              OpenFile, Use, Fail, WriteString
<1>2. ASSUME NEW a \in Appends, GetOrCreateFileHandle(a),
             ~ UNCHANGED <<fileHandles, diskVars>>
      PROVE HandleInv'
  <2>1. /\ UNCHANGED <<dir, callVars>>
        /\ fileHandles' = [fileHandles EXCEPT ![KeyOf[a]] = a]
        /\ open' = open \cup {a}
        /\ openedIn' = [openedIn EXCEPT ![a] = dir]
        /\ append' = [append EXCEPT ![a] = "write"]
    BY <1>2 DEF GetOrCreateFileHandle, OpenFile, Use, Fail
  <2>2. KeyOf[a] \in Keys /\ openedIn[a] = None /\ dir # None
    BY <1>2 DEF GetOrCreateFileHandle, Keys
  <2> QED
    BY <2>1, <2>2
<1>3. ASSUME NEW c \in Calls, Begin(c) \/ FoundClosed(c) \/ LockNext(c)
      PROVE HandleInv'
  BY <1>3 DEF Begin, BeginClose, BeginSetDir, TakeSnapshot, FoundClosed, LockNext
<1>4. ASSUME NEW c \in Calls, Detach(c) PROVE HandleInv'
  BY <1>4 DEF Detach
<1>5. ASSUME NEW c \in Calls, CloseHandle(c) \/ Return(c) PROVE HandleInv'
  BY <1>5 DEF CloseHandle, Return
<1>6. CASE UNCHANGED vars
  BY <1>6 DEF vars
<1> QED
  BY <1>1, <1>2, <1>3, <1>4, <1>5, <1>6
  DEF Next, AppendLine, GoOn, GetOrCreateFileLock, LockFile, WriteString, Fail

(* Every step keeps what is known of the snapshots of locks.                *)
LEMMA SnapshotInvNext == FileInv /\ [Next]_vars => SnapshotInv'
<1> SUFFICES ASSUME FileInv, [Next]_vars PROVE SnapshotInv'
  OBVIOUS
<1> USE CallsAssumption DEF FileInv, TypeOK, SnapshotInv, mapVars, diskVars, callVars
<1>1. ASSUME NEW a \in Appends, GetOrCreateFileLock(a) \/ LockFile(a)
      PROVE SnapshotInv'
  BY <1>1 DEF GetOrCreateFileLock, LockFile
<1>2. ASSUME NEW a \in Appends, NEW r \in Results, Fail(a, r), append[a] # "new",
             UNCHANGED callVars
      PROVE SnapshotInv'
  BY <1>2 DEF Fail, Results
<1>3. ASSUME NEW a \in Appends, NEW h \in Appends, Use(a, h), append[a] = "handle",
             ~closed, KeyOf[h] = KeyOf[a], fileHandles'[KeyOf[a]] = h,
             \A k \in Keys \ {KeyOf[a]} : fileHandles'[k] = fileHandles[k],
             UNCHANGED <<closed, fileLocks, callVars>>
      PROVE SnapshotInv'
  <2>1. \A b \in Appends \ {a} : append[b] = "write" => KeyOf[b] \in Keys \ {KeyOf[a]}
    BY <1>3, LockHeld
  <2> QED
    BY <1>3, <2>1 DEF Use
<1>4. ASSUME NEW a \in Appends, GetOrCreateFileHandle(a) \/ WriteString(a)
      PROVE SnapshotInv'
  <2>1. CASE append' = [append EXCEPT ![a] = "write"]
    <3>1. KeyOf[a] \in Keys
      BY DEF Keys
    <3>2. append[a] = "handle" /\ ~closed /\ UNCHANGED <<closed, fileLocks, callVars>>
      BY <1>4, <2>1 DEF GetOrCreateFileHandle, WriteString, OpenFile, Use, Fail, Results
    <3>3. CASE fileHandles[KeyOf[a]] # None
      <4>1. Use(a, fileHandles[KeyOf[a]]) /\ UNCHANGED fileHandles
        BY <1>4, <3>2, <3>3 DEF GetOrCreateFileHandle, WriteString
      <4> QED
        BY <1>3, <3>1, <3>2, <3>3, <4>1 DEF HandleInv
    <3>4. CASE fileHandles[KeyOf[a]] = None
      <4>1. Use(a, a) /\ fileHandles' = [fileHandles EXCEPT ![KeyOf[a]] = a]
        BY <1>4, <2>1, <3>2, <3>4 DEF GetOrCreateFileHandle, WriteString, OpenFile, Fail
      <4> QED
        BY <1>3, <3>1, <3>2, <4>1
    <3> QED
      BY <3>3, <3>4
  <2>2. CASE append' # [append EXCEPT ![a] = "write"]
    BY <1>2, <1>4, <2>2
    DEF GetOrCreateFileHandle, WriteString, OpenFile, Use, Results
  <2> QED
    BY <2>1, <2>2
<1>5. ASSUME NEW c \in Calls,
             Begin(c) \/ FoundClosed(c) \/ LockNext(c) \/ CloseHandle(c) \/ Return(c)
      PROVE SnapshotInv'
  <2>1. /\ UNCHANGED <<fileLocks, fileHandles, append, using>>
        /\ closed => closed'
        /\ \A d \in Calls \ {c} : call'[d] = call[d] /\ snapshot'[d] = snapshot[d]
    BY <1>5 DEF Begin, BeginClose, BeginSetDir, TakeSnapshot, FoundClosed, LockNext,
                CloseHandle, Return
  <2>2. call[c] \in {"close", "returned"} =>
           call'[c] \in {"close", "returned"} /\ snapshot'[c] = snapshot[c]
    BY <1>5 DEF Begin, BeginClose, BeginSetDir, TakeSnapshot, FoundClosed, LockNext,
                CloseHandle, Return
  <2>3. \A s \in Setters : call[s] \in {"close", "returned"} =>
           call'[s] \in {"close", "returned"} /\ snapshot'[s] = snapshot[s]
    BY <2>1, <2>2 DEF Calls
  <2>4. c \in Closers /\ call'[c] \in {"lock", "close"} =>
          /\ closed'
          /\ \/ snapshot'[c] = fileLocks
             \/ call[c] \in {"lock", "close"} /\ snapshot'[c] = snapshot[c]
    BY <1>5 DEF Begin, BeginClose, BeginSetDir, TakeSnapshot, FoundClosed, LockNext,
                CloseHandle, Return
  <2>5. \A d \in Closers : call'[d] \in {"lock", "close"} =>
          /\ closed'
          /\ \A a \in Appends : append[a] = "write" => KeyOf[a] \in snapshot'[d]
    BY <2>1, <2>4 DEF Calls
  <2> QED
    BY <2>1, <2>3, <2>5
<1>6. ASSUME NEW c \in Calls, Detach(c) PROVE SnapshotInv'
  <2>1. \A a \in Appends : append[a] = "write" => KeyOf[a] \notin snapshot[c]
    BY <1>6, LockHeld DEF Detach, HeldBy
  <2>2. c \in Setters \/ \A a \in Appends : append[a] # "write"
    BY <1>6, <2>1 DEF Detach, Calls
  <2> QED
    BY <1>6, <2>1, <2>2 DEF Detach, Calls
<1>7. CASE UNCHANGED vars
  BY <1>7 DEF vars
<1> QED
  BY <1>1, <1>4, <1>5, <1>6, <1>7 DEF Next, AppendLine, GoOn

(* The inductive invariant: types, handles and what the snapshots protect.   *)
THEOREM FileCorrect == Spec => []FileInv
<1>1. FileInv /\ [Next]_vars => FileInv'
  BY TypeNext, NoHandleLeaksNext, HandleInvNext, SnapshotInvNext DEF FileInv
<1> QED
  BY <1>1, FileInit, PTL DEF Spec

(* Every open file is cached or about to be closed by a call under way.      *)
THEOREM HandlesNeverLeak == Spec => []NoHandleLeaks
<1>1. FileInv => NoHandleLeaks
  BY DEF FileInv
<1> QED
  BY <1>1, FileCorrect, PTL

(* Only a SetDir that began before a file's first use closes it under an     *)
(* append: never Close, and never a SetDir whose snapshot has the lock.      *)
THEOREM LostHandlesAreFresh == Spec => []LostHandleIsFresh
<1>1. FileInv => LostHandleIsFresh
  BY LockHeld DEF FileInv, HandleInv, SnapshotInv, LostHandleIsFresh
<1> QED
  BY <1>1, FileCorrect, PTL

(* No line reaches a directory the writer has left once SetDir has returned. *)
THEOREM StaleDirBounded == Spec => []StaleDirOnlyDuringSwitch
<1>1. FileInv => StaleDirOnlyDuringSwitch
  <2> SUFFICES ASSUME FileInv, NEW a \in Appends, append[a] = "write",
                      using[a] \in open, openedIn[using[a]] # dir
               PROVE  \E s \in Setters : call[s] = "close"
    BY DEF StaleDirOnlyDuringSwitch
  <2>1. PICK c \in Calls : call[c] = "close"
    BY DEF FileInv, NoHandleLeaks
  <2>2. owner[KeyOf[a]] = a /\ KeyOf[a] \in Keys
    BY LockHeld DEF FileInv
  <2>3. KeyOf[a] \notin snapshot[c]
    BY <2>1, <2>2, CallsAssumption DEF FileInv, TypeOK, HeldBy
  <2>4. c \notin Closers
    BY <2>1, <2>3 DEF FileInv, SnapshotInv
  <2> QED
    BY <2>1, <2>4 DEF Calls
<1> QED
  BY <1>1, FileCorrect, PTL

(* What a SetDir can do to appends is bounded in both ways.                  *)
THEOREM SwitchIsBounded == Spec => []SwitchDisturbsOnlyNew
<1>1. StaleDirOnlyDuringSwitch /\ LostHandleIsFresh => SwitchDisturbsOnlyNew
  BY DEF SwitchDisturbsOnlyNew
<1> QED
  BY <1>1, StaleDirBounded, LostHandlesAreFresh, PTL
===============================================================================
