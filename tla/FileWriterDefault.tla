-------------------------- MODULE FileWriterDefault --------------------------
(*****************************************************************************)
(* The package-level writer of filewriter/writer.go.  Default looks for the  *)
(* writer, builds one outside the lock if there is none, and looks again;    *)
(* SetDefaultDir and Close take what they need under defaultMu and act on    *)
(* the writer after releasing it; either may fail there, when a directory    *)
(* cannot be resolved or made.  A writer is reduced to its directory and its *)
(* closed flag (FileWriter models the rest).                                 *)
(*****************************************************************************)
EXTENDS Naturals, FiniteSets

CONSTANTS Callers,   \* the goroutines that use the package
          Writers,   \* the writers New can still build (a bound)
          NoWriter,  \* nil
          Dirs,      \* the directories SetDefaultDir is called with
          NoDir      \* the empty name: New resolves it to the working directory

NamesAssumption == NoWriter \notin Writers /\ NoDir \notin Dirs
                   /\ "unbuilt" \notin Dirs \cup {NoDir}

VARIABLES defaultDir, defaultWriter,
          dir,        \* dir[w], or "unbuilt"
          closed,     \* closed[w]
          call,       \* call[c]: what caller c is doing
          overlapped, \* history: a SetDefaultDir has overlapped with another
                      \* one or with a Default that is building a writer
          unswitched  \* history: the writers whose last SetDir returned an
                      \* error and left the directory

historyVars == <<overlapped, unswitched>>
vars == <<defaultDir, defaultWriter, dir, closed, call, historyVars>>

Idle == [op |-> "idle"]

Built == {w \in Writers : dir[w] # "unbuilt"}

Open(w) == w # NoWriter /\ ~closed[w]

Doing(ops) == {c \in Callers : call[c].op \in ops}

Init == /\ defaultDir = NoDir
        /\ defaultWriter = NoWriter
        /\ dir = [w \in Writers |-> "unbuilt"]
        /\ closed = [w \in Writers |-> FALSE]
        /\ call = [c \in Callers |-> Idle]
        /\ overlapped = FALSE /\ unswitched = {}

(* A mutant: nil is handed out.                                              *)
LookUnchecked(c) ==
  /\ call[c] = Idle
  /\ call' = [call EXCEPT ![c] = [op |-> "use", writer |-> defaultWriter]]
  /\ UNCHANGED <<defaultDir, defaultWriter, dir, closed, historyVars>>

(* Default: the first look.                                                  *)
Look(c) ==
  /\ call[c] = Idle
  /\ IF defaultWriter # NoWriter
     THEN /\ call' = [call EXCEPT ![c] = [op |-> "use", writer |-> defaultWriter]]
          /\ UNCHANGED overlapped
     ELSE /\ call' = [call EXCEPT ![c] = [op |-> "build", dir |-> defaultDir]]
          /\ overlapped' = (overlapped \/ Doing({"setDir"}) # {})
  /\ UNCHANGED <<defaultDir, defaultWriter, dir, closed, unswitched>>

(* New(dir), outside the lock.                                               *)
Build(c) ==
  /\ call[c].op = "build"
  /\ \E w \in Writers \ Built :
       /\ dir' = [dir EXCEPT ![w] = call[c].dir]
       /\ call' = [call EXCEPT ![c] = [op |-> "install", writer |-> w]]
  /\ UNCHANGED <<defaultDir, defaultWriter, closed, historyVars>>

(* Its resolveDir fails, and Default returns the error.                      *)
BuildFails(c) ==
  /\ call[c].op = "build"
  /\ call' = [call EXCEPT ![c] = Idle]
  /\ UNCHANGED <<defaultDir, defaultWriter, dir, closed, historyVars>>

(* The second look; the writer that came too late is closed.                 *)
Install(c) ==
  /\ call[c].op = "install"
  /\ IF defaultWriter = NoWriter
     THEN /\ defaultWriter' = call[c].writer
          /\ UNCHANGED closed
     ELSE /\ closed' = [closed EXCEPT ![call[c].writer] = TRUE]
          /\ UNCHANGED defaultWriter
  /\ call' = [call EXCEPT ![c] = [op |-> "use", writer |-> defaultWriter']]
  /\ UNCHANGED <<defaultDir, dir, historyVars>>

(* SaveLine or SaveData append through the writer found; a caller of Default *)
(* may also close the writer itself.                                         *)
Use(c) ==
  /\ call[c].op = "use"
  /\ closed' \in {closed, [closed EXCEPT ![call[c].writer] = TRUE]}
  /\ call' = [call EXCEPT ![c] = Idle]
  /\ UNCHANGED <<defaultDir, defaultWriter, dir, historyVars>>

(* The directory has been resolved; a failure of that changes nothing.       *)
SetDefaultDir(c) ==
  /\ call[c] = Idle
  /\ \E d \in Dirs :
       /\ defaultDir' = d
       /\ call' = [call EXCEPT ![c] = [op |-> "setDir", writer |-> defaultWriter,
                                       dir |-> d]]
  /\ overlapped' = (overlapped \/ Doing({"setDir", "build", "install"}) # {})
  /\ UNCHANGED <<defaultWriter, dir, closed, unswitched>>

(* The writer found, if there is one, is switched, unless it is closed       *)
(* (ErrWriterClosed) or the directory cannot be resolved once more.          *)
SetDir(c) ==
  /\ call[c].op = "setDir"
  /\ LET w == call[c].writer
     IN \/ /\ Open(w)
           /\ dir' = [dir EXCEPT ![w] = call[c].dir]
           /\ unswitched' = unswitched \ {w}
        \/ /\ w # NoWriter
           /\ unswitched' = unswitched \cup {w}
           /\ UNCHANGED dir
        \/ w = NoWriter /\ UNCHANGED <<dir, unswitched>>
  /\ call' = [call EXCEPT ![c] = Idle]
  /\ UNCHANGED <<defaultDir, defaultWriter, closed, overlapped>>

CloseTake(c) ==
  /\ call[c] = Idle
  /\ defaultWriter # NoWriter
  /\ defaultWriter' = NoWriter
  /\ call' = [call EXCEPT ![c] = [op |-> "close", writer |-> defaultWriter]]
  /\ UNCHANGED <<defaultDir, dir, closed, historyVars>>

CloseWriter(c) ==
  /\ call[c].op = "close"
  /\ closed' = [closed EXCEPT ![call[c].writer] = TRUE]
  /\ call' = [call EXCEPT ![c] = Idle]
  /\ UNCHANGED <<defaultDir, defaultWriter, dir, historyVars>>

Next == \E c \in Callers :
          \/ Look(c) \/ Build(c) \/ BuildFails(c) \/ Install(c) \/ Use(c)
          \/ SetDefaultDir(c) \/ SetDir(c) \/ CloseTake(c) \/ CloseWriter(c)

Spec == Init /\ [][Next]_vars

-------------------------------------------------------------------------------
(* Types; every writer a call works with has been built.                     *)
TypeOK ==
  /\ defaultDir \in Dirs \cup {NoDir}
  /\ defaultWriter \in Built \cup {NoWriter}
  /\ dir \in [Writers -> Dirs \cup {NoDir, "unbuilt"}]
  /\ closed \in [Writers -> BOOLEAN]
  /\ call \in [Callers -> {Idle} \cup [op : {"build"}, dir : Dirs \cup {NoDir}]
       \cup [op : {"use", "install", "close"}, writer : Built]
       \cup [op : {"setDir"}, writer : Built \cup {NoWriter}, dir : Dirs]]
  /\ overlapped \in BOOLEAN /\ unswitched \subseteq Built

(* No open writer is forgotten: it is the default one, or a Default call has *)
(* still to install it, or a Close call has still to close it.               *)
NoWriterLeaks ==
  \A w \in Built : closed[w] \/ w = defaultWriter
    \/ \E c \in Callers : call[c] \in [op : {"install", "close"}, writer : {w}]

(* As long as no SetDefaultDir overlaps with another one or with the         *)
(* building of a writer, the default writer writes to the default directory  *)
(* whenever no SetDefaultDir is under way, unless the last one to find it    *)
(* returned an error.                                                        *)
SequentialSetsApply ==
  ~overlapped /\ Doing({"setDir"}) = {} /\ Open(defaultWriter) =>
    dir[defaultWriter] = defaultDir \/ defaultWriter \in unswitched

(* The documented claim, also for calls that overlap.                        *)
SetsApply ==
  Doing({"setDir", "build", "install"}) = {} /\ Open(defaultWriter) =>
    dir[defaultWriter] = defaultDir
===============================================================================
