------------------------------- MODULE TaskPool -------------------------------
(*****************************************************************************)
(* What a worker pool promises its callers, with no goroutine, lock or       *)
(* condition variable in sight: tasks are started in the order they were     *)
(* accepted, never more of them at a time than the largest limit the pool    *)
(* ever had, and once the pool is closed at most one more task is started    *)
(* and only tasks still in line are dropped.                                 *)
(*****************************************************************************)
EXTENDS Naturals, Sequences, FiniteSets, SequencesExt

CONSTANT Tasks

VARIABLES phase,   \* phase[t]: how far task t has come
          line,    \* the accepted tasks that have not been started, oldest first
          ceiling, \* the largest limit the pool has had so far
          closed,  \* the pool has been stopped
          late     \* how many tasks were started after that

vars == <<phase, line, ceiling, closed, late>>

Phases == {"new", "offered", "waiting", "active", "done", "refused", "dropped"}

Active == {t \in Tasks : phase[t] = "active"}

Init == /\ phase = [t \in Tasks |-> "new"]
        /\ line = <<>>
        /\ ceiling \in Nat \ {0}
        /\ closed = FALSE
        /\ late = 0

Offer(t) == /\ phase[t] = "new"
            /\ ~closed
            /\ phase' = [phase EXCEPT ![t] = "offered"]
            /\ UNCHANGED <<line, ceiling, closed, late>>

(* A task offered before the close may still be accepted after it.           *)
Accept(t) == /\ phase[t] = "offered"
             /\ phase' = [phase EXCEPT ![t] = "waiting"]
             /\ line' = Append(line, t)
             /\ UNCHANGED <<ceiling, closed, late>>

Refuse(t) == /\ phase[t] \in {"new", "offered"}
             /\ closed
             /\ phase' = [phase EXCEPT ![t] = "refused"]
             /\ UNCHANGED <<line, ceiling, closed, late>>

Start == /\ line # <<>>
         /\ Cardinality(Active) < ceiling
         /\ closed => late = 0
         /\ phase' = [phase EXCEPT ![Head(line)] = "active"]
         /\ line' = Tail(line)
         /\ late' = IF closed THEN late + 1 ELSE late
         /\ UNCHANGED <<ceiling, closed>>

Finish(t) == /\ phase[t] = "active"
             /\ phase' = [phase EXCEPT ![t] = "done"]
             /\ UNCHANGED <<line, ceiling, closed, late>>

Drop(t) == /\ closed
           /\ phase[t] = "waiting"
           /\ phase' = [phase EXCEPT ![t] = "dropped"]
           /\ \E i \in DOMAIN line : line[i] = t /\ line' = RemoveAt(line, i)
           /\ UNCHANGED <<ceiling, closed, late>>

Raise == /\ ceiling' \in Nat
         /\ ceiling' > ceiling
         /\ UNCHANGED <<phase, line, closed, late>>

Close == /\ ~closed
         /\ closed' = TRUE
         /\ UNCHANGED <<phase, line, ceiling, late>>

Next == \/ \E t \in Tasks : \/ Offer(t) \/ Accept(t) \/ Refuse(t)
                            \/ Finish(t) \/ Drop(t)
        \/ Start \/ Raise \/ Close

Spec == Init /\ [][Next]_vars
===============================================================================
