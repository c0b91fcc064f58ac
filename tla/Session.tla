------------------------------ MODULE Session ------------------------------
(***************************************************************************)
(* The Python Session of the Rust bindings                                 *)
(* (rust-bindings/src/sessions/session.rs).                                *)
(*                                                                         *)
(* One openjd_sessions::Session value moves between a mutex-protected slot *)
(* and the detached thread of the action that is using it.  Python never   *)
(* reads the Session: it polls a snapshot, protected by a mutex of its own,*)
(* that the Python-facing methods, the status callback and the end of      *)
(* run_action all write.                                                   *)
(*                                                                         *)
(* Every Python-facing method holds the GIL from entry to return (the      *)
(* extension is built with abi3 and never detaches), so the Python threads *)
(* of a process are one actor, `caller', that is inside at most one method *)
(* at a time.  Action threads take no GIL and interleave with every step   *)
(* of it.  A critical section on the snapshot takes no other lock and is   *)
(* one step; the session mutex is modelled by `guard'.                     *)
(***************************************************************************)
EXTENDS Naturals, Sequences

CONSTANTS
    MaxActions,    \* bound: how many actions the caller dispatches
    Identifiers,   \* environment identifiers
    Rules,         \* path mapping rules
    Faults         \* which of AllFaults the environment may produce

AllFaults == {"runtime",  \* the Tokio runtime of an action thread fails to build
              "panic",    \* the action panics
              "timeout",  \* run_subprocess is given a timeout that is no duration
              "spawn",    \* the operating system refuses the thread
              "reject"}   \* the caller makes calls that the session rejects

ASSUME SessionAssumption == MaxActions \in Nat /\ Faults \subseteq AllFaults

\* Action threads are numbered by the dispatch that spawned them.
Threads == 1 .. MaxActions

SessionStates == {"Ready", "Running", "Canceling", "ReadyEnding", "Ended"}
Terminal      == {"Success", "Failed", "Canceled", "Timeout"}
ActionStates  == Terminal \cup {"Running"}

\* An ActionStatus, tagged with the action it reports on; NoStatus is None.
NoStatus == [action |-> 0, state |-> "None"]
Statuses == [action : Threads, state : ActionStates] \cup {NoStatus}

\* The methods that dispatch an action, with the identifier two of them take.
Calls == [method : {"enter_environment", "exit_environment"}, id : Identifiers]
           \cup [method : {"run_task", "run_subprocess"}]

\* What update_snapshot copies from a Session.
Snapshots == [state : SessionStates, status : Statuses, envs : Seq(Identifiers)]

\* Where an action thread is; "unborn" before it is spawned, "lost" if the
\* operating system refused it and dropped the Session its closure owned.
Places == {"unborn", "lost", "spawned", "unbuilt", "acting", "canceling",
           "returned", "panicked", "restored", "reviving", "done"}

VARIABLES
    slot,      \* session: is the Option in the mutex Some?
    guard,     \* the thread that holds the session mutex, 0 if none does
    session,   \* the Session value, wherever it is
    snapshot,  \* the fields of StateSnapshot that change
    caller,    \* where the Python side is inside a method, and its arguments
    thread,    \* where each action thread is
    call,      \* what each action thread runs
    count      \* actions dispatched so far

vars == <<slot, guard, session, snapshot, caller, thread, call, count>>

Idle == [at |-> "idle"]
Callers == [at : {"idle", "found_empty", "delivered"}]
             \cup [at : {"took"}, call : Calls]

Copy(s) == [state |-> s.state, status |-> s.status, envs |-> s.envs]

\* What the methods that dispatch leave in the snapshot.
DispatchedKeepingStatus ==     \* mutant: the previous action's status stays
    [snapshot EXCEPT !.state = "Running"]
Dispatched == [snapshot EXCEPT !.state = "Running", !.status = NoStatus]

\* What the status callback leaves in it: the status, and only that.
CallbackCopiesAll(s) == Copy(s)     \* mutant: the state too
Callback(s) == [snapshot EXCEPT !.status = s.status]

Init ==
    /\ slot = TRUE
    /\ guard = 0
    /\ session = [state |-> "Ready", status |-> NoStatus, envs |-> <<>>,
                  rules |-> {}]
    /\ snapshot = [state |-> "Ready", status |-> NoStatus, envs |-> <<>>]
    /\ caller = Idle
    /\ thread = [t \in Threads |-> "unborn"]
    /\ call = [t \in Threads |-> [method |-> "run_task"]]
    /\ count = 0

----------------------------------------------------------------------------
(* The openjd_sessions::Session value, as these bindings use it.           *)

\* Whether the session starts an action.  One that has ended, or that still
\* believes it is running, starts none; environments nest.
Accepts(s, c) ==
    /\ s.state \in {"Ready", "ReadyEnding"}
    /\ c.method = "exit_environment" =>
         s.envs # <<>> /\ c.id = s.envs[Len(s.envs)]
    /\ c.method = "enter_environment" =>
         \A i \in 1 .. Len(s.envs) : s.envs[i] # c.id

\* The environments entered once the action of call c has started.
Entered(envs, c) ==
    IF c.method = "enter_environment" THEN Append(envs, c.id)
    ELSE IF c.method = "exit_environment" THEN SubSeq(envs, 1, Len(envs) - 1)
    ELSE envs

Started(s, t, c) ==
    [s EXCEPT !.state = "Running",
              !.status = [action |-> t, state |-> "Running"],
              !.envs = Entered(s.envs, c)]

\* Session::cancel_action on a session no thread owns: a Running session
\* becomes Canceling, any other is left alone and the call is an error.
CancelOwned(s) ==
    IF s.state = "Running" THEN [s EXCEPT !.state = "Canceling"] ELSE s

----------------------------------------------------------------------------
(* The Python-facing methods.                                              *)

TakeUnchecked(c) ==     \* mutant: the slot may be empty
    /\ caller = Idle /\ guard = 0
    /\ count < MaxActions
    /\ "reject" \in Faults \/ Accepts(session, c)
    /\ slot' = FALSE
    /\ caller' = [at |-> "took", call |-> c]
    /\ UNCHANGED <<guard, session, snapshot, thread, call, count>>

\* enter_environment, exit_environment, run_task and run_subprocess: take the
\* session out of the slot and drop the guard.  With the slot empty they
\* return "An action is already running" and change nothing.
Take(c) ==
    /\ caller = Idle /\ guard = 0 /\ slot
    /\ count < MaxActions
    /\ "reject" \in Faults \/ Accepts(session, c)
    /\ slot' = FALSE
    /\ caller' = [at |-> "took", call |-> c]
    /\ UNCHANGED <<guard, session, snapshot, thread, call, count>>

\* The same methods, after the guard is dropped: the snapshot becomes Running
\* with no status and the thread is spawned.  If that fails, spawn panics and
\* drops the closure, and the session with it.
Dispatch ==
    /\ caller.at = "took"
    /\ count' = count + 1
    /\ snapshot' = Dispatched
    /\ call' = [call EXCEPT ![count'] = caller.call]
    /\ \/ thread' = [thread EXCEPT ![count'] = "spawned"]
       \/ "spawn" \in Faults /\ thread' = [thread EXCEPT ![count'] = "lost"]
    /\ caller' = Idle
    /\ UNCHANGED <<slot, guard, session>>

\* cancel_action, direct path: the slot is full.
CancelInSlot ==
    /\ caller = Idle /\ guard = 0 /\ slot
    /\ session' = CancelOwned(session)
    /\ snapshot' = Copy(session')
    /\ UNCHANGED <<slot, guard, caller, thread, call, count>>

\* cancel_action, handle path: the slot was empty when the guard was held.
CancelFindsEmpty ==
    /\ caller = Idle /\ guard = 0 /\ ~slot
    /\ caller' = [at |-> "found_empty"]
    /\ UNCHANGED <<slot, guard, session, snapshot, thread, call, count>>

\* cancel_handle.cancel reaches an action that is running, or reports that
\* there is none and the method returns an error.
CancelDeliver ==
    /\ caller.at = "found_empty"
    /\ \/ \E t \in Threads :
            /\ thread[t] \in {"acting", "canceling"}
            /\ thread' = [thread EXCEPT ![t] = "canceling"]
            /\ caller' = [at |-> "delivered"]
       \/ /\ \A t \in Threads : thread[t] \notin {"acting", "canceling"}
          /\ caller' = Idle
          /\ UNCHANGED thread
    /\ UNCHANGED <<slot, guard, session, snapshot, call, count>>

CancelMarkStatus ==     \* mutant: marks the action's status
    /\ caller.at = "delivered"
    /\ snapshot' = [snapshot EXCEPT !.status.state = "Canceling"]
    /\ caller' = Idle
    /\ UNCHANGED <<slot, guard, session, thread, call, count>>

\* The cancel was delivered: the snapshot's state becomes Canceling.
CancelMark ==
    /\ caller.at = "delivered"
    /\ snapshot' = [snapshot EXCEPT !.state = "Canceling"]
    /\ caller' = Idle
    /\ UNCHANGED <<slot, guard, session, thread, call, count>>

\* cleanup; with the slot empty it returns without doing anything.
Cleanup ==
    /\ caller = Idle /\ guard = 0 /\ slot
    /\ session' = [session EXCEPT !.state = "Ended"]
    /\ snapshot' = Copy(session')
    /\ UNCHANGED <<slot, guard, caller, thread, call, count>>

ExtendPathMappingRules(r) ==
    /\ caller = Idle /\ guard = 0 /\ slot
    /\ session' = [session EXCEPT !.rules = @ \cup {r}]
    /\ UNCHANGED <<slot, guard, snapshot, caller, thread, call, count>>

Caller ==
    \/ \E c \in Calls : Take(c)
    \/ Dispatch
    \/ CancelInSlot
    \/ CancelFindsEmpty
    \/ CancelDeliver
    \/ CancelMark
    \/ Cleanup
    \/ \E r \in Rules : ExtendPathMappingRules(r)

----------------------------------------------------------------------------
(* The action thread: run_action and the action it runs.                   *)

Goto(t, place) == thread' = [thread EXCEPT ![t] = place]

\* The runtime does not build: the snapshot is made terminal first.
BuildFails(t) ==
    /\ thread[t] = "spawned" /\ "runtime" \in Faults
    /\ snapshot' = [snapshot EXCEPT
                      !.state = "Ready",
                      !.status = [action |-> t, state |-> "Failed"]]
    /\ Goto(t, "unbuilt")
    /\ UNCHANGED <<slot, guard, session, caller, call, count>>

\* ... and the session is restored after that.
RestoreUnbuilt(t) ==
    /\ thread[t] = "unbuilt" /\ guard = 0
    /\ slot' = TRUE
    /\ Goto(t, "done")
    /\ UNCHANGED <<guard, session, snapshot, caller, call, count>>

\* The session starts the action.
Start(t) ==
    /\ thread[t] = "spawned" /\ Accepts(session, call[t])
    /\ session' = Started(session, t, call[t])
    /\ Goto(t, "acting")
    /\ UNCHANGED <<slot, guard, snapshot, caller, call, count>>

\* The callback: a report of the action reaches the snapshot, its status only.
Report(t) ==
    /\ thread[t] \in {"acting", "canceling"}
    /\ snapshot' = Callback(session)
    /\ UNCHANGED <<slot, guard, session, caller, thread, call, count>>

\* The session rejects the call: run_action's closure discards the error.
Reject(t) ==
    /\ thread[t] = "spawned" /\ ~Accepts(session, call[t])
    /\ Goto(t, "returned")
    /\ UNCHANGED <<slot, guard, session, snapshot, caller, call, count>>

\* The action ends.  Its last status reaches the callback or it does not.
Finish(t, result) ==
    /\ thread[t] \in {"acting", "canceling"}
    /\ result = "Canceled" => thread[t] = "canceling"
    /\ \E state \in {"Ready", "ReadyEnding"} :
         session' = [session EXCEPT
                       !.state = state,
                       !.status = [action |-> t, state |-> result]]
    /\ \/ snapshot' = Callback(session')
       \/ UNCHANGED snapshot
    /\ Goto(t, "returned")
    /\ UNCHANGED <<slot, guard, caller, call, count>>

\* The action panics, or the closure does before the session sees the call.
Panic(t) ==
    /\ \/ thread[t] \in {"acting", "canceling"} /\ "panic" \in Faults
       \/ /\ thread[t] = "spawned" /\ call[t].method = "run_subprocess"
          /\ "timeout" \in Faults
    /\ Goto(t, "panicked")
    /\ UNCHANGED <<slot, guard, session, snapshot, caller, call, count>>

RestoreUnlocked(t) ==     \* mutant: the guard is dropped at once
    /\ thread[t] \in {"returned", "panicked"} /\ guard = 0
    /\ slot' = TRUE
    /\ Goto(t, IF thread[t] = "returned" THEN "restored" ELSE "reviving")
    /\ UNCHANGED <<guard, session, snapshot, caller, call, count>>

RestoreReturned(t) ==     \* mutant: a panic is not caught
    /\ thread[t] = "returned" /\ guard = 0
    /\ slot' = TRUE
    /\ guard' = t
    /\ Goto(t, "restored")
    /\ UNCHANGED <<session, snapshot, caller, call, count>>

\* The session goes back into the slot and the guard is kept.
Restore(t) ==
    /\ thread[t] \in {"returned", "panicked"} /\ guard = 0
    /\ slot' = TRUE
    /\ guard' = t
    /\ Goto(t, IF thread[t] = "returned" THEN "restored" ELSE "reviving")
    /\ UNCHANGED <<session, snapshot, caller, call, count>>

RefreshStatus(t) ==     \* mutant: the environments are forgotten
    /\ thread[t] = "restored"
    /\ snapshot' = [snapshot EXCEPT !.state = session.state, !.status = session.status]
    /\ guard' = 0
    /\ Goto(t, "done")
    /\ UNCHANGED <<slot, session, caller, call, count>>

\* Ok: update_snapshot, still under the guard, which is then dropped.
Refresh(t) ==
    /\ thread[t] = "restored"
    /\ snapshot' = Copy(session)
    /\ guard' = 0
    /\ Goto(t, "done")
    /\ UNCHANGED <<slot, session, caller, call, count>>

\* Err: a terminal status is forced and the session's own state ignored.
ForceFailed(t) ==
    /\ thread[t] = "reviving"
    /\ snapshot' = [snapshot EXCEPT
                      !.state = "Ready",
                      !.status = [action |-> t, state |-> "Failed"]]
    /\ guard' = 0
    /\ Goto(t, "done")
    /\ UNCHANGED <<slot, session, caller, call, count>>

\* The steps that are run_action's own, as opposed to the action's.
RunAction(t) ==
    \/ BuildFails(t) \/ RestoreUnbuilt(t)
    \/ Start(t) \/ Reject(t)
    \/ Restore(t) \/ Refresh(t) \/ ForceFailed(t)

ActionThread(t) ==
    \/ RunAction(t)
    \/ Report(t)
    \/ \E result \in Terminal : Finish(t, result)
    \/ Panic(t)

Next == Caller \/ \E t \in Threads : ActionThread(t)

\* A thread that can take a step of run_action takes it, and a method that
\* was called returns.  Nothing makes an action end.
Fairness ==
    /\ \A t \in Threads : WF_vars(RunAction(t))
    /\ WF_vars(Dispatch) /\ WF_vars(CancelDeliver) /\ WF_vars(CancelMark)

Spec == Init /\ [][Next]_vars /\ Fairness

----------------------------------------------------------------------------
TypeOK ==
    /\ slot \in BOOLEAN
    /\ guard \in Threads \cup {0}
    /\ session \in [state : SessionStates, status : Statuses,
                   envs : Seq(Identifiers), rules : SUBSET Rules]
    /\ snapshot \in Snapshots
    /\ caller \in Callers
    /\ thread \in [Threads -> Places]
    /\ call \in [Threads -> Calls]
    /\ count \in 0 .. MaxActions

\* A thread in one of these places has the Session value.
Owning == {"spawned", "unbuilt", "acting", "canceling", "returned", "panicked"}
Owners == {t \in Threads : thread[t] \in Owning}

\* What a Python thread that holds the GIL and is in no method can rely on:
\* no one is about to write the session or the snapshot.
Quiescent == slot /\ guard = 0 /\ caller = Idle

\* The Session value is in exactly one place: the slot, a method that has
\* just taken it, or the action thread of the latest dispatch, so a session
\* that is away always has someone who will bring it back (run_action,
\* session.rs:165-169), unless that thread could not be spawned.
SingleOwner ==
    /\ slot => caller.at # "took" /\ Owners = {}
    /\ caller.at = "took" => Owners = {}
    /\ ~slot /\ caller.at # "took" =>
         Owners = IF thread[count] = "lost" THEN {} ELSE {count}

\* A poller that sees a state other than Running or Canceling can dispatch
\* the next action: the slot is full (session.rs:214-219).
SeenReadyMeansAvailable ==
    caller = Idle /\ snapshot.state \notin {"Running", "Canceling"} => slot

\* The status a poller sees never belongs to an action before the latest one
\* (session.rs:488-493).
NoStaleStatus ==
    caller.at # "took" => snapshot.status.action \in {0, count}

\* With the session at rest, the snapshot is the session's: a cancel that was
\* overtaken by the end of the action leaves its mark on the state, and on
\* nothing else (update_snapshot, cancel_action).
SnapshotFaithful ==
    Quiescent => \/ snapshot = Copy(session)
                 \/ snapshot = [Copy(session) EXCEPT !.state = "Canceling"]

\* Whatever becomes of an action thread that was spawned, the session comes
\* back once the action itself is over (session.rs:163-172).
SessionComesBack ==
    \A t \in Threads :
        thread[t] \in Owning \ {"acting", "canceling"} ~>
            (slot \/ thread[t] = "acting")

\* The promise of a session that Python sees, see ActionPromise.
Promise == INSTANCE ActionPromise WITH
    number  <- count,
    phase   <- IF guard = 0 /\ (slot \/ caller.at = "took")
               THEN "available" ELSE "busy",
    outcome <- IF snapshot.status.action \in {0, count} \/ caller.at = "took"
               THEN snapshot.status.state ELSE "stale"
KeepsPromise == Promise!Spec

============================================================================
