--------------------------- MODULE SessionProofs ---------------------------
(***************************************************************************)
(* Theorems about Session for every bound on the actions and every set of  *)
(* identifiers, rules and faults.                                          *)
(***************************************************************************)
EXTENDS Session, SequenceTheorems, TLAPS

----------------------------------------------------------------------------
(* Types.  The field whose type is not plain is envs: an environment is    *)
(* exited only when one has been entered.                                  *)

Sessions == [state : SessionStates, status : Statuses,
             envs : Seq(Identifiers), rules : SUBSET Rules]

\* Starting an accepted call keeps the list of environments well formed
\* (Session's environments_entered).
LEMMA EnteredType ==
    ASSUME NEW s \in Sessions, NEW c \in Calls, Accepts(s, c)
    PROVE  Entered(s.envs, c) \in Seq(Identifiers)
<1>1. s.envs \in Seq(Identifiers) BY DEF Sessions
<1>2. CASE c.method = "enter_environment"
  <2>1. c.id \in Identifiers BY <1>2 DEF Calls
  <2> QED BY <1>1, <1>2, <2>1 DEF Entered
<1>3. CASE c.method = "exit_environment"
  <2>1. s.envs # <<>> BY <1>3 DEF Accepts
  <2>2. Len(s.envs) \in Nat \ {0} BY <1>1, <2>1, EmptySeq
  <2>3. \A i \in 1 .. Len(s.envs) - 1 : s.envs[i] \in Identifiers
    BY <1>1, <2>2, ElementOfSeq
  <2>4. SubSeq(s.envs, 1, Len(s.envs) - 1) \in Seq(Identifiers)
    BY <2>2, <2>3, SubSeqProperties
  <2> QED BY <1>3, <2>4 DEF Entered
<1>4. CASE c.method \notin {"enter_environment", "exit_environment"}
  BY <1>1, <1>4 DEF Entered
<1> QED BY <1>2, <1>3, <1>4

\* ... and the session as a whole.
LEMMA StartedType ==
    ASSUME NEW s \in Sessions, NEW t \in Threads, NEW c \in Calls, Accepts(s, c)
    PROVE  Started(s, t, c) \in Sessions
<1>1. Entered(s.envs, c) \in Seq(Identifiers) BY EnteredType
<1>2. [action |-> t, state |-> "Running"] \in Statuses
  BY DEF Statuses, ActionStates
<1> QED BY <1>1, <1>2 DEF Started, Sessions, SessionStates

\* What a snapshot takes from a session is a snapshot (update_snapshot).
LEMMA CopyType ==
    ASSUME NEW s \in Sessions PROVE Copy(s) \in Snapshots
BY DEF Copy, Sessions, Snapshots

\* The initial state has its type.
LEMMA InitType == Init => TypeOK
<1>1. <<>> \in Seq(Identifiers) BY EmptySeq
<1>2. [method |-> "run_task"] \in Calls BY DEF Calls
<1>3. SUFFICES ASSUME Init PROVE TypeOK OBVIOUS
<1>4. session \in Sessions
  BY <1>1, <1>3 DEF Init, Sessions, SessionStates, Statuses, NoStatus
<1>5. snapshot \in Snapshots
  BY <1>1, <1>3 DEF Init, Snapshots, SessionStates, Statuses, NoStatus
<1>6. caller \in Callers BY <1>3 DEF Init, Idle, Callers
<1>7. thread \in [Threads -> Places] /\ call \in [Threads -> Calls]
  BY <1>2, <1>3 DEF Init, Places
<1> QED
  BY <1>3, <1>4, <1>5, <1>6, <1>7, SessionAssumption DEF Init, TypeOK, Sessions

\* A dispatch that is under way is within the bound on the actions: the part
\* of the inductive invariant that TypeOK needs beside itself.
Bounded == caller.at = "took" => count < MaxActions

\* Every step of a Python-facing method keeps the types.
LEMMA CallerType == TypeOK /\ Bounded /\ Caller => TypeOK'
<1> SUFFICES ASSUME TypeOK, Bounded, Caller PROVE TypeOK' OBVIOUS
<1> USE SessionAssumption
<1>1. session \in Sessions BY DEF TypeOK, Sessions
<1>2. ASSUME NEW c \in Calls, Take(c) PROVE TypeOK'
  BY <1>2 DEF Take, TypeOK, Callers
<1>3. CASE Dispatch
  <2>1. count \in Nat /\ count + 1 \in Nat BY DEF TypeOK
  <2>2. caller.call \in Calls BY <1>3 DEF Dispatch, Dispatched, TypeOK, Callers
  <2>3. snapshot' \in Snapshots
    BY <1>3 DEF Dispatch, Dispatched, TypeOK, Snapshots, SessionStates, Statuses
  <2>4. thread' \in [Threads -> Places] BY <1>3 DEF Dispatch, Dispatched, TypeOK, Places
  <2>5. call' \in [Threads -> Calls] BY <1>3, <2>2 DEF Dispatch, Dispatched, TypeOK
  <2>6. caller' \in Callers BY <1>3 DEF Dispatch, Dispatched, Idle, Callers
  <2>7. count' \in 0 .. MaxActions BY <1>3, <2>1 DEF Dispatch, Dispatched, TypeOK, Bounded
  <2> QED BY <1>3, <2>3, <2>4, <2>5, <2>6, <2>7 DEF Dispatch, Dispatched, TypeOK
<1>4. CASE CancelInSlot
  <2>1. session' \in Sessions
    BY <1>1, <1>4 DEF CancelInSlot, CancelOwned, Sessions, SessionStates
  <2>2. snapshot' \in Snapshots BY <1>4, <2>1, CopyType DEF CancelInSlot
  <2> QED BY <1>4, <2>1, <2>2 DEF CancelInSlot, TypeOK, Sessions
<1>5. CASE CancelFindsEmpty BY <1>5 DEF CancelFindsEmpty, TypeOK, Callers
<1>6. CASE CancelDeliver
  <2>1. thread' \in [Threads -> Places]
    BY <1>6 DEF CancelDeliver, TypeOK, Places
  <2>2. caller' \in Callers BY <1>6 DEF CancelDeliver, Callers, Idle
  <2> QED BY <1>6, <2>1, <2>2 DEF CancelDeliver, TypeOK
<1>7. CASE CancelMark
  <2>1. snapshot' \in Snapshots
    BY <1>7 DEF CancelMark, TypeOK, Snapshots, SessionStates
  <2>2. caller' \in Callers BY <1>7 DEF CancelMark, Callers, Idle
  <2> QED BY <1>7, <2>1, <2>2 DEF CancelMark, TypeOK
<1>8. CASE Cleanup
  <2>1. session' \in Sessions BY <1>1, <1>8 DEF Cleanup, Sessions, SessionStates
  <2>2. snapshot' \in Snapshots BY <1>8, <2>1, CopyType DEF Cleanup
  <2> QED BY <1>8, <2>1, <2>2 DEF Cleanup, TypeOK, Sessions
<1>9. ASSUME NEW r \in Rules, ExtendPathMappingRules(r) PROVE TypeOK'
  <2>1. session' \in Sessions
    BY <1>1, <1>9 DEF ExtendPathMappingRules, Sessions
  <2> QED BY <1>9, <2>1 DEF ExtendPathMappingRules, TypeOK, Sessions
<1> QED
  BY <1>2, <1>3, <1>4, <1>5, <1>6, <1>7, <1>8, <1>9 DEF Caller

\* Every step of an action thread keeps the types.
LEMMA ActionThreadType ==
    ASSUME TypeOK, NEW t \in Threads, ActionThread(t)
    PROVE  TypeOK'
<1> USE SessionAssumption
<1>1. session \in Sessions BY DEF TypeOK, Sessions
<1>2. [action |-> t, state |-> "Failed"] \in Statuses
  BY DEF Statuses, ActionStates, Terminal
<1>3. \A place \in Places :
        Goto(t, place) => thread' \in [Threads -> Places]
  BY DEF Goto, TypeOK
<1>4. CASE BuildFails(t)
  <2>1. snapshot' \in Snapshots
    BY <1>2, <1>4 DEF BuildFails, TypeOK, Snapshots, SessionStates
  <2>2. thread' \in [Threads -> Places] BY <1>3, <1>4 DEF BuildFails, Places
  <2> QED BY <1>4, <2>1, <2>2 DEF BuildFails, TypeOK
<1>5. CASE RestoreUnbuilt(t)
  <2>1. thread' \in [Threads -> Places] BY <1>3, <1>5 DEF RestoreUnbuilt, Places
  <2> QED BY <1>5, <2>1 DEF RestoreUnbuilt, TypeOK
<1>6. CASE Start(t)
  <2>1. call[t] \in Calls BY DEF TypeOK
  <2>2. session' \in Sessions BY <1>1, <1>6, <2>1, StartedType DEF Start
  <2>3. thread' \in [Threads -> Places] BY <1>3, <1>6 DEF Start, Places
  <2> QED BY <1>6, <2>2, <2>3 DEF Start, TypeOK, Sessions
<1>7. CASE Reject(t)
  <2>1. thread' \in [Threads -> Places] BY <1>3, <1>7 DEF Reject, Places
  <2> QED BY <1>7, <2>1 DEF Reject, TypeOK
<1>8. CASE Report(t)
  <2>1. snapshot' \in Snapshots BY <1>8 DEF Report, Callback, TypeOK, Snapshots
  <2> QED BY <1>8, <2>1 DEF Report, Callback, TypeOK
<1>9. ASSUME NEW result \in Terminal, Finish(t, result) PROVE TypeOK'
  <2>1. [action |-> t, state |-> result] \in Statuses
    BY DEF Statuses, ActionStates
  <2>2. session' \in Sessions
    BY <1>1, <1>9, <2>1 DEF Finish, Callback, Sessions, SessionStates
  <2>3. snapshot' \in Snapshots
    BY <1>9, <2>2 DEF Finish, Callback, TypeOK, Snapshots, Sessions
  <2>4. thread' \in [Threads -> Places] BY <1>3, <1>9 DEF Finish, Callback, Places
  <2> QED BY <1>9, <2>2, <2>3, <2>4 DEF Finish, Callback, TypeOK, Sessions
<1>10. CASE Panic(t)
  <2>1. thread' \in [Threads -> Places] BY <1>3, <1>10 DEF Panic, Places
  <2> QED BY <1>10, <2>1 DEF Panic, TypeOK
<1>11. CASE Restore(t)
  <2>1. thread' \in [Threads -> Places] BY <1>3, <1>11 DEF Restore, Places
  <2> QED BY <1>11, <2>1 DEF Restore, TypeOK
<1>12. CASE Refresh(t)
  <2>1. snapshot' \in Snapshots BY <1>1, <1>12, CopyType DEF Refresh
  <2>2. thread' \in [Threads -> Places] BY <1>3, <1>12 DEF Refresh, Places
  <2> QED BY <1>12, <2>1, <2>2 DEF Refresh, TypeOK
<1>13. CASE ForceFailed(t)
  <2>1. snapshot' \in Snapshots
    BY <1>2, <1>13 DEF ForceFailed, TypeOK, Snapshots, SessionStates
  <2>2. thread' \in [Threads -> Places] BY <1>3, <1>13 DEF ForceFailed, Places
  <2> QED BY <1>13, <2>1, <2>2 DEF ForceFailed, TypeOK
<1> QED
  BY <1>4, <1>5, <1>6, <1>7, <1>8, <1>9, <1>10, <1>11, <1>12, <1>13
  DEF ActionThread, RunAction

\* The types and the bound together are inductive.
Typed == TypeOK /\ Bounded

LEMMA TypedStep == Typed /\ [Next]_vars => Typed'
<1> SUFFICES ASSUME TypeOK, Bounded, [Next]_vars PROVE TypeOK' /\ Bounded'
  BY DEF Typed
<1>1. CASE Caller
  <2>1. TypeOK' BY <1>1, CallerType
  <2>2. Bounded'
    BY <1>1 DEF Caller, Take, Dispatch, CancelInSlot, CancelFindsEmpty,
       CancelDeliver, CancelMark, Cleanup, ExtendPathMappingRules, Idle, Bounded
  <2> QED BY <2>1, <2>2
<1>2. ASSUME NEW t \in Threads, ActionThread(t) PROVE TypeOK' /\ Bounded'
  <2>1. TypeOK' BY <1>2, ActionThreadType
  <2>2. UNCHANGED <<caller, count>>
    BY <1>2 DEF ActionThread, RunAction, BuildFails, RestoreUnbuilt, Start,
       Reject, Report, Finish, Panic, Restore, Refresh, ForceFailed
  <2> QED BY <2>1, <2>2 DEF Bounded
<1>3. CASE UNCHANGED vars BY <1>3 DEF vars, TypeOK, Bounded
<1> QED BY <1>1, <1>2, <1>3 DEF Next

\* Type correctness: the slot, the snapshot and the session keep their types
\* through every interleaving of methods and action threads, under any fault.
THEOREM TypeCorrect == Spec => []TypeOK
<1>1. Init => Typed BY InitType DEF Init, Idle, Bounded, Typed
<1>2. Typed => TypeOK BY DEF Typed
<1> QED BY <1>1, <1>2, TypedStep, PTL DEF Spec

----------------------------------------------------------------------------
(* Ownership.  SingleOwner counts the owners; it is inductive once it says *)
(* who they are: the thread of the latest dispatch, while that is not      *)
(* under way, and that a thread which still has to refresh the snapshot    *)
(* holds the guard over a full slot.                                       *)

Refreshing == {"restored", "reviving"}

Ownership ==
    /\ slot => caller.at # "took"
    /\ \A t \in Threads :
         /\ thread[t] \in Owning => ~slot /\ caller.at # "took" /\ t = count
         /\ thread[t] \in Refreshing => slot /\ guard = t /\ t = count
         /\ t > count => thread[t] = "unborn"
    /\ ~slot /\ caller.at # "took" =>
         count \in Threads /\ thread[count] \in Owning \cup {"lost"}

OwnInv == Typed /\ Ownership

\* Initially the slot has the session.
LEMMA OwnInit == Init => OwnInv
<1> SUFFICES ASSUME Init PROVE OwnInv OBVIOUS
<1>1. Typed BY InitType DEF Init, Idle, Bounded, Typed
<1>2. Ownership BY DEF Init, Idle, Owning, Refreshing, Ownership
<1> QED BY <1>1, <1>2 DEF OwnInv

\* The methods of the Python side preserve ownership.
LEMMA OwnCaller ==
    ASSUME OwnInv, Caller PROVE Ownership'
<1> USE SessionAssumption DEF OwnInv, Typed
<1>0. /\ count \in Nat /\ thread \in [Threads -> Places]
      /\ Threads \subseteq Nat \ {0}
  BY DEF TypeOK, Threads
<1>1. ASSUME NEW c \in Calls, Take(c) PROVE Ownership'
  <2>1. \A t \in Threads : thread[t] \notin Owning \cup Refreshing
    BY <1>0, <1>1 DEF Take, Ownership
  <2> QED BY <1>1, <2>1 DEF Take, Ownership
<1>2. CASE Dispatch
  <2>1. count' \in Threads /\ count' = count + 1
    BY <1>0, <1>2 DEF Dispatch, Dispatched, Bounded, Threads, TypeOK
  <2>2. \A t \in Threads : thread[t] \notin Owning \cup Refreshing
    BY <1>2 DEF Dispatch, Dispatched, Ownership
  <2>3. ~slot' /\ caller'.at = "idle"
    BY <1>2 DEF Dispatch, Dispatched, Ownership, Idle
  <2>4. thread'[count'] \in {"spawned", "lost"}
    BY <1>0, <1>2, <2>1 DEF Dispatch, Dispatched
  <2>5. \A t \in Threads : t # count' => thread'[t] = thread[t]
    BY <1>0, <1>2 DEF Dispatch, Dispatched
  <2>6. \A t \in Threads : t > count' => t # count' /\ t > count
    BY <1>0, <2>1
  <2> QED
    BY <2>1, <2>2, <2>3, <2>4, <2>5, <2>6 DEF Ownership, Owning, Refreshing
<1>3. CASE CancelInSlot BY <1>3 DEF CancelInSlot, Ownership
<1>4. CASE CancelFindsEmpty BY <1>4 DEF CancelFindsEmpty, Ownership, Idle
<1>5. CASE CancelDeliver
  <2>1. \A t \in Threads :
          \/ thread'[t] = thread[t]
          \/ thread[t] \in Owning /\ thread'[t] = "canceling"
    BY <1>0, <1>5 DEF CancelDeliver, Owning
  <2>2. caller.at # "took" /\ caller'.at # "took"
    BY <1>5 DEF CancelDeliver, Idle
  <2>3. UNCHANGED <<slot, guard, count>> BY <1>5 DEF CancelDeliver
  <2> QED BY <1>0, <2>1, <2>2, <2>3 DEF Ownership, Owning, Refreshing
<1>6. CASE CancelMark BY <1>6 DEF CancelMark, Ownership, Idle
<1>7. CASE Cleanup BY <1>7 DEF Cleanup, Ownership
<1>8. ASSUME NEW r \in Rules, ExtendPathMappingRules(r) PROVE Ownership'
  BY <1>8 DEF ExtendPathMappingRules, Ownership
<1> QED
  BY <1>1, <1>2, <1>3, <1>4, <1>5, <1>6, <1>7, <1>8 DEF Caller

\* So does every step of an action thread: it keeps the session, or it hands
\* it to the slot.
LEMMA OwnActionThread ==
    ASSUME OwnInv, NEW t \in Threads, ActionThread(t) PROVE Ownership'
<1> USE SessionAssumption DEF OwnInv, Typed
<1>0. /\ count \in Nat /\ thread \in [Threads -> Places]
      /\ Threads \subseteq Nat \ {0}
  BY DEF TypeOK, Threads
<1>1. \A place \in Places :
        Goto(t, place) => /\ thread'[t] = place
                          /\ \A u \in Threads : u # t => thread'[u] = thread[u]
  BY <1>0 DEF Goto
<1>2. \A place \in Places : thread[t] \in Owning /\ place \in Owning
        /\ Goto(t, place) /\ UNCHANGED <<slot, guard, caller, count>> => Ownership'
  BY <1>0, <1>1 DEF Ownership, Owning, Refreshing
<1>3. CASE BuildFails(t) BY <1>2, <1>3 DEF BuildFails, Owning, Places
<1>4. CASE RestoreUnbuilt(t)
  BY <1>0, <1>1, <1>4 DEF RestoreUnbuilt, Ownership, Owning, Refreshing, Places
<1>5. CASE Start(t) BY <1>2, <1>5 DEF Start, Owning, Places
<1>6. CASE Reject(t) BY <1>2, <1>6 DEF Reject, Owning, Places
<1>7. CASE Report(t) BY <1>7 DEF Report, Callback, Ownership
<1>8. ASSUME NEW result \in Terminal, Finish(t, result) PROVE Ownership'
  BY <1>2, <1>8 DEF Finish, Callback, Owning, Places
<1>9. CASE Panic(t) BY <1>2, <1>9 DEF Panic, Owning, Places
<1>10. CASE Restore(t)
  <2>1. thread'[t] \in Refreshing
    BY <1>1, <1>10 DEF Restore, Places, Refreshing
  <2>2. \A u \in Threads : u # t => thread'[u] = thread[u]
    BY <1>1, <1>10 DEF Restore, Places
  <2>3. t = count /\ caller.at # "took"
    BY <1>10 DEF Restore, Ownership, Owning
  <2>4. \A u \in Threads : u # t => thread[u] \notin Owning \cup Refreshing
    BY <1>0, <1>10, <2>3 DEF Restore, Ownership
  <2>5. slot' /\ guard' = t /\ UNCHANGED <<caller, count>>
    BY <1>10 DEF Restore
  <2> QED
    BY <1>0, <2>1, <2>2, <2>3, <2>4, <2>5 DEF Ownership, Owning, Refreshing
<1>11. ASSUME Refresh(t) \/ ForceFailed(t) PROVE Ownership'
  <2>1. thread[t] \in Refreshing /\ thread'[t] = "done"
    BY <1>1, <1>11 DEF Refresh, ForceFailed, Refreshing, Places
  <2>2. \A u \in Threads : u # t => thread'[u] = thread[u]
    BY <1>1, <1>11 DEF Refresh, ForceFailed, Places
  <2>3. slot /\ guard = t /\ t = count BY <2>1 DEF Ownership
  <2>4. UNCHANGED <<slot, caller, count>> BY <1>11 DEF Refresh, ForceFailed
  <2> QED BY <1>0, <2>1, <2>2, <2>3, <2>4 DEF Ownership, Owning, Refreshing
<1> QED
  BY <1>3, <1>4, <1>5, <1>6, <1>7, <1>8, <1>9, <1>10, <1>11
  DEF ActionThread, RunAction

\* The invariant of ownership is inductive.
LEMMA OwnStep == OwnInv /\ [Next]_vars => OwnInv'
<1> SUFFICES ASSUME OwnInv, [Next]_vars PROVE OwnInv' OBVIOUS
<1>1. Typed' BY TypedStep DEF OwnInv
<1>2. CASE Caller BY <1>1, <1>2, OwnCaller DEF OwnInv
<1>3. ASSUME NEW t \in Threads, ActionThread(t) PROVE OwnInv'
  BY <1>1, <1>3, OwnActionThread DEF OwnInv
<1>4. CASE UNCHANGED vars BY <1>1, <1>4 DEF vars, OwnInv, Ownership
<1> QED BY <1>2, <1>3, <1>4 DEF Next

\* ... and says that there is one owner.
LEMMA OwnImplies == OwnInv => SingleOwner
BY DEF OwnInv, Ownership, SingleOwner, Owners, Owning

\* The Session value is never in two places and never nowhere, except after a
\* thread that could not be spawned: no fault makes two actions own it, and a
\* panic or a runtime that does not build does not lose it.
THEOREM OneOwner == Spec => []SingleOwner
BY OwnInit, OwnStep, OwnImplies, PTL DEF Spec

----------------------------------------------------------------------------
(* What a poller can rely on.  Each property needs the faults that break   *)
(* it to be excluded, and no other.                                        *)

\* While the session is away the snapshot says so.
Announced ==
    ~slot /\ caller.at # "took" => snapshot.state \in {"Running", "Canceling"}

\* A poller that sees neither Running nor Canceling finds the slot full,
\* provided runtimes build: run_action restores the session before it
\* refreshes the snapshot, the callback leaves the state alone, and a cancel
\* only ever writes Canceling.
THEOREM ReadyMeansAvailable ==
    ASSUME "runtime" \notin Faults
    PROVE  Spec => []SeenReadyMeansAvailable
<1>1. Init => OwnInv /\ Announced
  BY OwnInit DEF Init, Announced
<1>2. OwnInv /\ Announced /\ [Next]_vars => OwnInv' /\ Announced'
  <2> SUFFICES ASSUME OwnInv, Announced, [Next]_vars PROVE Announced'
    BY OwnStep
  <2> USE DEF Announced
  <2>1. snapshot \in Snapshots BY DEF OwnInv, Typed, TypeOK
  <2>2. CASE Caller
    <3>1. ASSUME NEW c \in Calls, Take(c) PROVE Announced'
      BY <3>1 DEF Take
    <3>2. CASE Dispatch BY <2>1, <3>2 DEF Dispatch, Dispatched, Snapshots
    <3>3. CASE CancelInSlot BY <3>3 DEF CancelInSlot
    <3>4. CASE CancelFindsEmpty BY <3>4 DEF CancelFindsEmpty, Idle
    <3>5. CASE CancelDeliver BY <3>5 DEF CancelDeliver, Idle
    <3>6. CASE CancelMark BY <2>1, <3>6 DEF CancelMark, Snapshots
    <3>7. CASE Cleanup BY <3>7 DEF Cleanup
    <3>8. ASSUME NEW r \in Rules, ExtendPathMappingRules(r) PROVE Announced'
      BY <3>8 DEF ExtendPathMappingRules
    <3> QED
      BY <2>2, <3>1, <3>2, <3>3, <3>4, <3>5, <3>6, <3>7, <3>8 DEF Caller
  <2>3. ASSUME NEW t \in Threads, ActionThread(t) PROVE Announced'
    <3>1. CASE Report(t) BY <2>1, <3>1 DEF Report, Callback, Snapshots
    <3>2. ASSUME NEW result \in Terminal, Finish(t, result) PROVE Announced'
      BY <2>1, <3>2 DEF Finish, Callback, Snapshots
    <3>3. CASE Refresh(t) \/ ForceFailed(t)
      BY <3>3 DEF Refresh, ForceFailed, OwnInv, Ownership, Refreshing
    <3>4. CASE RestoreUnbuilt(t) \/ Restore(t)
      BY <3>4 DEF RestoreUnbuilt, Restore
    <3>5. CASE Start(t) \/ Reject(t) \/ Panic(t)
      BY <3>5 DEF Start, Reject, Panic
    <3>6. ~BuildFails(t) BY DEF BuildFails
    <3> QED
      BY <2>3, <3>1, <3>2, <3>3, <3>4, <3>5, <3>6 DEF ActionThread, RunAction
  <2>4. CASE UNCHANGED vars BY <2>4 DEF vars
  <2> QED BY <2>2, <2>3, <2>4 DEF Next
<1>3. Announced => SeenReadyMeansAvailable
  BY DEF Announced, SeenReadyMeansAvailable, Idle
<1> QED BY <1>1, <1>2, <1>3, PTL DEF Spec

\* The places of a thread whose action the session has started.
HasStarted == {"acting", "canceling", "returned", "panicked", "restored", "reviving"}

\* The session reports on its own latest action, and nothing that was taken or
\* spawned is going to be rejected.
Fresh ==
    /\ caller.at # "took" => snapshot.status.action \in {0, count}
    /\ slot /\ guard = 0 => session.status.action \in {0, count}
    /\ \A t \in Threads : thread[t] \in HasStarted => session.status.action = t
    /\ caller.at = "took" => Accepts(session, caller.call)
    /\ \A t \in Threads : thread[t] = "spawned" => Accepts(session, call[t])
    /\ \A t \in Threads : thread[t] # "unbuilt"

\* Nothing but a runtime that does not build, or a call that the session, or the
\* thread before it, rejects, makes the session report on an earlier action.
LEMMA FreshAlways ==
    ASSUME "runtime" \notin Faults, "reject" \notin Faults, "timeout" \notin Faults
    PROVE  Spec => [](OwnInv /\ Fresh)
<1>1. Init => OwnInv /\ Fresh
  BY OwnInit DEF Init, Fresh, Idle, NoStatus, HasStarted
<1>2. OwnInv /\ Fresh /\ [Next]_vars => OwnInv' /\ Fresh'
  <2> SUFFICES ASSUME OwnInv, Fresh, [Next]_vars PROVE Fresh'
    BY OwnStep
  <2>1. /\ snapshot \in Snapshots /\ session \in Sessions
        /\ thread \in [Threads -> Places] /\ call \in [Threads -> Calls]
        /\ count \in Nat /\ Threads \subseteq Nat \ {0}
    BY SessionAssumption DEF OwnInv, Typed, TypeOK, Sessions, Threads
  <2>2. Ownership BY DEF OwnInv
  <2>3. CASE Caller
    <3>1. ASSUME NEW c \in Calls, Take(c) PROVE Fresh'
      BY <3>1 DEF Take, Fresh
    <3>2. CASE Dispatch
      <4>1. count' \in Threads /\ count' = count + 1
        BY <2>1, <3>2, SessionAssumption
        DEF Dispatch, Dispatched, OwnInv, Typed, Bounded, Threads, TypeOK
      <4>2. \A t \in Threads : thread[t] \notin Owning \cup Refreshing
        BY <2>2, <3>2 DEF Dispatch, Dispatched, Ownership
      <4>3. /\ thread'[count'] \in {"spawned", "lost"}
            /\ call'[count'] = caller.call
            /\ \A t \in Threads : t # count' => thread'[t] = thread[t]
        BY <2>1, <3>2, <4>1 DEF Dispatch, Dispatched
      <4>4. snapshot'.status.action = 0 /\ caller'.at = "idle" /\ ~slot'
        BY <2>1, <2>2, <3>2 DEF Dispatch, Dispatched, Snapshots, NoStatus, Idle, Ownership
      <4>5. caller.at = "took" /\ session' = session BY <3>2 DEF Dispatch, Dispatched
      <4> QED
        BY <4>1, <4>2, <4>3, <4>4, <4>5
        DEF Fresh, Accepts, Owning, Refreshing, HasStarted
    <3>3. CASE CancelInSlot
      <4>1. \A t \in Threads : thread[t] \notin Owning \cup Refreshing
        BY <2>1, <2>2, <3>3 DEF CancelInSlot, Ownership
      <4>2. session'.status = session.status /\ snapshot'.status = session'.status
        BY <2>1, <3>3 DEF CancelInSlot, CancelOwned, Copy, Sessions
      <4> QED
        BY <3>3, <4>1, <4>2
        DEF CancelInSlot, Fresh, Idle, Owning, Refreshing, HasStarted
    <3>4. CASE CancelFindsEmpty BY <3>4 DEF CancelFindsEmpty, Fresh, Idle
    <3>5. CASE CancelDeliver
      <4>1. \A t \in Threads :
              \/ thread'[t] = thread[t]
              \/ thread[t] \in HasStarted /\ thread'[t] = "canceling"
        BY <2>1, <3>5 DEF CancelDeliver, HasStarted
      <4> QED BY <3>5, <4>1 DEF CancelDeliver, Fresh, Idle, Accepts, HasStarted
    <3>6. CASE CancelMark
      BY <2>1, <3>6 DEF CancelMark, Fresh, Idle, Snapshots, Accepts
    <3>7. CASE Cleanup
      <4>1. \A t \in Threads : thread[t] \notin Owning \cup Refreshing
        BY <2>1, <2>2, <3>7 DEF Cleanup, Ownership
      <4>2. session'.status = session.status /\ snapshot'.status = session'.status
        BY <2>1, <3>7 DEF Cleanup, Copy, Sessions
      <4> QED
        BY <3>7, <4>1, <4>2
        DEF Cleanup, Fresh, Idle, Owning, Refreshing, HasStarted
    <3>8. ASSUME NEW r \in Rules, ExtendPathMappingRules(r) PROVE Fresh'
      <4>1. /\ session'.status = session.status /\ session'.state = session.state
            /\ session'.envs = session.envs
        BY <2>1, <3>8 DEF ExtendPathMappingRules, Sessions
      <4> QED
        BY <3>8, <4>1 DEF ExtendPathMappingRules, Fresh, Accepts, Idle
    <3> QED
      BY <2>3, <3>1, <3>2, <3>3, <3>4, <3>5, <3>6, <3>7, <3>8 DEF Caller
  <2>4. ASSUME NEW t \in Threads, ActionThread(t) PROVE Fresh'
    <3>1. \A place \in Places :
            Goto(t, place) => /\ thread'[t] = place
                              /\ \A u \in Threads : u # t => thread'[u] = thread[u]
      BY <2>1 DEF Goto
    <3>2. thread[t] \in Owning \cup Refreshing =>
            /\ caller.at # "took" /\ t = count
            /\ \A u \in Threads : u # t => thread[u] \notin Owning \cup Refreshing
      BY <2>1, <2>2 DEF Ownership
    <3>3. CASE Start(t)
      <4>1. session'.status.action = t
        BY <2>1, <3>3 DEF Start, Started, Sessions
      <4> QED
        BY <2>1, <2>2, <3>1, <3>2, <3>3, <4>1
        DEF Start, Fresh, Ownership, Owning, Refreshing, HasStarted, Places
    <3>4. CASE Report(t)
      BY <2>1, <3>2, <3>4
      DEF Report, Callback, Fresh, Snapshots, Owning, HasStarted, Accepts
    <3>5. ASSUME NEW result \in Terminal, Finish(t, result) PROVE Fresh'
      <4>1. session'.status.action = t
        BY <2>1, <3>5 DEF Finish, Callback, Sessions
      <4>2. snapshot'.status \in {snapshot.status, session'.status}
        BY <2>1, <3>5 DEF Finish, Callback, Snapshots
      <4> QED
        BY <2>1, <2>2, <3>1, <3>2, <3>5, <4>1, <4>2
        DEF Finish, Callback, Fresh, Ownership, Owning, Refreshing, HasStarted, Places
    <3>6. CASE Panic(t)
      BY <3>1, <3>6 DEF Panic, Fresh, Accepts, HasStarted, Places
    <3>7. CASE Restore(t)
      <4>1. thread'[t] \in HasStarted /\ thread[t] \in HasStarted
        BY <3>1, <3>7 DEF Restore, Places, HasStarted
      <4>2. \A u \in Threads : u # t => thread'[u] = thread[u]
        BY <3>1, <3>7 DEF Restore, Places
      <4>3. guard' # 0 BY <2>1, <3>7 DEF Restore
      <4>4. thread'[t] \notin {"spawned", "unbuilt"} BY <4>1 DEF HasStarted
      <4> QED BY <3>7, <4>1, <4>2, <4>3, <4>4 DEF Restore, Fresh, Accepts
    <3>8. CASE Refresh(t) \/ ForceFailed(t)
      <4>1. session.status.action = t
        BY <3>8 DEF Refresh, ForceFailed, Fresh, HasStarted
      <4>2. ASSUME Refresh(t) PROVE snapshot'.status.action = t
        BY <4>1, <4>2 DEF Refresh, Copy
      <4>3. ASSUME ForceFailed(t) PROVE snapshot'.status.action = t
        BY <2>1, <4>3 DEF ForceFailed, Snapshots
      <4>4. snapshot'.status.action = t BY <3>8, <4>2, <4>3
      <4> QED
        BY <3>1, <3>2, <3>8, <4>1, <4>4
        DEF Refresh, ForceFailed, Fresh, Accepts, Refreshing, HasStarted, Places
    <3>9. CASE RestoreUnbuilt(t) \/ Reject(t)
      BY <3>9 DEF RestoreUnbuilt, Reject, Fresh
    <3>10. ~BuildFails(t) BY DEF BuildFails
    <3> QED
      BY <2>4, <3>3, <3>4, <3>5, <3>6, <3>7, <3>8, <3>9, <3>10
      DEF ActionThread, RunAction
  <2>5. CASE UNCHANGED vars BY <2>5 DEF vars, Fresh, Accepts
  <2> QED BY <2>3, <2>4, <2>5 DEF Next
<1> QED BY <1>1, <1>2, PTL DEF Spec

\* The status a poller sees is the latest action's, provided runtimes build
\* and the caller makes no call that the session, or the thread before it,
\* rejects: the snapshot is cleared before the thread exists, and what
\* update_snapshot copies is never older than that.
THEOREM StatusIsFresh ==
    ASSUME "runtime" \notin Faults, "reject" \notin Faults, "timeout" \notin Faults
    PROVE  Spec => []NoStaleStatus
<1>1. Fresh => NoStaleStatus BY DEF Fresh, NoStaleStatus
<1> QED BY <1>1, FreshAlways, PTL

\* With the session in the slot and no refresh under way the snapshot is its
\* copy, or its copy marked Canceling; and no thread is on one of the two ways
\* back that leave the snapshot as it is.
Faithful ==
    /\ slot /\ guard = 0 =>
         snapshot \in {Copy(session), [Copy(session) EXCEPT !.state = "Canceling"]}
    /\ \A t \in Threads : thread[t] \notin {"unbuilt", "panicked", "reviving"}

\* Nothing but a runtime that does not build, or a panic, leaves a session in the
\* slot that the snapshot does not show.
LEMMA FaithfulAlways ==
    ASSUME "runtime" \notin Faults, "panic" \notin Faults, "timeout" \notin Faults
    PROVE  Spec => [](OwnInv /\ Faithful)
<1>1. Init => OwnInv /\ Faithful
  BY OwnInit DEF Init, Faithful, Copy
<1>2. OwnInv /\ Faithful /\ [Next]_vars => OwnInv' /\ Faithful'
  <2> SUFFICES ASSUME OwnInv, Faithful, [Next]_vars PROVE Faithful'
    BY OwnStep
  <2>1. /\ snapshot \in Snapshots /\ session \in Sessions
        /\ thread \in [Threads -> Places] /\ Threads \subseteq Nat \ {0}
    BY SessionAssumption DEF OwnInv, Typed, TypeOK, Sessions, Threads
  <2>2. CASE Caller
    <3>1. ASSUME NEW c \in Calls, Take(c) PROVE Faithful'
      BY <3>1 DEF Take, Faithful
    <3>2. CASE Dispatch
      <4>1. ~slot' BY <3>2 DEF Dispatch, Dispatched, OwnInv, Ownership
      <4>2. \A t \in Threads :
              thread'[t] \in {thread[t], "spawned", "lost"}
        BY <2>1, <3>2 DEF Dispatch, Dispatched
      <4> QED BY <4>1, <4>2 DEF Faithful
    <3>3. CASE CancelInSlot BY <3>3 DEF CancelInSlot, Faithful
    <3>4. CASE CancelFindsEmpty BY <3>4 DEF CancelFindsEmpty, Faithful
    <3>5. CASE CancelDeliver
      <4>1. \A t \in Threads : thread'[t] \in {thread[t], "canceling"}
        BY <2>1, <3>5 DEF CancelDeliver
      <4> QED BY <3>5, <4>1 DEF CancelDeliver, Faithful
    <3>6. CASE CancelMark
      <4>1. Copy(session) \in Snapshots BY <2>1, CopyType
      <4>2. ASSUME slot, guard = 0
            PROVE  snapshot' = [Copy(session) EXCEPT !.state = "Canceling"]
        BY <2>1, <3>6, <4>1, <4>2 DEF CancelMark, Faithful, Snapshots
      <4> QED BY <3>6, <4>2 DEF CancelMark, Faithful
    <3>7. CASE Cleanup BY <3>7 DEF Cleanup, Faithful
    <3>8. ASSUME NEW r \in Rules, ExtendPathMappingRules(r) PROVE Faithful'
      <4>1. Copy(session') = Copy(session)
        BY <2>1, <3>8 DEF ExtendPathMappingRules, Copy, Sessions
      <4> QED BY <3>8, <4>1 DEF ExtendPathMappingRules, Faithful
    <3> QED
      BY <2>2, <3>1, <3>2, <3>3, <3>4, <3>5, <3>6, <3>7, <3>8 DEF Caller
  <2>3. ASSUME NEW t \in Threads, ActionThread(t) PROVE Faithful'
    <3>1. \A place \in Places : Goto(t, place) =>
            \A u \in Threads : thread'[u] \in {thread[u], place}
      BY <2>1 DEF Goto
    <3>2. thread[t] \in Owning => ~slot BY DEF OwnInv, Ownership
    <3>3. CASE Start(t) BY <3>1, <3>2, <3>3 DEF Start, Faithful, Owning, Places
    <3>4. CASE Reject(t) BY <3>1, <3>2, <3>4 DEF Reject, Faithful, Owning, Places
    <3>5. CASE Report(t) BY <3>2, <3>5 DEF Report, Callback, Faithful, Owning
    <3>6. ASSUME NEW result \in Terminal, Finish(t, result) PROVE Faithful'
      BY <3>1, <3>2, <3>6 DEF Finish, Callback, Faithful, Owning, Places
    <3>7. CASE Restore(t)
      <4>1. thread[t] = "returned" BY <3>7 DEF Restore, Faithful
      <4>2. \A u \in Threads : thread'[u] \in {thread[u], "restored"}
        BY <3>1, <3>7, <4>1 DEF Restore, Places
      <4> QED BY <2>1, <3>7, <4>2 DEF Restore, Faithful
    <3>8. CASE Refresh(t) BY <3>1, <3>8 DEF Refresh, Faithful, Places
    <3>9. ~RestoreUnbuilt(t) /\ ~ForceFailed(t) /\ ~BuildFails(t) /\ ~Panic(t)
      BY DEF RestoreUnbuilt, ForceFailed, BuildFails, Panic, Faithful
    <3> QED
      BY <2>3, <3>3, <3>4, <3>5, <3>6, <3>7, <3>8, <3>9
      DEF ActionThread, RunAction
  <2>4. CASE UNCHANGED vars BY <2>4 DEF vars, Faithful
  <2> QED BY <2>2, <2>3, <2>4 DEF Next
<1> QED BY <1>1, <1>2, PTL DEF Spec

\* At rest the snapshot is the session's, up to the mark of a cancel that the
\* end of the action overtook, provided runtimes build and actions do not
\* panic: update_snapshot follows every change of a session in the slot.
THEOREM SnapshotIsFaithful ==
    ASSUME "runtime" \notin Faults, "panic" \notin Faults, "timeout" \notin Faults
    PROVE  Spec => []SnapshotFaithful
<1>1. Faithful => SnapshotFaithful
  BY DEF Faithful, SnapshotFaithful, Quiescent
<1> QED BY <1>1, FaithfulAlways, PTL

----------------------------------------------------------------------------
(* The session implements ActionPromise.  Beside the invariants above this *)
(* takes what the snapshot can say at each place of the thread.            *)

\* The snapshot reports nothing of an action that has not started, at most that
\* it runs while it does, and nothing but its outcome when it is over; and
\* only a thread about to refresh the snapshot holds the guard.
Reported ==
    /\ guard # 0 => guard \in Threads /\ thread[guard] \in Refreshing
    /\ \A t \in Threads :
         /\ thread[t] = "spawned" => snapshot.status = NoStatus
         /\ thread[t] \in {"acting", "canceling"} =>
              /\ session.status = [action |-> t, state |-> "Running"]
              /\ snapshot.status \in {NoStatus, session.status}
         /\ thread[t] \in {"returned", "restored"} =>
              /\ session.status.action = t /\ session.status.state \in Terminal
              /\ \/ snapshot.status \in {NoStatus, [action |-> t, state |-> "Running"]}
                 \/ snapshot.status = session.status

\* The invariant the refinement rests on.
PromiseInv == OwnInv /\ Fresh /\ Faithful /\ Reported

\* At most one thread has the session or the guard, and with the session at rest
\* none has.
LEMMA OneAtWork ==
    ASSUME OwnInv
    PROVE  /\ snapshot \in Snapshots /\ session \in Sessions
           /\ thread \in [Threads -> Places] /\ Threads \subseteq Nat \ {0}
           /\ count \in Nat /\ call \in [Threads -> Calls]
           /\ \A t \in Threads : thread[t] \in Owning \cup Refreshing =>
                /\ caller.at # "took" /\ t = count
                /\ \A u \in Threads : u # t => thread[u] \notin Owning \cup Refreshing
           /\ slot /\ guard = 0 => \A t \in Threads : thread[t] \notin Owning \cup Refreshing
<1>1. /\ snapshot \in Snapshots /\ session \in Sessions
      /\ thread \in [Threads -> Places] /\ Threads \subseteq Nat \ {0}
      /\ count \in Nat /\ call \in [Threads -> Calls]
  BY SessionAssumption DEF OwnInv, Typed, TypeOK, Sessions, Threads
<1> QED BY <1>1 DEF OwnInv, Ownership

\* The methods of the Python side keep what is reported.
LEMMA ReportedCaller ==
    ASSUME PromiseInv, Caller PROVE Reported'
<1>0. /\ OwnInv /\ Fresh /\ Faithful /\ Reported BY DEF PromiseInv
<1>1. /\ snapshot \in Snapshots /\ session \in Sessions
      /\ thread \in [Threads -> Places] /\ Threads \subseteq Nat \ {0}
      /\ count \in Nat
      /\ \A t \in Threads : thread[t] \in Owning \cup Refreshing => caller.at # "took"
      /\ slot /\ guard = 0 => \A t \in Threads : thread[t] \notin Owning \cup Refreshing
  BY <1>0, OneAtWork
<1>2. ASSUME NEW c \in Calls, Take(c) PROVE Reported'
  BY <1>0, <1>2 DEF Take, Reported
<1>3. CASE Dispatch
  <2>1. count' \in Threads
    BY <1>0, <1>1, <1>3, SessionAssumption
    DEF Dispatch, OwnInv, Typed, Bounded, Threads, TypeOK
  <2>2. \A t \in Threads : thread[t] \notin Owning \cup Refreshing
    BY <1>1, <1>3 DEF Dispatch
  <2>3. /\ thread'[count'] \in {"spawned", "lost"}
        /\ \A t \in Threads : t # count' => thread'[t] = thread[t]
    BY <1>1, <1>3, <2>1 DEF Dispatch
  <2>4. snapshot'.status = NoStatus /\ guard' = guard
    BY <1>1, <1>3 DEF Dispatch, Dispatched, Snapshots
  <2>5. guard = 0 BY <1>0, <2>2 DEF Reported
  <2> QED BY <2>2, <2>3, <2>4, <2>5 DEF Reported, Owning, Refreshing
<1>4. CASE CancelInSlot \/ Cleanup
  <2>1. \A t \in Threads : thread[t] \notin Owning \cup Refreshing
    BY <1>1, <1>4 DEF CancelInSlot, Cleanup
  <2>2. thread' = thread /\ guard' = 0 BY <1>4 DEF CancelInSlot, Cleanup
  <2> QED BY <2>1, <2>2 DEF Reported, Owning, Refreshing
<1>5. CASE CancelFindsEmpty BY <1>0, <1>5 DEF CancelFindsEmpty, Reported
<1>6. CASE CancelDeliver
  <2>1. \A t \in Threads :
          \/ thread'[t] = thread[t]
          \/ thread[t] \in {"acting", "canceling"} /\ thread'[t] = "canceling"
    BY <1>1, <1>6 DEF CancelDeliver
  <2>2. UNCHANGED <<guard, session, snapshot>> BY <1>6 DEF CancelDeliver
  <2> QED BY <1>0, <2>1, <2>2 DEF Reported, Refreshing
<1>7. CASE CancelMark
  <2>1. snapshot'.status = snapshot.status BY <1>1, <1>7 DEF CancelMark, Snapshots
  <2>2. UNCHANGED <<guard, session, thread>> BY <1>7 DEF CancelMark
  <2> QED BY <1>0, <2>1, <2>2 DEF Reported
<1>8. ASSUME NEW r \in Rules, ExtendPathMappingRules(r) PROVE Reported'
  <2>1. session'.status = session.status
    BY <1>1, <1>8 DEF ExtendPathMappingRules, Sessions
  <2>2. UNCHANGED <<guard, snapshot, thread>> BY <1>8 DEF ExtendPathMappingRules
  <2> QED BY <1>0, <2>1, <2>2 DEF Reported
<1> QED BY <1>2, <1>3, <1>4, <1>5, <1>6, <1>7, <1>8 DEF Caller

\* What a step of a thread that keeps the session to itself does to the others.
LEMMA ReportedAlone ==
    ASSUME PromiseInv, NEW t \in Threads, thread[t] \in Owning \cup Refreshing,
           NEW place \in Places, Goto(t, place)
    PROVE  /\ thread'[t] = place /\ t = count /\ caller.at # "took"
           /\ \A u \in Threads : u # t =>
                thread'[u] = thread[u] /\ thread'[u] \notin Owning \cup Refreshing
BY OneAtWork DEF PromiseInv, Goto

\* So does every step of an action thread.
LEMMA ReportedActionThread ==
    ASSUME "runtime" \notin Faults, "panic" \notin Faults, "timeout" \notin Faults,
           PromiseInv, NEW t \in Threads, ActionThread(t)
    PROVE  Reported'
<1>0. OwnInv /\ Fresh /\ Faithful /\ Reported BY DEF PromiseInv
<1>1. /\ snapshot \in Snapshots /\ session \in Sessions
      /\ thread \in [Threads -> Places] /\ Threads \subseteq Nat \ {0}
  BY <1>0, OneAtWork
<1>2. ~BuildFails(t) /\ ~RestoreUnbuilt(t) /\ ~Reject(t) /\ ~Panic(t) /\ ~ForceFailed(t)
  BY <1>0 DEF BuildFails, RestoreUnbuilt, Reject, Panic, ForceFailed, Fresh, Faithful
<1>3. CASE Start(t)
  <2>1. session'.status = [action |-> t, state |-> "Running"]
    BY <1>1, <1>3 DEF Start, Started, Sessions
  <2>2. snapshot'.status = NoStatus /\ guard' = guard
    BY <1>0, <1>3 DEF Start, Reported
  <2>3. guard = 0
    BY <1>0, <1>3, OneAtWork DEF Start, Reported, Owning, Refreshing
  <2>4. /\ thread'[t] = "acting"
        /\ \A u \in Threads : u # t => thread'[u] \notin Owning \cup Refreshing
    BY <1>3, ReportedAlone DEF Start, Owning, Places
  <2> QED BY <2>1, <2>2, <2>3, <2>4 DEF Reported, Owning, Refreshing
<1>4. CASE Report(t)
  <2>1. snapshot'.status = session.status /\ UNCHANGED <<guard, session, thread>>
    BY <1>1, <1>4 DEF Report, Callback, Snapshots
  <2>2. \A u \in Threads : u # t => thread[u] \notin Owning \cup Refreshing
    BY <1>0, <1>4, OneAtWork DEF Report, Owning
  <2>3. thread[t] \in {"acting", "canceling"} BY <1>4 DEF Report
  <2> QED BY <1>0, <2>1, <2>2, <2>3 DEF Reported, Owning, Refreshing
<1>5. ASSUME NEW result \in Terminal, Finish(t, result) PROVE Reported'
  <2>1. session'.status = [action |-> t, state |-> result]
    BY <1>1, <1>5 DEF Finish, Sessions
  <2>2. /\ snapshot'.status \in {snapshot.status, session'.status} /\ guard' = guard
    BY <1>1, <1>5 DEF Finish, Callback, Snapshots
  <2>3. snapshot.status \in {NoStatus, [action |-> t, state |-> "Running"]}
    BY <1>0, <1>5 DEF Finish, Reported
  <2>4. guard = 0
    BY <1>0, <1>5, OneAtWork DEF Finish, Reported, Owning, Refreshing
  <2>5. /\ thread'[t] = "returned"
        /\ \A u \in Threads : u # t => thread'[u] \notin Owning \cup Refreshing
    BY <1>5, ReportedAlone DEF Finish, Owning, Places
  <2> QED BY <2>1, <2>2, <2>3, <2>4, <2>5 DEF Reported, Owning, Refreshing
<1>6. CASE Restore(t)
  <2>1. thread[t] = "returned" BY <1>0, <1>6 DEF Restore, Faithful
  <2>2. guard' = t /\ UNCHANGED <<session, snapshot>> BY <1>6 DEF Restore
  <2>3. /\ thread'[t] = "restored"
        /\ \A u \in Threads : u # t => thread'[u] \notin Owning \cup Refreshing
    BY <1>6, <2>1, ReportedAlone DEF Restore, Owning, Places
  <2> QED BY <1>0, <2>1, <2>2, <2>3 DEF Reported, Owning, Refreshing
<1>7. CASE Refresh(t)
  <2>1. guard' = 0 BY <1>7 DEF Refresh
  <2>2. /\ thread'[t] = "done"
        /\ \A u \in Threads : u # t => thread'[u] \notin Owning \cup Refreshing
    BY <1>7, ReportedAlone DEF Refresh, Refreshing, Places
  <2> QED BY <2>1, <2>2 DEF Reported, Owning, Refreshing
<1> QED BY <1>2, <1>3, <1>4, <1>5, <1>6, <1>7 DEF ActionThread, RunAction

\* Every step of the session is one of ActionPromise: a dispatch begins an
\* action, the callback makes progress or concludes it, and the refresh
\* concludes it or releases the session.
LEMMA StepKeepsPromise ==
    ASSUME "runtime" \notin Faults, "panic" \notin Faults, "timeout" \notin Faults,
           PromiseInv, PromiseInv', [Next]_vars
    PROVE  [Promise!Next]_(Promise!vars)
<1> DEFINE phase == IF guard = 0 /\ (slot \/ caller.at = "took")
                    THEN "available" ELSE "busy"
           outcome == IF snapshot.status.action \in {0, count} \/ caller.at = "took"
                      THEN snapshot.status.state ELSE "stale"
<1>0. /\ OwnInv /\ Fresh /\ Faithful /\ Reported /\ Fresh' /\ Ownership BY DEF PromiseInv, OwnInv
<1>1. /\ snapshot \in Snapshots /\ session \in Sessions
      /\ thread \in [Threads -> Places] /\ Threads \subseteq Nat \ {0}
  BY <1>0, OneAtWork
<1>2. outcome = snapshot.status.state /\ outcome' = snapshot'.status.state
  BY <1>0 DEF Fresh
<1>3. ASSUME UNCHANGED <<slot, guard, count>>, caller.at # "took", caller'.at # "took",
             snapshot'.status = snapshot.status
      PROVE  UNCHANGED Promise!vars
  BY <1>3 DEF Promise!vars
<1>4. CASE Caller
  <2>1. ASSUME NEW c \in Calls, Take(c) PROVE UNCHANGED Promise!vars
    <3>1. phase' = phase /\ count' = count /\ snapshot' = snapshot BY <2>1 DEF Take
    <3> QED BY <1>2, <3>1 DEF Promise!vars
  <2>2. CASE Dispatch
    <3>1. caller.at = "took" /\ ~slot /\ slot' = slot /\ guard' = guard /\ caller' = Idle
      BY <1>0, <2>2 DEF Dispatch, Ownership
    <3>2. guard = 0
      BY <1>0, <3>1, OneAtWork DEF Reported
    <3>3. phase = "available" /\ phase' = "busy" BY <3>1, <3>2 DEF Idle
    <3>4. snapshot'.status = NoStatus BY <1>1, <2>2 DEF Dispatch, Dispatched, Snapshots
    <3>5. outcome' = "None" /\ count' = count + 1 BY <1>2, <2>2, <3>4 DEF NoStatus, Dispatch
    <3> QED BY <3>3, <3>5 DEF Promise!Begin, Promise!Next
  <2>3. CASE CancelInSlot \/ Cleanup
    <3>1. session'.status = session.status /\ snapshot'.status = session'.status
      BY <1>1, <2>3 DEF CancelInSlot, Cleanup, CancelOwned, Copy, Sessions
    <3>2. snapshot.status = session.status
      BY <1>0, <2>3 DEF CancelInSlot, Cleanup, Faithful, Copy
    <3>3. UNCHANGED <<slot, guard, caller, count>> /\ caller.at # "took"
      BY <2>3 DEF CancelInSlot, Cleanup, Idle
    <3> QED BY <1>3, <3>1, <3>2, <3>3
  <2>4. CASE CancelFindsEmpty \/ CancelDeliver
    BY <1>3, <2>4 DEF CancelFindsEmpty, CancelDeliver, Idle
  <2>5. CASE CancelMark
    <3>1. snapshot'.status = snapshot.status BY <1>1, <2>5 DEF CancelMark, Snapshots
    <3> QED BY <1>3, <2>5, <3>1 DEF CancelMark, Idle
  <2>6. ASSUME NEW r \in Rules, ExtendPathMappingRules(r) PROVE UNCHANGED Promise!vars
    BY <1>3, <2>6 DEF ExtendPathMappingRules, Idle
  <2> QED BY <1>4, <2>1, <2>2, <2>3, <2>4, <2>5, <2>6 DEF Caller
<1>5. ASSUME NEW t \in Threads, ActionThread(t) PROVE [Promise!Next]_(Promise!vars)
  <2>1. ~BuildFails(t) /\ ~RestoreUnbuilt(t) /\ ~Reject(t) /\ ~Panic(t) /\ ~ForceFailed(t)
    BY <1>0 DEF BuildFails, RestoreUnbuilt, Reject, Panic, ForceFailed, Fresh, Faithful
  <2>2. thread[t] \in Owning \cup Refreshing => caller.at # "took" /\ (thread[t] \in Owning => ~slot)
    BY <1>0, OneAtWork DEF Ownership
  <2>3. CASE Start(t)
    BY <1>3, <2>2, <2>3 DEF Start, Owning
  <2>4. CASE Report(t)
    <3>1. snapshot'.status = session.status /\ UNCHANGED <<slot, guard, caller, count>>
          /\ thread[t] \in Owning
      BY <1>1, <2>4 DEF Report, Callback, Snapshots, Owning
    <3>2. session.status.state = "Running" /\ snapshot.status \in {NoStatus, session.status}
      <4>1. thread[t] \in {"acting", "canceling"} BY <2>4 DEF Report
      <4>2. /\ session.status = [action |-> t, state |-> "Running"]
            /\ snapshot.status \in {NoStatus, session.status}
        BY <1>0, <4>1 DEF Reported
      <4> QED BY <4>2
    <3>3. phase = "busy" /\ phase' = "busy" /\ count' = count BY <2>2, <3>1
    <3>4. CASE snapshot.status = session.status BY <1>3, <2>2, <3>1, <3>4
    <3>5. CASE snapshot.status = NoStatus
      <4>1. outcome = "None" /\ outcome' = "Running" BY <1>2, <3>1, <3>2, <3>5 DEF NoStatus
      <4> QED BY <3>3, <4>1 DEF Promise!Progress, Promise!Next
    <3> QED BY <3>2, <3>4, <3>5
  <2>5. ASSUME NEW result \in Terminal, Finish(t, result) PROVE [Promise!Next]_(Promise!vars)
    <3>1. session'.status = [action |-> t, state |-> result]
      BY <1>1, <2>5 DEF Finish, Sessions
    <3>2. /\ snapshot'.status \in {snapshot.status, session'.status}
          /\ UNCHANGED <<slot, guard, caller, count>> /\ thread[t] \in Owning
      BY <1>1, <2>5 DEF Finish, Callback, Snapshots, Owning
    <3>3. snapshot.status \in {NoStatus, [action |-> t, state |-> "Running"]}
      BY <1>0, <2>5 DEF Finish, Reported
    <3>4. CASE snapshot'.status = snapshot.status BY <1>3, <2>2, <3>2, <3>4
    <3>5. CASE snapshot'.status = session'.status
      <4>1. phase = "busy" /\ phase' = "busy" /\ count' = count BY <2>2, <3>2
      <4>2. outcome \in {"None", "Running"} /\ outcome' \in Terminal
        BY <1>2, <3>1, <3>3, <3>5 DEF NoStatus
      <4> QED BY <4>1, <4>2 DEF Promise!Conclude, Promise!Outcomes, Promise!Next, Terminal
    <3> QED BY <3>2, <3>4, <3>5
  <2>6. CASE Restore(t)
    <3>1. thread[t] \in Owning /\ guard = 0 /\ guard' = t /\ UNCHANGED <<caller, count, snapshot>>
      BY <2>6 DEF Restore, Owning
    <3>2. phase = "busy" /\ phase' = "busy" BY <1>1, <2>2, <3>1
    <3> QED BY <1>2, <3>1, <3>2 DEF Promise!vars
  <2>7. CASE Refresh(t)
    <3>1. thread[t] \in Refreshing /\ slot /\ slot' = slot /\ guard' = 0 /\ count' = count
          /\ snapshot'.status = session.status /\ guard = t
      BY <1>0, <2>7 DEF Refresh, Refreshing, Ownership, Copy
    <3>2. phase = "busy" /\ phase' = "available" BY <1>1, <3>1
    <3>3. session.status.state \in Terminal
          /\ \/ snapshot.status \in {NoStatus, [action |-> t, state |-> "Running"]}
             \/ snapshot.status = session.status
      BY <1>0, <2>7 DEF Refresh, Reported
    <3>4. CASE snapshot.status = session.status
      <4>1. outcome \in Terminal /\ outcome' = outcome BY <1>2, <3>1, <3>3, <3>4
      <4> QED BY <3>1, <3>2, <4>1 DEF Promise!Release, Promise!Outcomes, Promise!Next, Terminal
    <3>5. CASE snapshot.status # session.status
      <4>1. outcome \in {"None", "Running"} /\ outcome' \in Terminal
        BY <1>2, <3>1, <3>3, <3>5 DEF NoStatus
      <4> QED BY <3>1, <3>2, <4>1 DEF Promise!Conclude, Promise!Outcomes, Promise!Next, Terminal
    <3> QED BY <3>4, <3>5
  <2> QED BY <1>5, <2>1, <2>3, <2>4, <2>5, <2>6, <2>7 DEF ActionThread, RunAction
<1>6. CASE UNCHANGED vars BY <1>6 DEF vars, Promise!vars
<1> QED BY <1>4, <1>5, <1>6 DEF Next

\* The session keeps ActionPromise, but for the part that is about fairness,
\* provided runtimes build, nothing panics and no call is rejected: to a poller
\* actions run one at a time, each status only advances, and none is seen again.
\* A thread that cannot be spawned does not break it.
THEOREM KeepsPromiseAlways ==
    ASSUME "runtime" \notin Faults, "panic" \notin Faults, "timeout" \notin Faults,
           "reject" \notin Faults
    PROVE  Spec => Promise!Init /\ [][Promise!Next]_(Promise!vars)
<1>1. Init => Reported /\ Promise!Init
  BY DEF Init, Reported, Promise!Init, NoStatus, Idle
<1>2. PromiseInv /\ [Next]_vars => Reported'
  <2> SUFFICES ASSUME PromiseInv, [Next]_vars PROVE Reported' OBVIOUS
  <2>1. CASE UNCHANGED vars BY <2>1 DEF vars, PromiseInv, Reported
  <2> QED BY <2>1, ReportedCaller, ReportedActionThread DEF Next
<1>3. OwnInv /\ Fresh /\ Faithful /\ Reported <=> PromiseInv BY DEF PromiseInv
<1>4. PromiseInv /\ PromiseInv' /\ [Next]_vars => [Promise!Next]_(Promise!vars)
  BY StepKeepsPromise
<1> QED BY <1>1, <1>2, <1>3, <1>4, FreshAlways, FaithfulAlways, PTL DEF Spec

============================================================================
