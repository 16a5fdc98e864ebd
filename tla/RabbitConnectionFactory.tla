----------------------- MODULE RabbitConnectionFactory -----------------------
(***************************************************************************)
(* RabbitConnectionFactory: a lazily created connection that every caller of *)
(* GetConnectionAsync shares, guarded by a semaphore of one permit, and its  *)
(* shutdown as WorkerService.StopAsync runs it: Close, then Dispose.          *)
(*                                                                         *)
(* Each caller makes one call.  A connection is a number: 1 is the first one *)
(* CreateConnection returned, and so on.                                     *)
(***************************************************************************)
EXTENDS Naturals

CONSTANT Callers     \* calls of GetConnectionAsync

VARIABLES
    connection,      \* _connection, 0 for null
    opened,          \* how many connections were created
    open,            \* those that are open
    permits,         \* CurrentCount of _connectionLock
    cancelled,       \* _closeToken.IsCancellationRequested
    lockDisposed,    \* _connectionLock is disposed
    lockTaken,       \* what Close's Wait(10) returned, which the code ignores
    pc,              \* where each call is
    result,          \* the connection a call returned
    closer           \* where StopAsync is

vars == <<connection, opened, open, permits, cancelled, lockDisposed, lockTaken,
          pc, result, closer>>

CallSteps == {"idle", "acquire", "waiting", "recheck", "create", "release",
              "releaseAndThrow", "returned", "threw"}
CloserSteps == {"idle", "wait", "close", "disposeLock", "disposeConnection", "done"}

TypeOK ==
    /\ connection \in Nat
    /\ opened \in Nat
    /\ open \subseteq Nat \ {0}
    /\ permits \in Nat
    /\ cancelled \in BOOLEAN
    /\ lockDisposed \in BOOLEAN
    /\ lockTaken \in BOOLEAN
    /\ pc \in [Callers -> CallSteps]
    /\ result \in [Callers -> Nat]
    /\ closer \in CloserSteps

Init ==
    /\ connection = 0
    /\ opened = 0
    /\ open = {}
    /\ permits = 1
    /\ cancelled = FALSE
    /\ lockDisposed = FALSE
    /\ lockTaken = FALSE
    /\ pc = [c \in Callers |-> "idle"]
    /\ result = [c \in Callers |-> 0]
    /\ closer = "idle"

Goto(c, label) == pc' = [pc EXCEPT ![c] = label]

Return(c) ==
    /\ Goto(c, "returned")
    /\ result' = [result EXCEPT ![c] = connection]

\* The code between WaitAsync and Release.
InsideLock(c) == pc[c] \in {"recheck", "create", "release", "releaseAndThrow"}

-----------------------------------------------------------------------------
(* GetConnectionAsync                                                        *)

\* The first test, outside the lock: a connection that is there is returned.
Call(c) ==
    /\ pc[c] = "idle"
    /\ \/ connection # 0 /\ Return(c)
       \/ connection = 0 /\ Goto(c, "acquire") /\ UNCHANGED result
    /\ UNCHANGED <<connection, opened, open, permits, cancelled, lockDisposed,
                   lockTaken, closer>>

\* WaitAsync(_closeToken) throws on a disposed semaphore or a cancelled token,
\* takes the permit, or waits for it.
Acquire(c) ==
    /\ pc[c] = "acquire"
    /\ \/ /\ lockDisposed \/ cancelled
          /\ Goto(c, "threw")
          /\ UNCHANGED permits
       \/ /\ ~lockDisposed /\ ~cancelled
          /\ permits > 0
          /\ permits' = permits - 1
          /\ Goto(c, "recheck")
       \/ /\ ~lockDisposed /\ ~cancelled
          /\ permits = 0
          /\ Goto(c, "waiting")
          /\ UNCHANGED permits
    /\ UNCHANGED <<connection, opened, open, cancelled, lockDisposed, lockTaken,
                   result, closer>>

\* A waiting call gets the permit or is cancelled, whichever comes first.
Awake(c) ==
    /\ pc[c] = "waiting"
    /\ \/ /\ cancelled
          /\ Goto(c, "threw")
          /\ UNCHANGED permits
       \/ /\ permits > 0
          /\ permits' = permits - 1
          /\ Goto(c, "recheck")
    /\ UNCHANGED <<connection, opened, open, cancelled, lockDisposed, lockTaken,
                   result, closer>>

\* Mutant: there is no second test.
RecheckNothing(c) ==
    /\ pc[c] = "recheck"
    /\ Goto(c, "create")
    /\ UNCHANGED <<connection, opened, open, permits, cancelled, lockDisposed,
                   lockTaken, result, closer>>

\* The second test, inside the lock.
Recheck(c) ==
    /\ pc[c] = "recheck"
    /\ Goto(c, IF connection = 0 THEN "create" ELSE "release")
    /\ UNCHANGED <<connection, opened, open, permits, cancelled, lockDisposed,
                   lockTaken, result, closer>>

\* CreateConnection returns a connection, or throws.
Create(c) ==
    /\ pc[c] = "create"
    /\ \/ /\ opened' = opened + 1
          /\ open' = open \cup {opened + 1}
          /\ connection' = opened + 1
          /\ Goto(c, "release")
       \/ /\ Goto(c, "releaseAndThrow")
          /\ UNCHANGED <<connection, opened, open>>
    /\ UNCHANGED <<permits, cancelled, lockDisposed, lockTaken, result, closer>>

\* The finally block: Release throws on a disposed semaphore.
Release(c) ==
    /\ pc[c] \in {"release", "releaseAndThrow"}
    /\ permits' = IF lockDisposed THEN permits ELSE permits + 1
    /\ IF lockDisposed \/ pc[c] = "releaseAndThrow"
       THEN Goto(c, "threw") /\ UNCHANGED result
       ELSE Return(c)
    /\ UNCHANGED <<connection, opened, open, cancelled, lockDisposed, lockTaken, closer>>

-----------------------------------------------------------------------------
(* Close and Dispose                                                         *)

\* Mutant: the token is not cancelled.
CancelNothing ==
    /\ closer = "idle"
    /\ closer' = "wait"
    /\ UNCHANGED <<connection, opened, open, permits, cancelled, lockDisposed,
                   lockTaken, pc, result>>

Cancel ==
    /\ closer = "idle"
    /\ cancelled' = TRUE
    /\ closer' = "wait"
    /\ UNCHANGED <<connection, opened, open, permits, lockDisposed, lockTaken, pc, result>>

\* Mutant: the permit is taken whether or not it is there.
WaitForLockBlindly ==
    /\ closer = "wait"
    /\ permits' = permits - 1
    /\ lockTaken' = TRUE
    /\ closer' = "close"
    /\ UNCHANGED <<connection, opened, open, cancelled, lockDisposed, pc, result>>

\* Mutant: a Wait that timed out gives a permit back.
WaitForLockAndRelease ==
    /\ closer = "wait"
    /\ permits' = permits + 1
    /\ closer' = "close"
    /\ UNCHANGED <<connection, opened, open, cancelled, lockDisposed, lockTaken,
                   pc, result>>

\* Wait(10): the permit is taken for good, or is not there in time.
WaitForLock ==
    /\ closer = "wait"
    /\ \/ /\ permits > 0
          /\ permits' = permits - 1
          /\ lockTaken' = TRUE
       \/ /\ permits = 0
          /\ UNCHANGED <<permits, lockTaken>>
    /\ closer' = "close"
    /\ UNCHANGED <<connection, opened, open, cancelled, lockDisposed, pc, result>>

\* Mutant: the lock is released once the connection is closed.
CloseConnectionAndRelease ==
    /\ closer = "close"
    /\ open' = open \ {connection}
    /\ permits' = IF lockTaken THEN permits + 1 ELSE permits
    /\ closer' = "disposeLock"
    /\ UNCHANGED <<connection, opened, cancelled, lockDisposed, lockTaken, pc, result>>

\* _connection?.Close()
CloseConnection ==
    /\ closer = "close"
    /\ open' = open \ {connection}
    /\ closer' = "disposeLock"
    /\ UNCHANGED <<connection, opened, permits, cancelled, lockDisposed, lockTaken,
                   pc, result>>

DisposeLock ==
    /\ closer = "disposeLock"
    /\ lockDisposed' = TRUE
    /\ closer' = "disposeConnection"
    /\ UNCHANGED <<connection, opened, open, permits, cancelled, lockTaken, pc, result>>

\* _connection?.Dispose() closes a connection that is still open.
DisposeConnection ==
    /\ closer = "disposeConnection"
    /\ open' = open \ {connection}
    /\ closer' = "done"
    /\ UNCHANGED <<connection, opened, permits, cancelled, lockDisposed, lockTaken,
                   pc, result>>

-----------------------------------------------------------------------------
CallStep(c) ==
    \/ Acquire(c) \/ Awake(c) \/ Recheck(c) \/ Create(c) \/ Release(c)

CloserStep == WaitForLock \/ CloseConnection \/ DisposeLock \/ DisposeConnection

Next ==
    \/ \E c \in Callers : Call(c) \/ CallStep(c)
    \/ Cancel
    \/ CloserStep

Spec == Init /\ [][Next]_vars

\* A call that was made and a StopAsync that was started run on; neither has
\* to be started.
Fairness ==
    /\ \A c \in Callers : WF_vars(CallStep(c))
    /\ WF_vars(CloserStep)

FairSpec == Spec /\ Fairness

-----------------------------------------------------------------------------
(* Properties                                                                *)

\* However many callers race for it, one connection is ever created, and every
\* call that returns has returned it.
OneConnection ==
    /\ opened <= 1
    /\ \A c \in Callers : pc[c] = "returned" => result[c] = 1

\* Two calls are never between WaitAsync and Release at once.
MutualExclusion ==
    \A c, d \in Callers : InsideLock(c) /\ InsideLock(d) => c = d

\* A shutdown whose Wait(10) got the lock leaves no connection open, then or
\* later: only a Wait that timed out under a call inside the lock can.
ClosedForGood == closer = "done" /\ lockTaken => open = {}

\* Every call that was made ends, even though Close never gives the permit
\* back: the cancelled token wakes those that wait for it.
EveryCallEnds ==
    \A c \in Callers : pc[c] = "acquire" ~> pc[c] \in {"returned", "threw"}
=============================================================================
