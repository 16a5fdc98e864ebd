-------------------- MODULE RabbitConnectionFactoryProofs --------------------
(***************************************************************************)
(* Safety of the connection factory for any set of callers, from one         *)
(* inductive invariant: who holds the permit, and what that says about the   *)
(* connection.                                                               *)
(***************************************************************************)
EXTENDS RabbitConnectionFactory, TLAPS

\* The one permit is free, inside one call, or kept by Close.
LockInv ==
    /\ permits \in {0, 1}
    /\ permits = 1 \/ lockTaken => \A c \in Callers : ~InsideLock(c)
    /\ permits = 1 => ~lockTaken
    /\ MutualExclusion

\* The connection is null or the only one ever created; a call that has gone
\* past the second test inside the lock knows which.
ConnectionInv ==
    /\ connection = opened
    /\ opened \in {0, 1}
    /\ open \subseteq {1}
    /\ opened = 0 => open = {}
    /\ \A c \in Callers : pc[c] = "create" => opened = 0
    /\ \A c \in Callers : pc[c] = "release" => opened = 1
    /\ \A c \in Callers : pc[c] = "returned" => opened = 1 /\ result[c] = 1

IInv == TypeOK /\ LockInv /\ ConnectionInv /\ ClosedForGood

-----------------------------------------------------------------------------
\* The state a new factory is in satisfies the invariant.
LEMMA InitIInv == Init => IInv
<1> SUFFICES ASSUME Init PROVE IInv
  OBVIOUS
<1> USE DEF Init
<1>1. TypeOK
  BY DEF TypeOK, CallSteps, CloserSteps
<1>2. LockInv
  BY DEF LockInv, MutualExclusion, InsideLock
<1>3. ConnectionInv
  BY DEF ConnectionInv
<1>4. ClosedForGood
  BY DEF ClosedForGood
<1> QED
  BY <1>1, <1>2, <1>3, <1>4 DEF IInv

\* Every step of a call and of the shutdown preserves it.
LEMMA StepIInv == IInv /\ [Next]_vars => IInv'
<1> SUFFICES ASSUME IInv, [Next]_vars PROVE IInv'
  OBVIOUS
<1> USE DEF IInv, TypeOK, LockInv, ConnectionInv, ClosedForGood,
            MutualExclusion, InsideLock, CallSteps, CloserSteps
<1>1. ASSUME NEW c \in Callers, Call(c) PROVE IInv'
  BY <1>1 DEF Call, Return, Goto
<1>2. ASSUME NEW c \in Callers, Acquire(c) PROVE IInv'
  BY <1>2 DEF Acquire, Goto
<1>3. ASSUME NEW c \in Callers, Awake(c) PROVE IInv'
  BY <1>3 DEF Awake, Goto
<1>4. ASSUME NEW c \in Callers, Recheck(c) PROVE IInv'
  BY <1>4 DEF Recheck, Goto
<1>5. ASSUME NEW c \in Callers, Create(c) PROVE IInv'
  <2>1. ~lockTaken /\ permits = 0 /\ connection = 0 /\ opened = 0 /\ open = {}
    BY <1>5 DEF Create
  <2>2. TypeOK'
    <3>1. opened' \in Nat /\ connection' \in Nat
      BY <1>5, <2>1 DEF Create
    <3>2. open' \subseteq Nat \ {0}
      BY <1>5, <2>1 DEF Create
    <3>3. pc' \in [Callers -> CallSteps]
      BY <1>5 DEF Create, Goto
    <3> QED
      BY <1>5, <3>1, <3>2, <3>3 DEF Create
  <2>3. LockInv'
    BY <1>5 DEF Create, Goto
  <2>4. ConnectionInv'
    <3>1. CASE opened' = 1 /\ open' = {1} /\ connection' = 1 /\ pc' = [pc EXCEPT ![c] = "release"]
      BY <3>1, <1>5, <2>1 DEF Create
    <3>2. CASE UNCHANGED <<connection, opened, open>> /\ pc' = [pc EXCEPT ![c] = "releaseAndThrow"]
      BY <3>2, <1>5, <2>1 DEF Create
    <3> QED
      BY <3>1, <3>2, <1>5, <2>1 DEF Create, Goto
  <2>5. ClosedForGood'
    BY <1>5, <2>1 DEF Create, Goto
  <2> QED
    BY <2>2, <2>3, <2>4, <2>5
<1>6. ASSUME NEW c \in Callers, Release(c) PROVE IInv'
  BY <1>6 DEF Release, Return, Goto
<1>7. ASSUME Cancel PROVE IInv'
  BY <1>7 DEF Cancel
<1>8. ASSUME CloserStep PROVE IInv'
  <2>1. CASE WaitForLock
    <3>1. \/ permits = 1 /\ permits' = 0 /\ lockTaken'
          \/ permits = 0 /\ permits' = 0 /\ lockTaken' = lockTaken
      BY <2>1 DEF WaitForLock
    <3>2. TypeOK'
      <4>1. lockTaken' = TRUE \/ lockTaken' = lockTaken
        BY <2>1 DEF WaitForLock
      <4>2. lockTaken' \in BOOLEAN
        BY <4>1 
      <4>3. permits' \in Nat
        BY <3>1
      <4> QED
        BY <2>1, <4>2, <4>3 DEF WaitForLock
    <3>4. ConnectionInv' /\ ClosedForGood'
      BY <2>1 DEF WaitForLock
    <3>3. LockInv'
      BY <2>1, <3>1 DEF WaitForLock
    <3> QED
      BY <3>2, <3>3, <3>4
  <2>2. CASE CloseConnection
    BY <2>2 DEF CloseConnection
  <2>3. CASE DisposeLock
    BY <2>3 DEF DisposeLock
  <2>4. CASE DisposeConnection
    BY <2>4 DEF DisposeConnection
  <2> QED
    BY <1>8, <2>1, <2>2, <2>3, <2>4 DEF CloserStep
<1>9. CASE UNCHANGED vars
  BY <1>9 DEF vars
<1> QED
  BY <1>1, <1>2, <1>3, <1>4, <1>5, <1>6, <1>7, <1>8, <1>9 DEF Next, CallStep

\* The invariant holds in every state.
THEOREM Invariance == Spec => []IInv
  BY InitIInv, StepIInv, PTL DEF Spec

\* Variables keep their types.
THEOREM TypeCorrect == Spec => []TypeOK
  BY Invariance, PTL DEF IInv

\* GetConnectionAsync creates one connection for all its callers.
THEOREM OneConnectionForAll == Spec => []OneConnection
<1>1. IInv => OneConnection
  BY DEF IInv, ConnectionInv, OneConnection
<1> QED
  BY <1>1, Invariance, PTL

\* The semaphore keeps all but one call out of the code that creates it.
THEOREM Exclusion == Spec => []MutualExclusion
  BY Invariance, PTL DEF IInv, LockInv

\* A shutdown that got the lock leaves nothing open behind it.
THEOREM NothingLeftOpen == Spec => []ClosedForGood
  BY Invariance, PTL DEF IInv
=============================================================================
