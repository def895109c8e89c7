---------------------------- MODULE CoMutexProofs ----------------------------
(***************************************************************************)
(* Proofs about CoMutex, for any finite number of coroutines that call     *)
(* lock() and unlock().  With try_lock() mutual exclusion does not hold,   *)
(* and nothing here is about native threads (see CoMutex).                 *)
(***************************************************************************)
EXTENDS CoMutex, FiniteSetTheorems, SequenceTheorems, TLAPS

\* The clients sem_ counts.
Contenders == {c \in Clients : pc[c] \in {"slowLock", "wait", "woken", "cs"}}

\* Where a client is that owns the right to enter: it has the lock, has been
\* handed it, or is giving it away.
Granted == {"woken", "cs", "slowUnlock"}

Types ==
  /\ sem \in Int
  /\ notified \in BOOLEAN
  /\ cv \in Seq(Clients)
  /\ pc \in [Clients -> PcValues]

NoTryLock == \A c \in Clients : pc[c] # "tryFail"

SemCounts == sem = 1 - Cardinality(Contenders)

OneGrant == \A c, d \in Clients : pc[c] \in Granted /\ pc[d] \in Granted => c = d

\* notified_ is the right to enter, left for a client that has counted itself
\* into sem_ but is not on the queue yet.
FlagIsGrant ==
  notified => cv = <<>> /\ Contenders # {} /\ \A c \in Clients : pc[c] \notin Granted

SlowUnlockHasTaker == \A c \in Clients : pc[c] = "slowUnlock" => Contenders # {}

QueuedWait ==
  /\ \A i \in 1..Len(cv) : pc[cv[i]] = "wait"
  /\ \A i, j \in 1..Len(cv) : cv[i] = cv[j] => i = j

\* The inductive invariant.
IInv ==
  /\ Types /\ NoTryLock /\ SemCounts /\ OneGrant
  /\ FlagIsGrant /\ SlowUnlockHasTaker /\ QueuedWait

-----------------------------------------------------------------------------
\* sem_ is 1 exactly when nobody contends, and less otherwise.
LEMMA SemIsOne ==
  ASSUME Types, SemCounts
  PROVE  /\ IsFiniteSet(Contenders)
         /\ Cardinality(Contenders) \in Nat
         /\ sem = 1 <=> Contenders = {}
         /\ sem < 1 <=> Contenders # {}
<1>1. IsFiniteSet(Contenders)
  BY FS_Subset, CoMutexAssumption DEF Contenders
<1>2. Cardinality(Contenders) \in Nat
  BY <1>1, FS_CardinalityType
<1>3. Cardinality(Contenders) = 0 <=> Contenders = {}
  BY <1>1, FS_EmptySet
<1> QED
  BY <1>1, <1>2, <1>3 DEF SemCounts

\* lock(), fast path: the new contender gets the lock only if it is alone.
LEMMA LockPreserves ==
  ASSUME IInv, NEW c \in Clients, Lock(c)
  PROVE  IInv'
<1>1. pc \in [Clients -> PcValues] /\ sem \in Int /\ cv \in Seq(Clients) /\ notified \in BOOLEAN
  BY DEF IInv, Types
<1>2. Contenders' = Contenders \cup {c} /\ c \notin Contenders
  BY <1>1 DEF Lock, Goto, Contenders
<1>3. /\ IsFiniteSet(Contenders) /\ Cardinality(Contenders) \in Nat
      /\ sem = 1 <=> Contenders = {}
  BY SemIsOne DEF IInv
<1>4. Cardinality(Contenders') = Cardinality(Contenders) + 1
  BY <1>2, <1>3, FS_AddElement
<1>5. Types'
  BY <1>1 DEF Lock, Goto, Types, PcValues
<1>6. NoTryLock'
  BY <1>1 DEF Lock, Goto, IInv, NoTryLock
<1>7. SemCounts'
  BY <1>1, <1>3, <1>4 DEF Lock, IInv, SemCounts
<1>8. ASSUME sem' = 0
      PROVE  ~notified /\ \A d \in Clients : pc[d] \notin Granted
  <2>1. Contenders = {}
    BY <1>1, <1>3, <1>8 DEF Lock
  <2> QED
    BY <2>1 DEF IInv, FlagIsGrant, SlowUnlockHasTaker, Contenders, Granted
<1>9. OneGrant'
  BY <1>1, <1>8 DEF Lock, Goto, IInv, OneGrant, Granted
<1>10. FlagIsGrant'
  BY <1>1, <1>2, <1>8 DEF Lock, Goto, IInv, FlagIsGrant, Granted
<1>11. SlowUnlockHasTaker'
  BY <1>2 DEF SlowUnlockHasTaker
<1>12. QueuedWait'
  BY <1>1 DEF Lock, Goto, IInv, QueuedWait
<1> QED
  BY <1>5, <1>6, <1>7, <1>9, <1>10, <1>11, <1>12 DEF IInv

\* lock() under lock_: the flag hands over the one grant, else the caller queues.
LEMMA LockSlowPreserves ==
  ASSUME IInv, NEW c \in Clients, LockSlow(c)
  PROVE  IInv'
<1>1. pc \in [Clients -> PcValues] /\ sem \in Int /\ cv \in Seq(Clients) /\ notified \in BOOLEAN
  BY DEF IInv, Types
<1>2. Contenders' = Contenders /\ c \in Contenders
  BY <1>1 DEF LockSlow, Goto, Contenders
<1>3. Types'
  <2>1. notified' \in BOOLEAN
    BY <1>1 DEF LockSlow
  <2>2. sem' \in Int /\ cv' \in Seq(Clients) /\ pc' \in [Clients -> PcValues]
    BY <1>1 DEF LockSlow, Goto, PcValues
  <2> QED
    BY <2>1, <2>2 DEF Types
<1>4. NoTryLock'
  BY <1>1 DEF LockSlow, Goto, IInv, NoTryLock
<1>5. SemCounts'
  BY <1>2 DEF LockSlow, IInv, SemCounts
<1>6. OneGrant'
  BY <1>1 DEF LockSlow, Goto, IInv, OneGrant, FlagIsGrant, Granted
<1>7. FlagIsGrant'
  BY <1>1, <1>2 DEF LockSlow, Goto, IInv, FlagIsGrant, Granted
<1>8. SlowUnlockHasTaker'
  BY <1>2 DEF SlowUnlockHasTaker
<1>9. QueuedWait'
  <2>1. CASE notified
    BY <2>1, <1>1 DEF LockSlow, Goto, IInv, QueuedWait
  <2>2. CASE ~notified
    <3>1. /\ cv' = Append(cv, c) /\ Len(cv') = Len(cv) + 1 /\ Len(cv) \in Nat
          /\ cv'[Len(cv) + 1] = c
          /\ \A i \in 1..Len(cv) : cv'[i] = cv[i] /\ cv[i] \in Clients /\ pc[cv[i]] = "wait"
      BY <2>2, <1>1 DEF LockSlow, IInv, QueuedWait
    <3>2. pc' = [pc EXCEPT ![c] = "wait"] /\ pc[c] = "slowLock"
      BY <2>2 DEF LockSlow, Goto
    <3>3. \A i \in 1..Len(cv) : cv[i] # c
      BY <3>1, <3>2
    <3>4. \A i \in 1..Len(cv') : pc'[cv'[i]] = "wait"
      BY <3>1, <3>2, <3>3, <1>1
    <3>5. \A i, j \in 1..Len(cv') : cv'[i] = cv'[j] => i = j
      BY <3>1, <3>3 DEF IInv, QueuedWait
    <3> QED
      BY <3>4, <3>5 DEF QueuedWait
  <2> QED
    BY <2>1, <2>2
<1> QED
  BY <1>3, <1>4, <1>5, <1>6, <1>7, <1>8, <1>9 DEF IInv

LEMMA ResumePreserves ==
  ASSUME IInv, NEW c \in Clients, Resume(c)
  PROVE  IInv'
<1>1. pc \in [Clients -> PcValues] /\ cv \in Seq(Clients)
  BY DEF IInv, Types
<1>2. Contenders' = Contenders
  BY <1>1 DEF Resume, Goto, Contenders
<1>3. Types' /\ NoTryLock' /\ SemCounts' /\ OneGrant'
  BY <1>1, <1>2 DEF Resume, Goto, IInv, Types, PcValues, NoTryLock, SemCounts, OneGrant, Granted
<1>4. FlagIsGrant' /\ SlowUnlockHasTaker'
  BY <1>1, <1>2 DEF Resume, Goto, IInv, FlagIsGrant, SlowUnlockHasTaker, Granted
<1>5. QueuedWait'
  BY <1>1 DEF Resume, Goto, IInv, QueuedWait
<1> QED
  BY <1>3, <1>4, <1>5 DEF IInv

\* unlock(), fast path: it keeps the grant exactly when somebody is left to take it.
LEMMA UnlockPreserves ==
  ASSUME IInv, NEW c \in Clients, Unlock(c)
  PROVE  IInv'
<1>1. pc \in [Clients -> PcValues] /\ sem \in Int /\ cv \in Seq(Clients) /\ notified \in BOOLEAN
  BY DEF IInv, Types
<1>2. Contenders' = Contenders \ {c} /\ c \in Contenders
  BY <1>1 DEF Unlock, Goto, Contenders
<1>3. IsFiniteSet(Contenders) /\ Cardinality(Contenders) \in Nat
  BY SemIsOne DEF IInv
<1>4. Cardinality(Contenders') = Cardinality(Contenders) - 1 /\ IsFiniteSet(Contenders')
  BY <1>2, <1>3, FS_RemoveElement
<1>5. Types'
  BY <1>1 DEF Unlock, Goto, Types, PcValues
<1>6. NoTryLock'
  BY <1>1 DEF Unlock, Goto, IInv, NoTryLock
<1>7. SemCounts'
  BY <1>1, <1>3, <1>4 DEF Unlock, IInv, SemCounts
<1>8. sem' = 1 <=> Contenders' = {}
  BY <1>3, <1>4, <1>7, FS_EmptySet DEF SemCounts
<1>9. OneGrant' /\ ~notified
  BY <1>1 DEF Unlock, Goto, IInv, OneGrant, FlagIsGrant, Granted
<1>10. FlagIsGrant'
  BY <1>9 DEF Unlock, FlagIsGrant
<1>11. SlowUnlockHasTaker'
  BY <1>1, <1>8 DEF Unlock, Goto, IInv, OneGrant, SlowUnlockHasTaker, Granted
<1>12. QueuedWait'
  BY <1>1 DEF Unlock, Goto, IInv, QueuedWait
<1> QED
  BY <1>5, <1>6, <1>7, <1>9, <1>10, <1>11, <1>12 DEF IInv

\* unlock() under lock_: the grant goes to the head of the queue or into the flag.
LEMMA UnlockSlowPreserves ==
  ASSUME IInv, NEW c \in Clients, UnlockSlow(c)
  PROVE  IInv'
<1>1. pc \in [Clients -> PcValues] /\ sem \in Int /\ cv \in Seq(Clients) /\ notified \in BOOLEAN
  BY DEF IInv, Types
<1>2. /\ ~notified /\ Contenders # {}
      /\ \A d \in Clients : pc[d] \in Granted => d = c
  BY DEF UnlockSlow, IInv, OneGrant, FlagIsGrant, SlowUnlockHasTaker, Granted
<1>3. CASE cv = <<>>
  <2>1. pc' = [pc EXCEPT ![c] = "idle"] /\ notified' = TRUE /\ UNCHANGED <<cv, sem>>
    BY <1>3 DEF UnlockSlow, Goto
  <2>2. Contenders' = Contenders
    BY <2>1, <1>1 DEF UnlockSlow, Contenders
  <2> QED
    BY <2>1, <2>2, <1>1, <1>2, <1>3
    DEF IInv, Types, PcValues, NoTryLock, SemCounts, OneGrant, FlagIsGrant,
        SlowUnlockHasTaker, QueuedWait, Granted
<1>4. CASE cv # <<>>
  <2> DEFINE h == Head(cv)
  <2>1. /\ pc' = [pc EXCEPT ![c] = "idle", ![h] = "woken"]
        /\ cv' = Tail(cv) /\ UNCHANGED <<notified, sem>>
    BY <1>4 DEF UnlockSlow
  <2>2. /\ h \in Clients /\ h = cv[1] /\ 1 \in 1..Len(cv) /\ Len(cv) \in Nat
        /\ cv' \in Seq(Clients) /\ Len(cv') = Len(cv) - 1
        /\ \A i \in 1..Len(cv') : cv'[i] = cv[i + 1] /\ i + 1 \in 1..Len(cv)
    BY <2>1, <1>1, <1>4
  <2>3. pc[h] = "wait" /\ h # c
    BY <2>2 DEF UnlockSlow, IInv, QueuedWait
  <2> HIDE DEF h
  <2>4. Contenders' = Contenders
    BY <2>1, <2>2, <2>3, <1>1 DEF UnlockSlow, Contenders
  <2>5. Types'
    BY <2>1, <2>2, <1>1 DEF Types, PcValues
  <2>6. NoTryLock' /\ SemCounts'
    BY <2>1, <2>2, <2>4, <1>1 DEF IInv, NoTryLock, SemCounts
  <2>7. OneGrant'
    BY <2>1, <2>2, <1>1, <1>2 DEF OneGrant, Granted
  <2>8. FlagIsGrant' /\ SlowUnlockHasTaker'
    BY <2>1, <2>4, <1>2 DEF FlagIsGrant, SlowUnlockHasTaker
  <2>9. QueuedWait'
    <3>1. \A i, j \in 1..Len(cv') : cv'[i] = cv'[j] => i = j
      BY <2>2 DEF IInv, QueuedWait
    <3>2. ASSUME NEW i \in 1..Len(cv')
          PROVE  pc'[cv'[i]] = "wait"
      <4>1. cv'[i] = cv[i + 1] /\ i + 1 \in 1..Len(cv) /\ i + 1 # 1
        BY <2>2
      <4>2. cv[i + 1] # h /\ pc[cv[i + 1]] = "wait" /\ cv[i + 1] \in Clients
        BY <4>1, <2>2, <1>1 DEF IInv, QueuedWait
      <4>3. cv[i + 1] # c
        BY <4>2 DEF UnlockSlow
      <4> QED
        BY <4>1, <4>2, <4>3, <2>1, <1>1
    <3> QED
      BY <3>1, <3>2 DEF QueuedWait
  <2> QED
    BY <2>5, <2>6, <2>7, <2>8, <2>9 DEF IInv
<1> QED
  BY <1>3, <1>4

-----------------------------------------------------------------------------
LEMMA IInvInit == Init => IInv
<1> SUFFICES ASSUME Init PROVE IInv
  OBVIOUS
<1>1. Contenders = {}
  BY DEF Init, Contenders
<1>2. SemCounts
  BY <1>1, FS_EmptySet DEF Init, SemCounts
<1>3. Types
  <2>1. notified \in BOOLEAN
    BY DEF Init
  <2>2. sem \in Int /\ cv \in Seq(Clients) /\ pc \in [Clients -> PcValues]
    BY DEF Init, PcValues
  <2> QED
    BY <2>1, <2>2 DEF Types
<1>4. NoTryLock /\ OneGrant /\ FlagIsGrant /\ SlowUnlockHasTaker /\ QueuedWait
  BY DEF Init, NoTryLock, OneGrant, FlagIsGrant, SlowUnlockHasTaker, QueuedWait, Granted
<1> QED
  BY <1>2, <1>3, <1>4 DEF IInv

LEMMA IInvNext ==
  ASSUME IInv, [Next]_vars
  PROVE  IInv'
<1>1. CASE UNCHANGED vars
  BY <1>1 DEF vars, IInv, Types, NoTryLock, SemCounts, OneGrant, FlagIsGrant,
              SlowUnlockHasTaker, QueuedWait, Contenders
<1> QED
  BY <1>1, LockPreserves, LockSlowPreserves, ResumePreserves, UnlockPreserves,
     UnlockSlowPreserves DEF Next, LockCode

\* The inductive invariant holds throughout.
THEOREM IInvHolds ==
  Spec => []IInv
<1>1. Init => IInv
  BY IInvInit
<1>2. IInv /\ [Next]_vars => IInv'
  BY IInvNext
<1> QED
  BY <1>1, <1>2, PTL DEF Spec

\* lock() and unlock() keep the variables of CoMutex in their ranges; sem_ never
\* leaves the values that so many clients can explain.
THEOREM TypeCorrect ==
  Spec => []TypeOK
<1>1. IInv => TypeOK
  <2> SUFFICES ASSUME IInv PROVE TypeOK
    OBVIOUS
  <2>1. Types /\ SemCounts /\ Cardinality(Contenders) \in Nat
    BY SemIsOne DEF IInv
  <2>2. Cardinality(Contenders) <= Cardinality(Clients) /\ Cardinality(Clients) \in Nat
    BY FS_Subset, FS_CardinalityType, CoMutexAssumption DEF Contenders
  <2>3. sem \in (1 - Cardinality(Clients))..1
    BY <2>1, <2>2 DEF SemCounts
  <2> QED
    BY <2>1, <2>3 DEF Types, TypeOK
<1> QED
  BY <1>1, IInvHolds, PTL

\* When only coroutines use the lock, and none calls try_lock(), two of them never
\* both hold it, however many they are.
THEOREM MutualExclusionHolds ==
  Spec => []MutualExclusion
<1>1. IInv => MutualExclusion
  BY DEF IInv, OneGrant, Granted, MutualExclusion
<1> QED
  BY <1>1, IInvHolds, PTL

\* is_lock() answers TRUE exactly while somebody has, awaits or is given the lock.
THEOREM IsLockTruthfulHolds ==
  Spec => []IsLockTruthful
<1>1. IInv => IsLockTruthful
  <2> SUFFICES ASSUME IInv PROVE IsLockTruthful
    OBVIOUS
  <2>1. sem < 1 <=> Contenders # {}
    BY SemIsOne DEF IInv
  <2>2. Contenders # {} <=> \E c \in Clients : pc[c] \notin {"idle", "slowUnlock", "tryFail"}
    BY DEF IInv, Types, PcValues, Contenders
  <2> QED
    BY <2>1, <2>2 DEF IsLockTruthful, IsLock
<1> QED
  BY <1>1, IInvHolds, PTL

-----------------------------------------------------------------------------
\* For coroutines that call lock() and unlock() CoMutex is a Mutex: every step is one
\* of its steps or none.
THEOREM ImplementsMutex ==
  Spec => M!Spec
<1> DEFINE ph == [c \in Clients |->
              CASE pc[c] = "cs" -> "holding"
                [] pc[c] \in {"slowLock", "wait", "woken"} -> "asking"
                [] OTHER -> "out"]
<1>1. Init => M!Init
  BY DEF Init, M!Init
<1>2. ASSUME IInv, [Next]_vars
      PROVE  [M!Next]_ph
  <2>1. CASE UNCHANGED vars
    BY <2>1 DEF vars
  <2>2. ASSUME NEW c \in Clients, Lock(c)
        PROVE  M!Next
    <3>1. CASE sem' = 0
      <4>1. \A d \in Clients : pc[d] # "cs"
        <5>1. Contenders = {}
          BY <1>2, <2>2, <3>1, SemIsOne DEF Lock, IInv, Types
        <5> QED
          BY <5>1 DEF Contenders
      <4>2. M!AskAndAcquire(c)
        BY <1>2, <2>2, <3>1, <4>1 DEF Lock, Goto, M!AskAndAcquire, M!Free, IInv, Types
      <4> QED
        BY <4>2 DEF M!Next
    <3>2. CASE sem' # 0
      <4>1. M!Ask(c)
        BY <1>2, <2>2, <3>2 DEF Lock, Goto, M!Ask, IInv, Types
      <4> QED
        BY <4>1 DEF M!Next
    <3> QED
      BY <3>1, <3>2
  <2>3. ASSUME NEW c \in Clients, LockSlow(c)
        PROVE  [M!Next]_ph
    <3>1. CASE notified
      <4>1. M!Acquire(c)
        BY <1>2, <2>3, <3>1 DEF LockSlow, Goto, M!Acquire, M!Free, IInv, Types, FlagIsGrant, Granted
      <4> QED
        BY <4>1 DEF M!Next
    <3>2. CASE ~notified
      BY <1>2, <2>3, <3>2 DEF LockSlow, Goto, IInv, Types
    <3> QED
      BY <3>1, <3>2
  <2>4. ASSUME NEW c \in Clients, Resume(c)
        PROVE  M!Next
    <3>1. M!Acquire(c)
      BY <1>2, <2>4 DEF Resume, Goto, M!Acquire, M!Free, IInv, Types, OneGrant, Granted
    <3> QED
      BY <3>1 DEF M!Next
  <2>5. ASSUME NEW c \in Clients, Unlock(c)
        PROVE  M!Next
    <3>1. M!Release(c)
      BY <1>2, <2>5 DEF Unlock, Goto, M!Release, IInv, Types
    <3> QED
      BY <3>1 DEF M!Next
  <2>6. ASSUME NEW c \in Clients, UnlockSlow(c)
        PROVE  UNCHANGED ph
    <3>1. cv # <<>> => Head(cv) \in Clients /\ pc[Head(cv)] = "wait"
      BY <1>2 DEF IInv, Types, QueuedWait
    <3> QED
      BY <1>2, <2>6, <3>1 DEF UnlockSlow, Goto, IInv, Types
  <2> QED
    BY <1>2, <2>1, <2>2, <2>3, <2>4, <2>5, <2>6 DEF Next, LockCode
<1> QED
  BY <1>1, <1>2, IInvHolds, PTL DEF Spec, M!Spec
=============================================================================
