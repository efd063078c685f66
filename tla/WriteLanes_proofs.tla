-------------------------- MODULE WriteLanes_proofs --------------------------
(***************************************************************************)
(* Proofs about WriteLanes, for every set of operations and lanes.  The     *)
(* invariants the runs check become inductive with one more: while a drain  *)
(* is at index `scan`, everything before it is blocked and not global.      *)
(***************************************************************************)
EXTENDS WriteLanes, SequenceFacts, TLAPS

PassedOver ==
  scan # 0 =>
    \A j \in 1..Len(waiters) :
      j < scan => ~CanStart(waiters[j]) /\ ~Global(waiters[j])

IInv == /\ TypeOK
        /\ LanesExclusive
        /\ NobodyForgotten
        /\ PassedOver

\* A waiter stays a member of Operations.
LEMMA WaitersAreOperations ==
  ASSUME TypeOK, NEW j \in 1..Len(waiters)
  PROVE  waiters[j] \in Operations /\ waiters[j] \in ToSet(waiters)
BY DEF TypeOK, ToSet

\* Two operations conflict whichever is named first.
LEMMA ConflictSymmetric ==
  ASSUME NEW o, NEW p, Conflict(o, p)
  PROVE  Conflict(p, o)
BY DEF Conflict

LEMMA InitIInv == Init => IInv
<1> SUFFICES ASSUME Init PROVE IInv
  OBVIOUS
<1>1. Len(waiters) = 0 /\ waiters \in Seq(Operations) /\ ToSet(waiters) = {}
  BY DEF Init, ToSet
<1>2. IsInjective(waiters)
  BY <1>1 DEF Init, IsInjective
<1>3. TypeOK
  BY <1>1, <1>2 DEF Init, TypeOK
<1> QED
  BY <1>1, <1>3 DEF Init, IInv, LanesExclusive, NobodyForgotten, PassedOver

------------------------------------------------------------------------------
(* One lemma per action. *)

LEMMA CallStep ==
  ASSUME IInv, NEW o \in Operations, Call(o)
  PROVE  IInv'
<1> USE DEF Call, IInv
<1>1. o \notin ToSet(waiters) /\ o \notin active
  BY DEF Idle, Waiting
<1>2. /\ waiters' \in Seq(Operations)
      /\ IsInjective(waiters')
      /\ ToSet(waiters') = ToSet(waiters) \cup {o}
  BY <1>1, AppendNewElement DEF TypeOK
<1>3. TypeOK'
  BY <1>1, <1>2 DEF TypeOK
<1>4. LanesExclusive'
  BY DEF LanesExclusive, Conflict, Global
<1>5. NobodyForgotten' /\ PassedOver'
  <2>1. scan' = 1 /\ Len(waiters') \in Nat
    BY <1>2
  <2> QED
    BY <2>1 DEF NobodyForgotten, PassedOver
<1> QED
  BY <1>3, <1>4, <1>5

LEMMA CallInsideStep ==
  ASSUME IInv, NEW o \in Operations, NEW p \in Operations, CallInside(o, p)
  PROVE  IInv'
<1> USE DEF CallInside, IInv
<1>1. TypeOK'
  BY DEF TypeOK
<1> QED
  BY <1>1 DEF LanesExclusive, NobodyForgotten, PassedOver, CanStart, Conflict, Global

LEMMA ReturnInsideStep ==
  ASSUME IInv, NEW o \in Operations, ReturnInside(o)
  PROVE  IInv'
<1> USE DEF ReturnInside, IInv
<1>1. TypeOK'
  BY DEF TypeOK
<1> QED
  BY <1>1 DEF LanesExclusive, NobodyForgotten, PassedOver, CanStart, Conflict, Global

LEMMA ReleaseStep ==
  ASSUME IInv, NEW o \in Operations, Release(o)
  PROVE  IInv'
<1> USE DEF Release, IInv
<1>1. TypeOK'
  BY DEF TypeOK
<1>2. LanesExclusive'
  BY DEF LanesExclusive, Conflict, Global
<1>3. NobodyForgotten' /\ PassedOver'
  <2>1. scan' = 1 /\ Len(waiters') \in Nat
    BY <1>1 DEF TypeOK
  <2> QED
    BY <2>1 DEF NobodyForgotten, PassedOver
<1> QED
  BY <1>1, <1>2, <1>3

\* What a grant does to the queue.
LEMMA GrantPlaces ==
  ASSUME IInv, DrainGrant
  PROVE  /\ waiters' \in Seq(Operations)
         /\ IsInjective(waiters')
         /\ ToSet(waiters') = ToSet(waiters) \ {waiters[scan]}
         /\ Len(waiters') = Len(waiters) - 1
         /\ \A j \in 1..(Len(waiters) - 1) :
              waiters'[j] = IF j < scan THEN waiters[j] ELSE waiters[j + 1]
<1>1. /\ waiters \in Seq(Operations) /\ scan \in 1..Len(waiters) /\ IsInjective(waiters)
      /\ waiters' = RemoveAt(waiters, scan)
  BY DEF IInv, TypeOK, DrainGrant
<1>2. IsInjective(waiters') /\ ToSet(waiters') = ToSet(waiters) \ {waiters[scan]}
  BY <1>1, RemoveAtInjective
<1>3. /\ waiters' \in Seq(Operations)
      /\ Len(waiters') = Len(waiters) - 1
      /\ \A j \in 1..(Len(waiters) - 1) :
           waiters'[j] = IF j < scan THEN waiters[j] ELSE waiters[j + 1]
  BY <1>1, RemoveAtPlaces
<1> QED
  BY <1>2, <1>3

LEMMA DrainGrantStep ==
  ASSUME IInv, DrainGrant
  PROVE  IInv'
<1> DEFINE w == waiters[scan]
<1>0. /\ TypeOK /\ LanesExclusive /\ PassedOver
      /\ scan \in 1..Len(waiters) /\ CanStart(w)
      /\ active' = active \cup {w} /\ scan' = scan /\ owner' = owner
  BY DEF IInv, DrainGrant
<1>1. w \in Operations /\ w \in ToSet(waiters)
  BY <1>0, WaitersAreOperations
<1> HIDE DEF w
<1>2. TypeOK'
  BY <1>0, <1>1, GrantPlaces DEF TypeOK, w
<1>3. LanesExclusive'
  <2>1. SUFFICES ASSUME NEW o \in active', NEW p \in active', o # p
                 PROVE  ~Conflict(o, p)
    BY DEF LanesExclusive, Conflict, Global
  <2>2. CASE o = w
    BY <2>1, <2>2, <1>0 DEF CanStart
  <2>3. CASE p = w
    BY <2>1, <2>3, <1>0, ConflictSymmetric DEF CanStart
  <2>4. CASE o # w /\ p # w
    BY <2>1, <2>4, <1>0 DEF LanesExclusive
  <2> QED
    BY <2>2, <2>3, <2>4
<1>4. NobodyForgotten'
  BY <1>0 DEF NobodyForgotten, TypeOK
<1>5. PassedOver'
  <2>1. SUFFICES ASSUME NEW j \in 1..(Len(waiters) - 1), j < scan
                 PROVE  ~(\A p \in active' : ~Conflict(waiters'[j], p)) /\ ~Global(waiters'[j])
    BY <1>0, GrantPlaces DEF PassedOver, CanStart, Conflict, Global
  <2>2. j \in 1..Len(waiters) /\ waiters'[j] = waiters[j]
    BY <2>1, <1>0, GrantPlaces DEF TypeOK
  <2>3. ~CanStart(waiters[j]) /\ ~Global(waiters[j])
    BY <2>1, <2>2, <1>0 DEF PassedOver
  <2> QED
    BY <2>2, <2>3, <1>0 DEF CanStart, Conflict, Global
<1> QED
  BY <1>2, <1>3, <1>4, <1>5 DEF IInv

LEMMA DrainSkipStep ==
  ASSUME IInv, DrainSkip
  PROVE  IInv'
<1> USE DEF DrainSkip, IInv
<1>1. TypeOK'
  BY DEF TypeOK
<1>2. LanesExclusive'
  BY DEF LanesExclusive, Conflict, Global
<1>3. NobodyForgotten'
  BY DEF NobodyForgotten, TypeOK
<1>4. PassedOver'
  <2>1. SUFFICES ASSUME NEW j \in 1..Len(waiters), j < scan + 1
                 PROVE  ~CanStart(waiters[j]) /\ ~Global(waiters[j])
    BY DEF PassedOver, CanStart, Conflict, Global
  <2>2. j < scan \/ j = scan
    BY <2>1 DEF TypeOK
  <2> QED
    BY <2>1, <2>2 DEF PassedOver
<1> QED
  BY <1>1, <1>2, <1>3, <1>4

LEMMA DrainEndStep ==
  ASSUME IInv, DrainEnd
  PROVE  IInv'
<1> USE DEF DrainEnd, IInv
<1>1. TypeOK'
  BY DEF TypeOK
<1>2. LanesExclusive' /\ PassedOver'
  BY DEF LanesExclusive, PassedOver, Conflict, Global
<1>3. NobodyForgotten'
  <2>1. SUFFICES ASSUME NEW j \in 1..Len(waiters), CanStart(waiters[j])
                 PROVE  \E i \in 1..(j - 1) : Global(waiters[i])
    BY DEF NobodyForgotten, CanStart, Conflict, Global
  <2>2. j >= scan /\ scan \in Nat /\ scan # 0
    BY <2>1 DEF PassedOver, TypeOK
  <2>3. scan <= Len(waiters) /\ Global(waiters[scan]) /\ ~CanStart(waiters[scan])
    BY <2>1, <2>2 DEF TypeOK
  <2>4. scan # j
    BY <2>1, <2>3
  <2>5. scan \in 1..(j - 1)
    BY <2>2, <2>4
  <2> QED
    BY <2>3, <2>5
<1> QED
  BY <1>1, <1>2, <1>3

LEMMA NextIInv == IInv /\ [Next]_vars => IInv'
<1> SUFFICES ASSUME IInv, [Next]_vars PROVE IInv'
  OBVIOUS
<1>1. CASE UNCHANGED vars
  <2>1. TypeOK' /\ LanesExclusive'
    BY <1>1 DEF vars, IInv, TypeOK, LanesExclusive, Conflict, Global
  <2>2. waiters' = waiters /\ active' = active /\ scan' = scan
    BY <1>1 DEF vars
  <2>3. NobodyForgotten'
    BY <2>2 DEF IInv, NobodyForgotten, CanStart, Conflict, Global
  <2>4. PassedOver'
    BY <2>2 DEF IInv, PassedOver, CanStart, Conflict, Global
  <2> QED
    BY <2>1, <2>3, <2>4 DEF IInv
<1>2. ASSUME NEW o \in Operations, Call(o) PROVE IInv'
  BY <1>2, CallStep
<1>3. ASSUME NEW o \in Operations, ReturnInside(o) PROVE IInv'
  BY <1>3, ReturnInsideStep
<1>4. ASSUME NEW o \in Operations, Release(o) PROVE IInv'
  BY <1>4, ReleaseStep
<1>5. ASSUME NEW o \in Operations, NEW p \in Operations, CallInside(o, p) PROVE IInv'
  BY <1>5, CallInsideStep
<1>6. CASE Drain
  BY <1>6, DrainGrantStep, DrainSkipStep, DrainEndStep DEF Drain
<1> QED
  BY <1>1, <1>2, <1>3, <1>4, <1>5, <1>6 DEF Next

\* The strengthened invariant holds in every reachable state.
THEOREM LanesInvariance == Spec => []IInv
<1>1. Init => IInv
  BY InitIInv
<1>2. IInv /\ [Next]_vars => IInv'
  BY NextIInv
<1> QED
  BY <1>1, <1>2, PTL DEF Spec

\* The queue never holds an operation twice, nor one that is running.
THEOREM LanesTypeCorrect == Spec => []TypeOK
<1>1. IInv => TypeOK
  BY DEF IInv
<1> QED
  BY <1>1, LanesInvariance, PTL

\* Two operations never hold a lane in common, whatever the drains did.
THEOREM MutualExclusion == Spec => []LanesExclusive
<1>1. IInv => LanesExclusive
  BY DEF IInv
<1> QED
  BY <1>1, LanesInvariance, PTL

\* After every drain, only a global waiter in front can hold back a waiter
\* that could start: no wakeup is lost.
THEOREM NoLostWakeup == Spec => []NobodyForgotten
<1>1. IInv => NobodyForgotten
  BY DEF IInv
<1> QED
  BY <1>1, LanesInvariance, PTL

------------------------------------------------------------------------------
(* Order of admission. *)

\* An active set that blocks one operation blocks every one that wants more.
LEMMA WiderIsBlockedToo ==
  ASSUME NEW o, NEW p, LanesOf[o] \subseteq LanesOf[p] \/ Global(o),
         ~CanStart(o), ~Global(o)
  PROVE  ~CanStart(p)
BY DEF CanStart, Conflict, Global

\* Global calls are a barrier and one lane is served in order of arrival.
THEOREM FirstComeFirstServed == Spec => NoOvertaking
<1> DEFINE Ordered == \A i, j \in 1..Len(waiters) :
                 i < j /\ LanesOf[waiters[i]] \subseteq LanesOf[waiters[j]]
                   => (waiters[j] \in active' => waiters[i] \in active')
<1>1. IInv /\ [Next]_vars => [Ordered]_vars
  <2>1. SUFFICES ASSUME IInv, Next,
                        NEW i \in 1..Len(waiters), NEW j \in 1..Len(waiters),
                        i < j, LanesOf[waiters[i]] \subseteq LanesOf[waiters[j]],
                        waiters[j] \in active'
                 PROVE  FALSE
    OBVIOUS
  <2>2. waiters[j] \notin active
    BY <2>1, WaitersAreOperations DEF IInv, TypeOK
  <2>3. DrainGrant
    BY <2>1, <2>2 DEF Next, Call, CallInside, ReturnInside, Release, Drain, DrainSkip, DrainEnd
  <2>4. waiters[j] = waiters[scan] /\ scan \in 1..Len(waiters) /\ CanStart(waiters[scan])
    BY <2>1, <2>2, <2>3 DEF DrainGrant
  <2>5. j = scan
    BY <2>1, <2>4 DEF IInv, TypeOK, IsInjective
  <2>6. ~CanStart(waiters[i]) /\ ~Global(waiters[i])
    BY <2>1, <2>4, <2>5 DEF IInv, PassedOver, TypeOK
  <2> QED
    BY <2>1, <2>4, <2>5, <2>6, WiderIsBlockedToo
<1>2. []IInv /\ [][Next]_vars => [][Ordered]_vars
  BY <1>1, PTL
<1> QED
  BY <1>2, LanesInvariance, PTL DEF Spec, NoOvertaking

------------------------------------------------------------------------------
(* The lanes implement the lane lock. *)

HeldPairs == {<<o, LanesOf[o]>> : o \in active}

\* Whoever starts next conflicts with nobody that holds a lane.
THEOREM LockRefinement == Spec => ImplementsLaneLock
<1>1. Init => Promise!Init
  BY DEF Init, Promise!Init
<1>2. IInv /\ [Next]_vars => [Promise!Next]_(Promise!vars)
  <2> SUFFICES ASSUME IInv, [Next]_vars PROVE [Promise!Next]_(Promise!vars)
    OBVIOUS
  <2>1. CASE active' = active
    BY <2>1 DEF Promise!vars
  <2>2. ASSUME NEW o \in Operations, Release(o) PROVE Promise!Next
    <3>1. o \in active /\ active' = active \ {o}
      BY <2>2 DEF Release
    <3>2. HeldPairs' = {h \in HeldPairs : h[1] # o}
      BY <3>1 DEF HeldPairs
    <3>3. \E h \in HeldPairs : h[1] = o
      <4>1. <<o, LanesOf[o]>> \in HeldPairs
        BY <3>1 DEF HeldPairs
      <4> WITNESS <<o, LanesOf[o]>> \in HeldPairs
      <4> QED
        OBVIOUS
    <3>4. Promise!Release(o)
      BY <3>2, <3>3 DEF Promise!Release, HeldPairs
    <3> QED
      BY <3>4 DEF Promise!Next
  <2>3. CASE DrainGrant
    <3>1. PICK w \in Operations : CanStart(w) /\ w \notin active /\ active' = active \cup {w}
      <4>1. /\ waiters[scan] \in Operations /\ CanStart(waiters[scan])
            /\ waiters[scan] \notin active /\ active' = active \cup {waiters[scan]}
        BY <2>3, WaitersAreOperations DEF IInv, TypeOK, DrainGrant
      <4> QED
        BY <4>1
    <3>2. LanesOf[w] \in SUBSET Lanes
      BY <3>1, OperationsAssumption
    <3>3. HeldPairs' = HeldPairs \cup {<<w, LanesOf[w]>>}
      BY <3>1 DEF HeldPairs
    <3>4. \A h \in HeldPairs : h[1] # w /\ ~Promise!Overlap(LanesOf[w], h[2])
      BY <3>1 DEF HeldPairs, CanStart, Conflict, Global, Promise!Overlap
    <3>5. Promise!Acquire(w, LanesOf[w])
      BY <3>3, <3>4 DEF Promise!Acquire, HeldPairs
    <3>6. Promise!Next
      BY <3>1, <3>2, <3>5 DEF Promise!Next
    <3> QED
      BY <3>6
  <2> QED
    BY <2>1, <2>2, <2>3 DEF Next, vars, Call, CallInside, ReturnInside, Drain, DrainSkip, DrainEnd
<1> QED
  BY <1>1, <1>2, LanesInvariance, PTL DEF Spec, ImplementsLaneLock, Promise!Spec
==============================================================================
