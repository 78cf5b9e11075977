----------------------- MODULE RegistryDetectionProofs -----------------------
(* Any number of managers, any number of changes of the API and crashes.    *)
EXTENDS RegistryDetection, TLAPS

LEMMA InitTyped == Init => TypeOK
BY BoundsAssumption DEF Init, TypeOK

LEMMA StepTyped == TypeOK /\ [Next]_vars => TypeOK'
<1> SUFFICES ASSUME TypeOK, [Next]_vars PROVE TypeOK'
  OBVIOUS
<1>1. CASE Flip
  BY <1>1, BoundsAssumption DEF Flip, TypeOK
<1>2. ASSUME NEW m \in Managers, Add(m) PROVE TypeOK'
  BY <1>2 DEF Add, TypeOK
<1>3. ASSUME NEW m \in Managers, Detect(m) PROVE TypeOK'
  BY <1>3 DEF Detect, TypeOK
<1>4. ASSUME NEW m \in Managers, Poll(m) PROVE TypeOK'
  BY <1>4 DEF Poll, Exit, TypeOK
<1>5. ASSUME NEW m \in Managers, Crash(m) PROVE TypeOK'
  BY <1>5, BoundsAssumption DEF Crash, Exit, TypeOK
<1>6. CASE UNCHANGED vars
  BY <1>6 DEF vars, TypeOK
<1>7. QED BY <1>1, <1>2, <1>3, <1>4, <1>5, <1>6 DEF Next, Quiet

LEMMA StepWatches ==
    ASSUME Inv, [Next]_vars
    PROVE  AddedKnows' /\ WatchesOrPolls'
<1> USE DEF Inv
<1>1. CASE Flip
  BY <1>1 DEF Flip, AddedKnows, WatchesOrPolls
<1>2. ASSUME NEW m \in Managers, Add(m) PROVE AddedKnows' /\ WatchesOrPolls'
  BY <1>2 DEF Add, TypeOK, AddedKnows, WatchesOrPolls
<1>3. ASSUME NEW m \in Managers, Detect(m) PROVE AddedKnows' /\ WatchesOrPolls'
  BY <1>3 DEF Detect, TypeOK, AddedKnows, WatchesOrPolls
<1>4. ASSUME NEW m \in Managers, Poll(m) PROVE AddedKnows' /\ WatchesOrPolls'
  BY <1>4 DEF Poll, Exit, TypeOK, AddedKnows, WatchesOrPolls
<1>5. ASSUME NEW m \in Managers, Crash(m) PROVE AddedKnows' /\ WatchesOrPolls'
  BY <1>5 DEF Crash, Exit, TypeOK, AddedKnows, WatchesOrPolls
<1>6. CASE UNCHANGED vars
  BY <1>6 DEF vars, AddedKnows, WatchesOrPolls
<1>7. QED BY <1>1, <1>2, <1>3, <1>4, <1>5, <1>6 DEF Next, Quiet

\* Managers that watch are up, and only managers that run have a poller.
THEOREM TypeCorrect == Spec => []TypeOK
<1>1. QED BY InitTyped, StepTyped, PTL DEF Spec

\* However many managers start, crash and are ended while the API comes and goes, at
\* any moment: one that runs with neither watches nor poller has had the API come
\* between the two questions of its start (utils/placement.go:117-146).
THEOREM OnlyRacedAreStranded == Spec => []WatchesOrPolls
<1>1. Init => Inv
  BY InitTyped DEF Init, Inv, AddedKnows, WatchesOrPolls
<1>2. Inv /\ [Next]_vars => Inv'
  BY StepTyped, StepWatches DEF Inv
<1>3. Inv => WatchesOrPolls
  BY DEF Inv
<1>4. QED BY <1>1, <1>2, <1>3, PTL DEF Spec
=============================================================================
