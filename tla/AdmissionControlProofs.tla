----------------------- MODULE AdmissionControlProofs -----------------------
(***************************************************************************)
(* What AdmissionControl's steps amount to: the two documented bounds and  *)
(* one fate for each connection, for any number of connections.            *)
(***************************************************************************)
EXTENDS AdmissionControl, FiniteSetTheorems, SequenceTheorems, TLAPS

Sizes == MaxWorkers \in Nat /\ MaxPending \in Nat

IInv == TypeOK /\ IsFiniteSet(executing) /\ WithinCapacity /\ OneFate

LEMMA CountType ==
    ASSUME TypeOK, IsFiniteSet(executing)
    PROVE  Len(pending) \in Nat /\ Cardinality(executing) \in Nat
  BY LenProperties, FS_CardinalityType DEF TypeOK

LEMMA InitIInv == Sizes /\ Init => IInv
  <1> SUFFICES ASSUME Sizes, Init PROVE IInv
    OBVIOUS
  <1>1. IsFiniteSet(executing) /\ Cardinality(executing) = 0
    BY FS_EmptySet DEF Init
  <1>2. pending \in Seq(Conns) /\ Len(pending) = 0 /\ DOMAIN pending = {}
    BY EmptySeq, LenProperties DEF Init
  <1>3. TypeOK
    BY <1>2 DEF Init, TypeOK
  <1>4. WithinCapacity
    BY <1>1, <1>2 DEF Sizes, WithinCapacity, Outstanding, Capacity
  <1>5. OneFate
    BY <1>2 DEF Init, OneFate, Waiting
  <1>6. QED
    BY <1>1, <1>3, <1>4, <1>5 DEF IInv

(* The end of the line joins those that wait; its front leaves them.       *)
LEMMA AdmitIInv ==
    ASSUME Sizes, IInv, NEW c \in Conns, Admit(c), mayRefuse' = mayRefuse
    PROVE  IInv'
  <1> USE DEF IInv
  <1>1. /\ pending \in Seq(Conns) /\ pending' = Append(pending, c)
        /\ UNCHANGED <<executing, finished, turnedAway, closing>> /\ c \notin Known
        /\ Outstanding < Capacity
    BY DEF Admit, HasRoom, TypeOK
  <1>2. /\ Len(pending) \in Nat /\ DOMAIN pending = 1 .. Len(pending)
        /\ pending' \in Seq(Conns) /\ Len(pending') = Len(pending) + 1
        /\ DOMAIN pending' = 1 .. Len(pending')
        /\ \A i \in 1 .. Len(pending) : pending'[i] = pending[i]
        /\ pending'[Len(pending) + 1] = c
    BY <1>1, AppendProperties, LenProperties
  <1>3. TypeOK'
    BY <1>1, <1>2 DEF TypeOK
  <1>4. WithinCapacity'
    BY <1>1, <1>2, CountType DEF WithinCapacity, Outstanding, Capacity, Sizes
  <1>5. DOMAIN pending' = DOMAIN pending \cup {Len(pending) + 1}
        /\ Len(pending) + 1 \notin DOMAIN pending
    BY <1>2
  <1>6. Waiting' = Waiting \cup {c} /\ c \notin Waiting
    BY <1>1, <1>2, <1>5 DEF Waiting, Known
  <1>7. \A i, j \in DOMAIN pending' : pending'[i] = pending'[j] => i = j
    BY <1>2, <1>5, <1>6 DEF OneFate, Waiting
  <1>8. OneFate'
    BY <1>1, <1>6, <1>7 DEF OneFate, Known
  <1>9. QED
    BY <1>1, <1>3, <1>4, <1>8

LEMMA StartIInv ==
    ASSUME Sizes, IInv, Start, mayRefuse' = mayRefuse
    PROVE  IInv'
  <1> USE DEF IInv
  <1>1. /\ pending \in Seq(Conns) /\ pending # <<>> /\ pending' = Tail(pending)
        /\ executing' = executing \cup {Head(pending)}
        /\ Cardinality(executing) < MaxWorkers
        /\ UNCHANGED <<finished, turnedAway, closing>>
    BY DEF Start, TypeOK
  <1>2. /\ Len(pending) \in Nat \ {0} /\ DOMAIN pending = 1 .. Len(pending)
        /\ pending' \in Seq(Conns) /\ Len(pending') = Len(pending) - 1
        /\ DOMAIN pending' = 1 .. Len(pending')
        /\ \A i \in 1 .. Len(pending') : pending'[i] = pending[i + 1]
        /\ Head(pending) = pending[1] /\ Head(pending) \in Conns
    BY <1>1, HeadTailProperties, EmptySeq, LenProperties
  <1>3. \A i \in DOMAIN pending' : /\ i + 1 \in DOMAIN pending /\ i + 1 # 1
                                   /\ pending'[i] = pending[i + 1]
    BY <1>2
  <1>4. 1 \in DOMAIN pending /\ Head(pending) \in Waiting
    BY <1>2 DEF Waiting
  <1>5. Waiting' \subseteq Waiting /\ Head(pending) \notin Waiting'
    BY <1>2, <1>3, <1>4 DEF Waiting, OneFate
  <1>6. Head(pending) \notin executing
    BY <1>4 DEF OneFate
  <1>7. /\ IsFiniteSet(executing') /\ Cardinality(executing') = Cardinality(executing) + 1
    BY <1>1, <1>6, FS_AddElement
  <1>8. TypeOK'
    BY <1>1, <1>2 DEF TypeOK
  <1>9. WithinCapacity'
    BY <1>1, <1>2, <1>7, CountType DEF WithinCapacity, Outstanding, Capacity, Sizes
  <1>10. \A i, j \in DOMAIN pending' : pending'[i] = pending'[j] => i = j
    <2> SUFFICES ASSUME NEW i \in DOMAIN pending', NEW j \in DOMAIN pending',
                        pending'[i] = pending'[j]
                 PROVE  i = j
      OBVIOUS
    <2>1. i + 1 = j + 1
      BY <1>3 DEF OneFate
    <2>2. QED
      BY <1>2, <2>1
  <1>11. OneFate'
    BY <1>1, <1>4, <1>5, <1>10 DEF OneFate
  <1>12. QED
    BY <1>7, <1>8, <1>9, <1>11

LEMMA GiveUpIInv ==
    ASSUME Sizes, IInv, GiveUp, mayRefuse' = mayRefuse
    PROVE  IInv'
  <1> USE DEF IInv
  <1> DEFINE n == Len(pending)
  <1>1. /\ pending \in Seq(Conns) /\ pending # <<>>
        /\ pending' = SubSeq(pending, 1, n - 1)
        /\ turnedAway' = turnedAway \cup {pending[n]}
        /\ UNCHANGED <<executing, finished, closing>>
    BY DEF GiveUp, TypeOK
  <1>2. n \in Nat \ {0} /\ DOMAIN pending = 1 .. n
    BY <1>1, EmptySeq, LenProperties
  <1>3. /\ pending' \in Seq(Conns) /\ Len(pending') = n - 1
        /\ DOMAIN pending' = 1 .. n - 1
        /\ \A i \in 1 .. n - 1 : pending'[i] = pending[i]
    <2>1. 1 \in Int /\ n - 1 \in Int /\ \A i \in 1 .. n - 1 : pending[i] \in Conns
      BY <1>1, <1>2, ElementOfSeq
    <2>2. /\ SubSeq(pending, 1, n - 1) \in Seq(Conns)
          /\ Len(SubSeq(pending, 1, n - 1)) = IF 1 <= n - 1 THEN n - 1 - 1 + 1 ELSE 0
          /\ \A i \in 1 .. n - 1 - 1 + 1 : SubSeq(pending, 1, n - 1)[i] = pending[1 + i - 1]
      BY <2>1, SubSeqProperties
    <2>3. Len(pending') = n - 1
      BY <1>1, <1>2, <2>2
    <2>4. DOMAIN pending' = 1 .. n - 1
      BY <1>1, <2>2, <2>3, LenProperties
    <2>5. \A i \in 1 .. n - 1 : pending'[i] = pending[i]
      BY <1>1, <1>2, <2>2
    <2>6. QED
      BY <1>1, <2>2, <2>3, <2>4, <2>5
  <1>4. n \in DOMAIN pending /\ pending[n] \in Waiting /\ pending[n] \in Conns
    BY <1>1, <1>2, ElementOfSeq DEF Waiting
  <1>5. /\ \A i \in DOMAIN pending' : i \in DOMAIN pending /\ i # n
        /\ Waiting' \subseteq Waiting /\ pending[n] \notin Waiting'
    BY <1>2, <1>3, <1>4 DEF Waiting, OneFate
  <1>6. TypeOK'
    BY <1>1, <1>3, <1>4 DEF TypeOK
  <1>7. WithinCapacity'
    BY <1>1, <1>2, <1>3, CountType DEF WithinCapacity, Outstanding, Capacity, Sizes
  <1>8. OneFate'
    BY <1>1, <1>3, <1>4, <1>5 DEF OneFate
  <1>9. QED
    BY <1>1, <1>6, <1>7, <1>8

LEMMA OtherIInv ==
    ASSUME Sizes, IInv,
           \/ \E c \in Conns : (Refuse(c) \/ Finish(c)) /\ mayRefuse' = mayRefuse
           \/ Close /\ mayRefuse' = mayRefuse
           \/ UNCHANGED vars
    PROVE  IInv'
  <1> USE DEF IInv
  <1>1. pending' = pending /\ Waiting' = Waiting
    BY DEF Refuse, Finish, Close, vars, Waiting
  <1>2. ASSUME NEW c \in Conns, Refuse(c), mayRefuse' = mayRefuse PROVE IInv'
    <2>1. TypeOK'
      BY <1>2 DEF Refuse, TypeOK
    <2>2. IsFiniteSet(executing)' /\ WithinCapacity'
      BY <1>2 DEF Refuse, WithinCapacity, Outstanding
    <2>3. OneFate'
      BY <1>1, <1>2 DEF Refuse, OneFate, Known
    <2>4. QED
      BY <2>1, <2>2, <2>3
  <1>3. ASSUME NEW c \in Conns, Finish(c), mayRefuse' = mayRefuse PROVE IInv'
    <2>1. IsFiniteSet(executing') /\ Cardinality(executing') = Cardinality(executing) - 1
      BY <1>3, FS_RemoveElement DEF Finish
    <2>2. TypeOK'
      BY <1>3 DEF Finish, TypeOK
    <2>3. WithinCapacity'
      BY <1>1, <2>1, CountType DEF WithinCapacity, Outstanding, Capacity, Sizes
    <2>4. OneFate'
      BY <1>1, <1>3 DEF Finish, OneFate
    <2>5. QED
      BY <2>1, <2>2, <2>3, <2>4
  <1>4. CASE Close /\ mayRefuse' = mayRefuse
    BY <1>1, <1>4 DEF Close, TypeOK, WithinCapacity, Outstanding, OneFate
  <1>5. CASE UNCHANGED vars
    BY <1>1, <1>5 DEF vars, TypeOK, WithinCapacity, Outstanding, OneFate
  <1>6. QED
    BY <1>2, <1>3, <1>4, <1>5

LEMMA IInvHolds == ASSUME Sizes PROVE Spec => []IInv
  <1>1. Init => IInv
    BY InitIInv
  <1>2. IInv /\ [Next]_vars => IInv'
    BY AdmitIInv, StartIInv, GiveUpIInv, OtherIInv DEF Next
  <1>3. QED
    BY <1>1, <1>2, PTL DEF Spec

(* At most max_workers requests execute, and at most max_workers +         *)
(* max_pending are outstanding.                                            *)
THEOREM BoundsHold == ASSUME Sizes PROVE Spec => []WithinCapacity
  <1>1. IInv => WithinCapacity
    BY DEF IInv
  <1>2. QED
    BY <1>1, IInvHolds, PTL

(* A connection waits, executes, has finished or was turned away, and is   *)
(* never two of these, nor twice in line.                                  *)
THEOREM FatesAreOne == ASSUME Sizes PROVE Spec => []OneFate
  <1>1. IInv => OneFate
    BY DEF IInv
  <1>2. QED
    BY <1>1, IInvHolds, PTL
=============================================================================
