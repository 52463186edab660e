----------------------- MODULE RefCountedRWMutexProofs -----------------------
(***************************************************************************)
(* Type correctness and exclusion of the lock table, for any number of     *)
(* goroutines, mutexes and operations.                                     *)
(***************************************************************************)
EXTENDS RefCountedRWMutex, TLAPS

(* The variables keep their types: in particular a counter is only ever    *)
(* decremented where getMutex led to an existing mutex.                    *)
RefOK == /\ mapped <= alloc
         /\ \A p \in Procs : pc[p] # "idle" => ref[p] \in 1..alloc

TypeInv == TypeOK /\ RefOK

USE NoneAssumption, BoundsAssumption

LEMMA TypeInit == Init => TypeInv
  BY DEF Init, TypeInv, TypeOK, RefOK, Inst, Modes, PCs

LEMMA DecrementedType ==
  ASSUME NEW S \in SUBSET Procs, NEW p \in Procs, NEW T \in Decremented(S, p)
  PROVE  T \in SUBSET Procs
  BY DEF Decremented

LEMMA TypeStep == TypeInv /\ [Next]_vars => TypeInv'
  <1> SUFFICES ASSUME TypeInv, [Next]_vars PROVE TypeInv'
    OBVIOUS
  <1> USE DEF TypeInv, TypeOK, RefOK, Inst, Modes, PCs, Goto, countVars, muVars
  <1>1. ASSUME NEW p \in Procs, NEW m \in Modes, LockGet(p, m) PROVE TypeInv'
    BY <1>1 DEF LockGet, getMutex
  <1>2. ASSUME NEW p \in Procs, LockCount(p) PROVE TypeInv'
    BY <1>2 DEF LockCount
  <1>3. ASSUME NEW p \in Procs, RLockCount(p) PROVE TypeInv'
    BY <1>3 DEF RLockCount
  <1>4. ASSUME NEW p \in Procs, LockAnnounce(p) PROVE TypeInv'
    BY <1>4 DEF LockAnnounce
  <1>5. ASSUME NEW p \in Procs, LockAcquire(p) PROVE TypeInv'
    BY <1>5 DEF LockAcquire
  <1>6. ASSUME NEW p \in Procs, RLockAcquire(p) PROVE TypeInv'
    <2>1. ref[p] \in Inst
      BY <1>6 DEF RLockAcquire
    <2>2. CASE announced[ref[p]] = None /\ writer[ref[p]] = None
      <3>1. readers' = [readers EXCEPT ![ref[p]] = @ \cup {p}]
        BY <1>6, <2>2 DEF RLockAcquire
      <3>2. readers' \in [Inst -> SUBSET Procs]
        BY <2>1, <3>1
      <3>3. pc' = [pc EXCEPT ![p] = "holding"]
        BY <1>6, <2>2 DEF RLockAcquire
      <3> QED
        BY <1>6, <3>2, <3>3 DEF RLockAcquire
    <2>3. CASE ~(announced[ref[p]] = None /\ writer[ref[p]] = None)
      BY <1>6, <2>1, <2>3 DEF RLockAcquire
    <2> QED
      BY <2>2, <2>3
  <1>7. ASSUME NEW p \in Procs, UnlockGet(p) PROVE TypeInv'
    BY <1>7 DEF UnlockGet, getMutex
  <1>8. ASSUME NEW p \in Procs, UnlockCheck(p) PROVE TypeInv'
    BY <1>8 DEF UnlockCheck
  <1>9. ASSUME NEW p \in Procs, UnlockMu(p) PROVE TypeInv'
    <2>1. ref[p] \in Inst
      BY <1>9 DEF UnlockMu
    <2>2. CASE writer[ref[p]] # None
      <3> DEFINE woken == {q \in Procs : pc[q] = "parked" /\ ref[q] = ref[p]}
      <3>1. readers' = [readers EXCEPT ![ref[p]] = @ \cup woken]
        BY <1>9, <2>2 DEF UnlockMu
      <3>2. readers' \in [Inst -> SUBSET Procs]
        BY <2>1, <3>1
      <3>3. pc' = [q \in Procs |-> IF q = p THEN "unlocked"
                                   ELSE IF q \in woken THEN "holding" ELSE pc[q]]
        BY <1>9, <2>2 DEF UnlockMu
      <3>4. pc' \in [Procs -> PCs]
        BY <3>3
      <3>5. RefOK'
        BY <1>9, <3>3 DEF UnlockMu
      <3>6. writer' \in [Inst -> Procs \cup {None}] /\ fault' = fault
        BY <1>9, <2>1, <2>2 DEF UnlockMu
      <3> QED
        BY <1>9, <3>2, <3>4, <3>5, <3>6 DEF UnlockMu
    <2>3. CASE writer[ref[p]] = None
      BY <1>9, <2>1, <2>3 DEF UnlockMu
    <2> QED
      BY <2>2, <2>3
  <1>10. ASSUME NEW p \in Procs, RUnlockMu(p) PROVE TypeInv'
    <2>1. ref[p] \in Inst
      BY <1>10 DEF RUnlockMu
    <2>2. CASE readers[ref[p]] # {}
      <3>1. PICK S \in Decremented(readers[ref[p]], p) :
                readers' = [readers EXCEPT ![ref[p]] = S]
        BY <1>10, <2>2 DEF RUnlockMu
      <3>2. readers' \in [Inst -> SUBSET Procs]
        BY <2>1, <3>1, DecrementedType
      <3>3. pc' = [pc EXCEPT ![p] = "unlocked"] /\ fault' = fault
        BY <1>10, <2>2 DEF RUnlockMu
      <3> QED
        BY <1>10, <3>2, <3>3 DEF RUnlockMu
    <2>3. CASE readers[ref[p]] = {}
      BY <1>10, <2>1, <2>3 DEF RUnlockMu
    <2> QED
      BY <2>2, <2>3
  <1>11. ASSUME NEW p \in Procs, UnlockCount(p) PROVE TypeInv'
    BY <1>11, DecrementedType DEF UnlockCount
  <1>12. ASSUME NEW p \in Procs, RUnlockCount(p) PROVE TypeInv'
    BY <1>12, DecrementedType DEF RUnlockCount
  <1>13. ASSUME NEW p \in Procs, RUnlockSchedule(p) PROVE TypeInv'
    BY <1>13 DEF RUnlockSchedule
  <1>14. CASE Cleanup
    BY <1>14 DEF Cleanup, Using
  <1>15. CASE UNCHANGED vars
    BY <1>15 DEF vars
  <1> QED
    BY <1>1, <1>2, <1>3, <1>4, <1>5, <1>6, <1>7, <1>8, <1>9, <1>10, <1>11,
       <1>12, <1>13, <1>14, <1>15 DEF Next, Lock, RLock, Unlock, RUnlock

(* The type invariant of the lock table holds for any constants.           *)
THEOREM TypeCorrect == Spec => []TypeOK
  <1>1. TypeInv => TypeOK
    BY DEF TypeInv
  <1> QED
    BY <1>1, TypeInit, TypeStep, PTL DEF Spec

-----------------------------------------------------------------------------
(***************************************************************************)
(* The inductive invariant behind exclusion.  While the table is intact,   *)
(* whoever uses the key refers to the mapped mutex, and every counter and  *)
(* every field of every mutex ever created says exactly which goroutines   *)
(* are where: that is what makes the second lookup of an unlock harmless.  *)
(***************************************************************************)
WCounted == {"counted", "pending", "holding", "relgot", "checked", "unlocked"}
RCounted == {"counted", "parked", "holding", "relgot", "checked", "unlocked"}
MuHeld   == {"holding", "relgot", "checked"}

At(p, m, i, L) == mode[p] = m /\ ref[p] = i /\ pc[p] \in L

UsersMapped == \A p \in Procs : Using(p) => ref[p] = mapped

CountsExact ==
    \A p \in Procs, i \in Inst :
        /\ p \in writeCount[i] <=> At(p, "w", i, WCounted)
        /\ p \in readCount[i]  <=> At(p, "r", i, RCounted)

MuExact ==
    \A p \in Procs, i \in Inst :
        /\ announced[i] = p <=> At(p, "w", i, {"pending"})
        /\ writer[i] = p    <=> At(p, "w", i, MuHeld)
        /\ p \in readers[i] <=> At(p, "r", i, MuHeld)

MuExclusive ==
    \A i \in Inst : writer[i] # None => readers[i] = {} /\ announced[i] = None

ModeOfPC ==
    \A p \in Procs : /\ pc[p] = "pending" => mode[p] = "w"
                     /\ pc[p] \in {"parked", "zeroed"} => mode[p] = "r"

ParkedHasWriter ==
    \A p \in Procs : pc[p] = "parked" =>
        announced[ref[p]] # None \/ writer[ref[p]] # None

Intact == /\ fault = "none"
          /\ UsersMapped /\ CountsExact /\ MuExact /\ MuExclusive
          /\ ModeOfPC /\ ParkedHasWriter

LockInv == TypeInv /\ (table = "intact" => Intact)

LEMMA LockInit == Init => LockInv
  <1> SUFFICES ASSUME Init PROVE Intact
    BY TypeInit DEF LockInv
  <1> QED
    BY DEF Init, Intact, UsersMapped, Using, CountsExact, MuExact, MuExclusive,
           ModeOfPC, ParkedHasWriter, At, WCounted, RCounted, MuHeld, Inst

(* The step from an intact table, one action at a time.                    *)
LEMMA LockGetIntact ==
  ASSUME TypeInv, Intact, NEW p \in Procs, NEW m \in Modes, LockGet(p, m)
  PROVE  Intact'
  <1> USE DEF Intact, TypeInv, TypeOK, RefOK, Inst, Goto, countVars, muVars,
          LockGet, getMutex
  <1>1. UsersMapped'
    BY DEF UsersMapped, Using, PCs
  <1>2. CountsExact'
    BY DEF CountsExact, At, WCounted, RCounted, PCs, Modes, UsersMapped, Using
  <1>3. MuExact'
    BY DEF MuExact, At, MuHeld, PCs, Modes, UsersMapped, Using, ModeOfPC
  <1>4. MuExclusive'
    BY DEF MuExclusive, MuExact, At, MuHeld, PCs, Modes
  <1>5. ModeOfPC'
    BY DEF ModeOfPC, PCs, Modes
  <1>6. ParkedHasWriter'
    BY DEF ParkedHasWriter, MuExact, MuExclusive, At, MuHeld, PCs, Modes
  <1>7. fault' = "none"
    BY DEF MuExact, At, MuHeld
  <1> QED
    BY <1>1, <1>2, <1>3, <1>4, <1>5, <1>6, <1>7

LEMMA LockCountIntact ==
  ASSUME TypeInv, Intact, NEW p \in Procs, LockCount(p)
  PROVE  Intact'
  <1> USE DEF Intact, TypeInv, TypeOK, RefOK, Inst, Goto, countVars, muVars,
          LockCount
  <1>1. UsersMapped'
    BY DEF UsersMapped, Using, PCs
  <1>2. CountsExact'
    BY DEF CountsExact, At, WCounted, RCounted, PCs, Modes, UsersMapped, Using
  <1>3. MuExact'
    BY DEF MuExact, At, MuHeld, PCs, Modes, UsersMapped, Using, ModeOfPC
  <1>4. MuExclusive'
    BY DEF MuExclusive, MuExact, At, MuHeld, PCs, Modes
  <1>5. ModeOfPC'
    BY DEF ModeOfPC, PCs, Modes
  <1>6. ParkedHasWriter'
    BY DEF ParkedHasWriter, MuExact, MuExclusive, At, MuHeld, PCs, Modes
  <1>7. fault' = "none"
    BY DEF MuExact, At, MuHeld
  <1> QED
    BY <1>1, <1>2, <1>3, <1>4, <1>5, <1>6, <1>7

LEMMA RLockCountIntact ==
  ASSUME TypeInv, Intact, NEW p \in Procs, RLockCount(p)
  PROVE  Intact'
  <1> USE DEF Intact, TypeInv, TypeOK, RefOK, Inst, Goto, countVars, muVars,
          RLockCount
  <1>1. UsersMapped'
    BY DEF UsersMapped, Using, PCs
  <1>2. CountsExact'
    BY DEF CountsExact, At, WCounted, RCounted, PCs, Modes, UsersMapped, Using
  <1>3. MuExact'
    BY DEF MuExact, At, MuHeld, PCs, Modes, UsersMapped, Using, ModeOfPC
  <1>4. MuExclusive'
    BY DEF MuExclusive, MuExact, At, MuHeld, PCs, Modes
  <1>5. ModeOfPC'
    BY DEF ModeOfPC, PCs, Modes
  <1>6. ParkedHasWriter'
    BY DEF ParkedHasWriter, MuExact, MuExclusive, At, MuHeld, PCs, Modes
  <1>7. fault' = "none"
    BY DEF MuExact, At, MuHeld
  <1> QED
    BY <1>1, <1>2, <1>3, <1>4, <1>5, <1>6, <1>7

LEMMA LockAnnounceIntact ==
  ASSUME TypeInv, Intact, NEW p \in Procs, LockAnnounce(p)
  PROVE  Intact'
  <1> USE DEF Intact, TypeInv, TypeOK, RefOK, Inst, Goto, countVars, muVars,
          LockAnnounce
  <1>1. UsersMapped'
    BY DEF UsersMapped, Using, PCs
  <1>2. CountsExact'
    BY DEF CountsExact, At, WCounted, RCounted, PCs, Modes, UsersMapped, Using
  <1>3. MuExact'
    BY DEF MuExact, At, MuHeld, PCs, Modes, UsersMapped, Using, ModeOfPC
  <1>4. MuExclusive'
    BY DEF MuExclusive, MuExact, At, MuHeld, PCs, Modes
  <1>5. ModeOfPC'
    BY DEF ModeOfPC, PCs, Modes
  <1>6. ParkedHasWriter'
    BY DEF ParkedHasWriter, MuExact, MuExclusive, At, MuHeld, PCs, Modes
  <1>7. fault' = "none"
    BY DEF MuExact, At, MuHeld
  <1> QED
    BY <1>1, <1>2, <1>3, <1>4, <1>5, <1>6, <1>7

LEMMA LockAcquireIntact ==
  ASSUME TypeInv, Intact, NEW p \in Procs, LockAcquire(p)
  PROVE  Intact'
  <1> USE DEF Intact, TypeInv, TypeOK, RefOK, Inst, Goto, countVars, muVars,
          LockAcquire
  <1>a. mode[p] = "w" /\ ref[p] \in Inst
    BY DEF ModeOfPC
  <1>b. announced[ref[p]] = p /\ writer[ref[p]] = None
    BY <1>a DEF MuExact, MuExclusive, At
  <1>1. UsersMapped'
    BY DEF UsersMapped, Using, PCs
  <1>2. CountsExact'
    BY <1>a DEF CountsExact, At, WCounted, RCounted
  <1>3. MuExact'
    <2>1. ASSUME NEW q \in Procs, NEW i \in Inst
          PROVE  announced'[i] = q <=> At(q, "w", i, {"pending"})'
      BY <1>a, <1>b DEF MuExact, At
    <2>2. ASSUME NEW q \in Procs, NEW i \in Inst
          PROVE  writer'[i] = q <=> At(q, "w", i, MuHeld)'
      BY <1>a, <1>b DEF MuExact, At, MuHeld
    <2>3. ASSUME NEW q \in Procs, NEW i \in Inst
          PROVE  q \in readers'[i] <=> At(q, "r", i, MuHeld)'
      BY <1>a DEF MuExact, At, MuHeld
    <2> QED
      BY <2>1, <2>2, <2>3 DEF MuExact
  <1>4. MuExclusive'
    BY DEF MuExclusive, MuExact, At, MuHeld, PCs, Modes
  <1>5. ModeOfPC'
    BY DEF ModeOfPC, PCs, Modes
  <1>6. ParkedHasWriter'
    BY DEF ParkedHasWriter, MuExact, MuExclusive, At, MuHeld, PCs, Modes
  <1>7. fault' = "none"
    BY DEF MuExact, At, MuHeld
  <1> QED
    BY <1>1, <1>2, <1>3, <1>4, <1>5, <1>6, <1>7

LEMMA RLockAcquireIntact ==
  ASSUME TypeInv, Intact, NEW p \in Procs, RLockAcquire(p)
  PROVE  Intact'
  <1> USE DEF Intact, TypeInv, TypeOK, RefOK, Inst, Goto, countVars, muVars,
          RLockAcquire
  <1>a. ref[p] \in Inst
    OBVIOUS
  <1>1. UsersMapped'
    BY DEF UsersMapped, Using, PCs
  <1>2. CountsExact'
    BY DEF CountsExact, At, WCounted, RCounted, PCs, Modes, UsersMapped, Using
  <1>3. MuExact'
    <2>1. CASE announced[ref[p]] = None /\ writer[ref[p]] = None
      <3>1. readers' = [readers EXCEPT ![ref[p]] = @ \cup {p}]
        BY <2>1
      <3>2. pc' = [pc EXCEPT ![p] = "holding"]
        BY <2>1
      <3> QED
        BY <1>a, <3>1, <3>2 DEF MuExact, At, MuHeld
    <2>2. CASE ~(announced[ref[p]] = None /\ writer[ref[p]] = None)
      BY <1>a, <2>2 DEF MuExact, At, MuHeld
    <2> QED
      BY <2>1, <2>2
  <1>4. MuExclusive'
    BY DEF MuExclusive, MuExact, At, MuHeld, PCs, Modes
  <1>5. ModeOfPC'
    BY DEF ModeOfPC, PCs, Modes
  <1>6. ParkedHasWriter'
    BY DEF ParkedHasWriter, MuExact, MuExclusive, At, MuHeld, PCs, Modes
  <1>7. fault' = "none"
    BY DEF MuExact, At, MuHeld
  <1> QED
    BY <1>1, <1>2, <1>3, <1>4, <1>5, <1>6, <1>7

LEMMA UnlockGetIntact ==
  ASSUME TypeInv, Intact, NEW p \in Procs, UnlockGet(p)
  PROVE  Intact'
  <1> USE DEF Intact, TypeInv, TypeOK, RefOK, Inst, Goto, countVars, muVars,
          UnlockGet, getMutex
  <1>a. mapped # 0 /\ ref[p] = mapped
    <2>1. pc[p] = "holding"
      BY DEF UnlockGet
    <2>2. ref[p] = mapped
      BY <2>1 DEF UsersMapped, Using
    <2>3. ref[p] \in 1..alloc /\ alloc \in Nat
      BY <2>1 DEF RefOK, TypeOK
    <2> QED
      BY <2>2, <2>3
  <1>b. ref' = ref /\ mapped' = mapped
    BY <1>a
  <1>1. UsersMapped'
    BY DEF UsersMapped, Using, PCs
  <1>2. CountsExact'
    BY <1>b DEF CountsExact, At, WCounted, RCounted
  <1>3. MuExact'
    BY DEF MuExact, At, MuHeld, PCs, Modes, UsersMapped, Using, ModeOfPC
  <1>4. MuExclusive'
    BY DEF MuExclusive, MuExact, At, MuHeld, PCs, Modes
  <1>5. ModeOfPC'
    BY DEF ModeOfPC, PCs, Modes
  <1>6. ParkedHasWriter'
    BY DEF ParkedHasWriter, MuExact, MuExclusive, At, MuHeld, PCs, Modes
  <1>7. fault' = "none"
    BY DEF MuExact, At, MuHeld
  <1> QED
    BY <1>1, <1>2, <1>3, <1>4, <1>5, <1>6, <1>7

LEMMA UnlockCheckIntact ==
  ASSUME TypeInv, Intact, NEW p \in Procs, UnlockCheck(p)
  PROVE  Intact'
  <1> USE DEF Intact, TypeInv, TypeOK, RefOK, Inst, Goto, countVars, muVars,
          UnlockCheck
  <1>a. /\ mode[p] = "w" => p \in writeCount[ref[p]]
        /\ mode[p] = "r" => p \in readCount[ref[p]]
    BY DEF CountsExact, At, WCounted, RCounted
  <1>b. pc' = [pc EXCEPT ![p] = "checked"]
    BY <1>a DEF Modes
  <1>1. UsersMapped'
    BY DEF UsersMapped, Using, PCs
  <1>2. CountsExact'
    BY DEF CountsExact, At, WCounted, RCounted, PCs, Modes, UsersMapped, Using
  <1>3. MuExact'
    BY <1>b DEF MuExact, At, MuHeld
  <1>4. MuExclusive'
    BY DEF MuExclusive, MuExact, At, MuHeld, PCs, Modes
  <1>5. ModeOfPC'
    BY DEF ModeOfPC, PCs, Modes
  <1>6. ParkedHasWriter'
    BY DEF ParkedHasWriter, MuExact, MuExclusive, At, MuHeld, PCs, Modes
  <1>7. fault' = "none"
    BY DEF MuExact, At, MuHeld
  <1> QED
    BY <1>1, <1>2, <1>3, <1>4, <1>5, <1>6, <1>7

LEMMA UnlockMuIntact ==
  ASSUME TypeInv, Intact, NEW p \in Procs, UnlockMu(p)
  PROVE  Intact'
  <1> USE DEF Intact, TypeInv, TypeOK, RefOK, Inst, Goto, countVars, muVars,
          UnlockMu
  <1> DEFINE woken == {q \in Procs : pc[q] = "parked" /\ ref[q] = ref[p]}
  <1>a. ref[p] \in Inst /\ writer[ref[p]] = p
    BY DEF MuExact, At, MuHeld
  <1>b. readers[ref[p]] = {} /\ announced[ref[p]] = None
    BY <1>a DEF MuExclusive
  <1>c. pc' = [q \in Procs |-> IF q = p THEN "unlocked"
                               ELSE IF q \in woken THEN "holding" ELSE pc[q]]
    BY <1>a
  <1>d. /\ writer' = [writer EXCEPT ![ref[p]] = None]
        /\ readers' = [readers EXCEPT ![ref[p]] = @ \cup woken]
    BY <1>a
  <1>e. \A q \in woken : mode[q] = "r"
    BY DEF ModeOfPC
  <1> HIDE DEF woken
  <1>f. woken \subseteq Procs /\ \A q \in Procs : q \in woken <=> pc[q] = "parked" /\ ref[q] = ref[p]
    BY DEF woken
  <1>1. UsersMapped'
    BY DEF UsersMapped, Using, PCs
  <1>2. CountsExact'
    BY <1>c, <1>e, <1>f DEF CountsExact, At, WCounted, RCounted
  <1>3. MuExact'
    <2>1. ASSUME NEW q \in Procs, NEW i \in Inst
          PROVE  announced'[i] = q <=> At(q, "w", i, {"pending"})'
      BY <1>c, <1>e, <1>f DEF MuExact, At
    <2>2. ASSUME NEW q \in Procs, NEW i \in Inst
          PROVE  writer'[i] = q <=> At(q, "w", i, MuHeld)'
      BY <1>a, <1>c, <1>d, <1>e, <1>f DEF MuExact, At, MuHeld
    <2>3. ASSUME NEW q \in Procs, NEW i \in Inst
          PROVE  q \in readers'[i] <=> At(q, "r", i, MuHeld)'
      BY <1>a, <1>c, <1>d, <1>e, <1>f DEF MuExact, At, MuHeld
    <2> QED
      BY <2>1, <2>2, <2>3 DEF MuExact
  <1>4. MuExclusive'
    BY DEF MuExclusive, MuExact, At, MuHeld, PCs, Modes
  <1>5. ModeOfPC'
    BY DEF ModeOfPC, PCs, Modes
  <1>6. ParkedHasWriter'
    BY DEF ParkedHasWriter, MuExact, MuExclusive, At, MuHeld, PCs, Modes
  <1>7. fault' = "none"
    BY DEF MuExact, At, MuHeld
  <1> QED
    BY <1>1, <1>2, <1>3, <1>4, <1>5, <1>6, <1>7

LEMMA RUnlockMuIntact ==
  ASSUME TypeInv, Intact, NEW p \in Procs, RUnlockMu(p)
  PROVE  Intact'
  <1> USE DEF Intact, TypeInv, TypeOK, RefOK, Inst, Goto, countVars, muVars,
          RUnlockMu, Decremented
  <1>a. ref[p] \in Inst /\ p \in readers[ref[p]]
    BY DEF MuExact, At, MuHeld
  <1>b. readers' = [readers EXCEPT ![ref[p]] = @ \ {p}]
    BY <1>a
  <1>c. pc' = [pc EXCEPT ![p] = "unlocked"] /\ fault' = fault
    BY <1>a
  <1>1. UsersMapped'
    BY DEF UsersMapped, Using, PCs
  <1>2. CountsExact'
    BY DEF CountsExact, At, WCounted, RCounted, PCs, Modes, UsersMapped, Using
  <1>3. MuExact'
    BY <1>a, <1>b, <1>c DEF MuExact, At, MuHeld
  <1>4. MuExclusive'
    BY DEF MuExclusive, MuExact, At, MuHeld, PCs, Modes
  <1>5. ModeOfPC'
    BY DEF ModeOfPC, PCs, Modes
  <1>6. ParkedHasWriter'
    BY DEF ParkedHasWriter, MuExact, MuExclusive, At, MuHeld, PCs, Modes
  <1>7. fault' = "none"
    BY <1>c
  <1> QED
    BY <1>1, <1>2, <1>3, <1>4, <1>5, <1>6, <1>7

LEMMA UnlockCountIntact ==
  ASSUME TypeInv, Intact, NEW p \in Procs, UnlockCount(p)
  PROVE  Intact'
  <1> USE DEF Intact, TypeInv, TypeOK, RefOK, Inst, Goto, countVars, muVars,
          UnlockCount, Decremented
  <1>1. UsersMapped'
    BY DEF UsersMapped, Using, PCs
  <1>2. CountsExact'
    BY DEF CountsExact, At, WCounted, RCounted, PCs, Modes, UsersMapped, Using
  <1>3. MuExact'
    BY DEF MuExact, At, MuHeld, PCs, Modes, UsersMapped, Using, ModeOfPC
  <1>4. MuExclusive'
    BY DEF MuExclusive, MuExact, At, MuHeld, PCs, Modes
  <1>5. ModeOfPC'
    BY DEF ModeOfPC, PCs, Modes
  <1>6. ParkedHasWriter'
    BY DEF ParkedHasWriter, MuExact, MuExclusive, At, MuHeld, PCs, Modes
  <1>7. fault' = "none"
    BY DEF MuExact, At, MuHeld
  <1> QED
    BY <1>1, <1>2, <1>3, <1>4, <1>5, <1>6, <1>7

LEMMA RUnlockCountIntact ==
  ASSUME TypeInv, Intact, NEW p \in Procs, RUnlockCount(p)
  PROVE  Intact'
  <1> USE DEF Intact, TypeInv, TypeOK, RefOK, Inst, Goto, countVars, muVars,
          RUnlockCount, Decremented
  <1>1. UsersMapped'
    BY DEF UsersMapped, Using, PCs
  <1>2. CountsExact'
    BY DEF CountsExact, At, WCounted, RCounted, PCs, Modes, UsersMapped, Using
  <1>3. MuExact'
    BY DEF MuExact, At, MuHeld, PCs, Modes, UsersMapped, Using, ModeOfPC
  <1>4. MuExclusive'
    BY DEF MuExclusive, MuExact, At, MuHeld, PCs, Modes
  <1>5. ModeOfPC'
    BY DEF ModeOfPC, PCs, Modes
  <1>6. ParkedHasWriter'
    BY DEF ParkedHasWriter, MuExact, MuExclusive, At, MuHeld, PCs, Modes
  <1>7. fault' = "none"
    BY DEF MuExact, At, MuHeld
  <1> QED
    BY <1>1, <1>2, <1>3, <1>4, <1>5, <1>6, <1>7

LEMMA RUnlockScheduleIntact ==
  ASSUME TypeInv, Intact, NEW p \in Procs, RUnlockSchedule(p)
  PROVE  Intact'
  <1> USE DEF Intact, TypeInv, TypeOK, RefOK, Inst, Goto, countVars, muVars,
          RUnlockSchedule
  <1>1. UsersMapped'
    BY DEF UsersMapped, Using, PCs
  <1>2. CountsExact'
    BY DEF CountsExact, At, WCounted, RCounted, PCs, Modes, UsersMapped, Using
  <1>3. MuExact'
    BY DEF MuExact, At, MuHeld, PCs, Modes, UsersMapped, Using, ModeOfPC
  <1>4. MuExclusive'
    BY DEF MuExclusive, MuExact, At, MuHeld, PCs, Modes
  <1>5. ModeOfPC'
    BY DEF ModeOfPC, PCs, Modes
  <1>6. ParkedHasWriter'
    BY DEF ParkedHasWriter, MuExact, MuExclusive, At, MuHeld, PCs, Modes
  <1>7. fault' = "none"
    BY DEF MuExact, At, MuHeld
  <1> QED
    BY <1>1, <1>2, <1>3, <1>4, <1>5, <1>6, <1>7

LEMMA CleanupIntact ==
  ASSUME TypeInv, Intact, Cleanup, table' = "intact"
  PROVE  Intact'
  <1>1. mapped = 0 \/ \A p \in Procs : ~Using(p)
    BY DEF Cleanup
  <1>2. \A p \in Procs : ~Using(p)
    BY <1>1 DEF Intact, UsersMapped, Using, TypeInv, TypeOK, RefOK
  <1>3. UsersMapped'
    BY <1>2 DEF Cleanup, UsersMapped, Using
  <1> QED
    BY <1>3 DEF Cleanup, Intact, CountsExact, MuExact, MuExclusive, ModeOfPC,
       ParkedHasWriter, At, countVars, muVars

LEMMA LockStep == LockInv /\ [Next]_vars => LockInv'
  <1> SUFFICES ASSUME LockInv, [Next]_vars, table' = "intact" PROVE Intact'
    BY TypeStep DEF LockInv
  <1>0. TypeInv
    BY DEF LockInv
  <1>1. CASE UNCHANGED vars
    BY <1>1 DEF vars, LockInv, Intact, UsersMapped, Using, CountsExact, MuExact,
       MuExclusive, ModeOfPC, ParkedHasWriter, At
  <1>2. CASE Next
    <2>1. table = "intact"
      BY <1>0, <1>2 DEF Next, Lock, RLock, Unlock, RUnlock, LockGet, LockCount,
         RLockCount, LockAnnounce, LockAcquire, RLockAcquire, UnlockGet,
         UnlockCheck, UnlockMu, RUnlockMu, UnlockCount, RUnlockCount,
         RUnlockSchedule, Cleanup, TypeInv, TypeOK
    <2>2. Intact
      BY <2>1 DEF LockInv
    <2> QED
      BY <1>0, <1>2, <2>2, LockGetIntact, LockCountIntact, RLockCountIntact,
         LockAnnounceIntact, LockAcquireIntact, RLockAcquireIntact,
         UnlockGetIntact, UnlockCheckIntact, UnlockMuIntact, RUnlockMuIntact,
         UnlockCountIntact, RUnlockCountIntact, RUnlockScheduleIntact,
         CleanupIntact
         DEF Next, Lock, RLock, Unlock, RUnlock
  <1> QED
    BY <1>1, <1>2

LEMMA LockInvariant == Spec => []LockInv
  BY LockInit, LockStep, PTL DEF Spec

(* A writer excludes every other holder until a cleanup goroutine deletes  *)
(* a mutex in use: for any number of goroutines, operations and mutexes.   *)
THEOREM Exclusion == Spec => []ExclusiveUntilRemoved
  <1>1. LockInv => ExclusiveUntilRemoved
    <2> SUFFICES ASSUME LockInv, table # "torn" PROVE Exclusive
      BY DEF ExclusiveUntilRemoved
    <2>1. TypeInv /\ Intact
      BY DEF LockInv, TypeInv, TypeOK
    <2> SUFFICES ASSUME NEW p \in Procs, NEW q \in Procs, p # q,
                        Holds(p, "w"), pc[q] = "holding"
                 PROVE  FALSE
      BY DEF Exclusive
    <2>2. ref[p] = mapped /\ ref[q] = mapped
      BY <2>1 DEF Holds, Intact, UsersMapped, Using
    <2>3. mapped \in Inst /\ mode[q] \in Modes
      BY <2>1, <2>2 DEF TypeInv, TypeOK, RefOK, Inst, Holds
    <2>4. writer[mapped] = p
      BY <2>1, <2>2, <2>3 DEF Holds, Intact, MuExact, At, MuHeld
    <2>5. CASE mode[q] = "w"
      BY <2>1, <2>2, <2>3, <2>4, <2>5 DEF Intact, MuExact, At, MuHeld
    <2>6. CASE mode[q] = "r"
      <3>1. q \in readers[mapped]
        BY <2>1, <2>2, <2>3, <2>6 DEF Intact, MuExact, At, MuHeld
      <3>2. p # None
        OBVIOUS
      <3> QED
        BY <2>1, <2>3, <2>4, <3>1, <3>2 DEF Intact, MuExclusive
    <2> QED
      BY <2>3, <2>5, <2>6 DEF Modes
  <1> QED
    BY <1>1, LockInvariant, PTL

(* Until then no unlock finds the mutex unlocked: no fatal error.          *)
THEOREM NoFault == Spec => []NoFaultUntilRemoved
  <1>1. LockInv => NoFaultUntilRemoved
    BY DEF LockInv, TypeInv, TypeOK, NoFaultUntilRemoved, Intact
  <1> QED
    BY <1>1, LockInvariant, PTL

(* Until then the cache manager sees every goroutine that waits or holds.  *)
THEOREM UsersSeen == Spec => []InUseSeen
  <1>1. LockInv => InUseSeen
    <2> SUFFICES ASSUME LockInv, table = "intact", NEW p \in Procs,
                        pc[p] \in {"counted", "pending", "parked", "holding"}
                 PROVE  IsInUse
      BY DEF InUseSeen
    <2>1. TypeInv /\ Intact
      BY DEF LockInv
    <2>2. ref[p] = mapped /\ mapped \in Inst /\ mapped # 0
      <3>1. ref[p] = mapped
        BY <2>1 DEF Intact, UsersMapped, Using
      <3>2. pc[p] # "idle" /\ ref[p] \in 1..alloc /\ alloc \in 0..MaxInst
        BY <2>1 DEF TypeInv, TypeOK, RefOK
      <3> QED
        BY <3>1, <3>2 DEF Inst
    <2>3. mode[p] \in Modes
      BY <2>1 DEF TypeInv, TypeOK
    <2>4. p \in writeCount[mapped] \/ p \in readCount[mapped]
      BY <2>1, <2>2, <2>3 DEF Intact, CountsExact, ModeOfPC, At, WCounted,
         RCounted, Modes
    <2> QED
      BY <2>2, <2>4 DEF IsInUse
  <1> QED
    BY <1>1, LockInvariant, PTL

(* Until then no lock, no counter and no waiting reader is left behind.    *)
THEOREM Quiescence == Spec => [](NothingLeaked /\ NoLostReader)
  <1>1. LockInv => NothingLeaked
    <2> SUFFICES ASSUME LockInv, table = "intact", \A p \in Procs : pc[p] = "idle",
                        NEW i \in Inst
                 PROVE  /\ writeCount[i] = {} /\ readCount[i] = {}
                        /\ announced[i] = None /\ writer[i] = None /\ readers[i] = {}
      BY DEF NothingLeaked
    <2>1. TypeOK /\ CountsExact /\ MuExact
      BY DEF LockInv, TypeInv, Intact
    <2>2. writeCount[i] = {} /\ readCount[i] = {}
      BY <2>1 DEF TypeOK, CountsExact, At, WCounted, RCounted
    <2>3. announced[i] = None /\ writer[i] = None /\ readers[i] = {}
      BY <2>1 DEF TypeOK, MuExact, At, MuHeld
    <2> QED
      BY <2>2, <2>3
  <1>2. LockInv => NoLostReader
    BY DEF LockInv, Intact, ParkedHasWriter, NoLostReader
  <1> QED
    BY <1>1, <1>2, LockInvariant, PTL
-----------------------------------------------------------------------------
(***************************************************************************)
(* Who will schedule the next cleanup.  While the table is intact a mapped *)
(* mutex has a sleeping cleanup goroutine, or somebody between its lookup  *)
(* and the end of its release: whoever leaves as the last one schedules,   *)
(* and whoever leaves without scheduling has seen the count of another.    *)
(***************************************************************************)
Attended == \E p \in Procs : pc[p] # "idle" /\ ref[p] = mapped

CleanupDue == mapped # 0 => timers > 0 \/ Attended

CleanupInv == LockInv /\ (table = "intact" => CleanupDue)

(* A release that goes idle hands the mutex over: it started the cleanup,  *)
(* or another goroutine is counted on the same mutex.                      *)
LEMMA LeaverHandsOver ==
  ASSUME TypeInv, Intact, CleanupDue, NEW p \in Procs,
         UnlockCount(p) \/ RUnlockCount(p) \/ RUnlockSchedule(p)
  PROVE  CleanupDue'
  <1> USE DEF TypeInv, TypeOK, RefOK, Inst, Goto
  <1>a. ref[p] \in Inst /\ mapped' = mapped /\ ref' = ref
    BY DEF UnlockCount, RUnlockCount, RUnlockSchedule
  <1>b. \A q \in Procs : q # p => pc'[q] = pc[q]
    BY DEF UnlockCount, RUnlockCount, RUnlockSchedule
  <1>c. timers' >= timers /\ timers' \in Nat
    BY DEF UnlockCount, RUnlockCount, RUnlockSchedule
  <1>d. \A q \in Procs : q \in writeCount[ref[p]] \/ q \in readCount[ref[p]]
                          => pc[q] # "idle" /\ ref[q] = ref[p]
    BY <1>a DEF Intact, CountsExact, At, WCounted, RCounted
  <1>1. ASSUME NEW q \in Procs, q # p, pc[q] # "idle", ref[q] = mapped
        PROVE  CleanupDue'
    BY <1>1, <1>a, <1>b DEF CleanupDue, Attended
  <1>2. ASSUME NEW q \in Procs, q # p,
               q \in writeCount[ref[p]] \/ q \in readCount[ref[p]]
        PROVE  CleanupDue'
    <2>1. pc[q] # "idle" /\ ref[q] = ref[p]
      BY <1>2, <1>d
    <2>2. CASE mapped = ref[p]
      BY <1>1, <1>2, <2>1, <2>2
    <2>3. CASE mapped # ref[p]
      <3>1. timers > 0 \/ mapped = 0 \/ \E r \in Procs : r # p /\ pc[r] # "idle" /\ ref[r] = mapped
        BY <2>3 DEF CleanupDue, Attended
      <3> QED
        BY <3>1, <1>1, <1>a, <1>c DEF CleanupDue
    <2> QED
      BY <2>2, <2>3
  <1>3. ASSUME timers' > 0 PROVE CleanupDue'
    BY <1>3 DEF CleanupDue
  <1>4. CASE UnlockCount(p)
    <2>1. PICK S \in Decremented(writeCount[ref[p]], p) :
              timers' = IF S = {} THEN timers + 1 ELSE timers
      BY <1>4 DEF UnlockCount
    <2>2. p \in writeCount[ref[p]]
      BY <1>4, <1>a DEF UnlockCount, Intact, CountsExact, At, WCounted
    <2>3. S = writeCount[ref[p]] \ {p}
      BY <2>2 DEF Decremented
    <2>4. CASE S = {}
      BY <1>3, <2>1, <2>4
    <2>5. CASE S # {}
      <3>1. PICK q \in S : TRUE
        BY <2>5
      <3>2. q \in Procs /\ q # p /\ q \in writeCount[ref[p]]
        BY <3>1, <2>3, <1>a
      <3> QED
        BY <3>2, <1>2
    <2> QED
      BY <2>4, <2>5
  <1>5. CASE RUnlockCount(p)
    <2>1. PICK S \in Decremented(readCount[ref[p]], p) :
              pc' = [pc EXCEPT ![p] = IF S = {} THEN "zeroed" ELSE "idle"]
      BY <1>5 DEF RUnlockCount
    <2>2. p \in readCount[ref[p]]
      BY <1>5, <1>a DEF RUnlockCount, Intact, CountsExact, At, RCounted
    <2>3. S = readCount[ref[p]] \ {p}
      BY <2>2 DEF Decremented
    <2>4. CASE S = {}
      <3>1. \A q \in Procs : pc[q] # "idle" => pc'[q] # "idle"
        BY <2>1, <2>4
      <3> QED
        BY <3>1, <1>a, <1>c DEF CleanupDue, Attended
    <2>5. CASE S # {}
      <3>1. PICK q \in S : TRUE
        BY <2>5
      <3>2. q \in Procs /\ q # p /\ q \in readCount[ref[p]]
        BY <3>1, <2>3, <1>a
      <3> QED
        BY <3>2, <1>2
    <2> QED
      BY <2>4, <2>5
  <1>6. CASE RUnlockSchedule(p)
    <2>1. CASE writeCount[ref[p]] = {}
      BY <1>3, <1>6, <2>1 DEF RUnlockSchedule
    <2>2. CASE writeCount[ref[p]] # {}
      <3>1. PICK q \in writeCount[ref[p]] : TRUE
        BY <2>2
      <3>2. q \in Procs /\ q \in writeCount[ref[p]]
        BY <3>1, <1>a
      <3>3. mode[p] = "r" /\ mode[q] = "w"
        BY <1>6, <1>a, <3>2 DEF RUnlockSchedule, Intact, ModeOfPC, CountsExact, At
      <3> QED
        BY <3>2, <3>3, <1>2
    <2> QED
      BY <2>1, <2>2
  <1> QED
    BY <1>4, <1>5, <1>6

LEMMA CleanupStep == CleanupInv /\ [Next]_vars => CleanupInv'
  <1> SUFFICES ASSUME CleanupInv, [Next]_vars, table' = "intact" PROVE CleanupDue'
    BY LockStep DEF CleanupInv
  <1>0. TypeInv
    BY DEF CleanupInv, LockInv
  <1>1. CASE UNCHANGED vars
    BY <1>1 DEF vars, CleanupInv, CleanupDue, Attended
  <1>2. CASE Next
    <2>1. table = "intact"
      BY <1>0, <1>2 DEF Next, Lock, RLock, Unlock, RUnlock, LockGet, LockCount,
         RLockCount, LockAnnounce, LockAcquire, RLockAcquire, UnlockGet,
         UnlockCheck, UnlockMu, RUnlockMu, UnlockCount, RUnlockCount,
         RUnlockSchedule, Cleanup, TypeInv, TypeOK
    <2>2. Intact /\ CleanupDue
      BY <2>1 DEF CleanupInv, LockInv
    <2> USE <1>0, <2>2 DEF TypeInv, TypeOK, RefOK, Goto
    <2>3. ASSUME NEW p \in Procs, NEW m \in Modes, LockGet(p, m) PROVE CleanupDue'
      <3>1. pc'[p] # "idle" /\ ref'[p] = mapped'
        BY <2>3 DEF LockGet, getMutex
      <3> QED
        BY <3>1 DEF CleanupDue, Attended
    <2>4. ASSUME NEW p \in Procs, UnlockGet(p) PROVE CleanupDue'
      <3>1. pc'[p] # "idle" /\ ref'[p] = mapped'
        BY <2>4 DEF UnlockGet, getMutex
      <3> QED
        BY <3>1 DEF CleanupDue, Attended
    <2>5. ASSUME mapped' = mapped, ref' = ref, timers' = timers,
                 \A q \in Procs : pc[q] # "idle" => pc'[q] # "idle"
          PROVE  CleanupDue'
      BY <2>5 DEF CleanupDue, Attended
    <2>6. ASSUME NEW p \in Procs,
                 Lock(p) \/ RLock(p) \/ RUnlockMu(p)
          PROVE  CleanupDue'
      BY <2>5, <2>6 DEF Lock, RLock, LockCount, LockAnnounce, LockAcquire,
         RLockCount, RLockAcquire, RUnlockMu
    <2>7. ASSUME NEW p \in Procs, UnlockMu(p) PROVE CleanupDue'
      <3>1. \A q \in Procs : pc[q] # "idle" => pc'[q] # "idle"
        BY <2>7 DEF UnlockMu
      <3> QED
        BY <2>5, <2>7, <3>1 DEF UnlockMu
    <2>8. ASSUME NEW p \in Procs, UnlockCheck(p) PROVE CleanupDue'
      <3>1. ref[p] \in Inst /\ mode[p] \in Modes
        BY <2>8 DEF UnlockCheck, Inst
      <3>2. /\ mode[p] = "w" => p \in writeCount[ref[p]]
            /\ mode[p] = "r" => p \in readCount[ref[p]]
        BY <2>8, <3>1 DEF UnlockCheck, Intact, CountsExact, At, WCounted, RCounted
      <3>3. pc' = [pc EXCEPT ![p] = "checked"]
        BY <2>8, <3>1, <3>2 DEF UnlockCheck, Modes
      <3> QED
        BY <2>5, <2>8, <3>3 DEF UnlockCheck
    <2>9. ASSUME Cleanup PROVE CleanupDue'
      BY <2>9 DEF Cleanup, CleanupDue
    <2> QED
      BY <1>2, <2>3, <2>4, <2>6, <2>7, <2>8, <2>9, LeaverHandsOver
         DEF Next, Unlock, RUnlock
  <1> QED
    BY <1>1, <1>2

(* Cleanup goroutine: until a mutex in use is deleted the table never      *)
(* keeps a mutex for good: with nobody inside the lock code the key is     *)
(* unmapped or a cleanup that unmaps it sleeps.                            *)
THEOREM EntriesCollected == Spec => []NoEntryForgotten
  <1>1. Init => CleanupInv
    BY LockInit DEF Init, CleanupInv, CleanupDue
  <1>2. CleanupInv => NoEntryForgotten
    BY DEF CleanupInv, CleanupDue, Attended, NoEntryForgotten
  <1> QED
    BY <1>1, <1>2, CleanupStep, PTL DEF Spec

-----------------------------------------------------------------------------
(***************************************************************************)
(* The lock table implements RWLock.  All who use the key have the mapped  *)
(* mutex, so that a writer which finds that one mutex free, or without     *)
(* readers, knows of everybody.  Whoever has looked its mutex up to unlock *)
(* it is out of the lock for its callers, although it is still counted:    *)
(* its mutex may be deleted under it and a new one be locked.              *)
(***************************************************************************)
States == [p \in Procs |-> CallerState(p)]

(* Only a cleanup tears the table, and nothing mends it.                   *)
LEMMA TornForGood ==
  ASSUME TypeInv, Next
  PROVE  table' = table \/ (table = "intact" /\ table' = "torn" /\ Cleanup)
  BY DEF Next, Lock, RLock, Unlock, RUnlock, LockGet, LockCount, RLockCount,
     LockAnnounce, LockAcquire, RLockAcquire, UnlockGet, UnlockCheck, UnlockMu,
     RUnlockMu, UnlockCount, RUnlockCount, RUnlockSchedule, Cleanup, TypeInv, TypeOK

(* What each place in the code is to the callers.                          *)
SeenAs(p) ==
  /\ pc[p] \in {"idle", "relgot", "checked", "unlocked", "zeroed"} => CallerState(p) = "idle"
  /\ pc[p] = "pending" => CallerState(p) = "next"
  /\ pc[p] = "holding" => CallerState(p) = IF mode[p] = "w" THEN "writes" ELSE "reads"
  /\ pc[p] \in {"got", "counted", "parked"}
       => CallerState(p) = IF mode[p] = "w" THEN "wantsWrite" ELSE "wantsRead"

LEMMA StateOfPC ==
  ASSUME NEW p \in Procs
  PROVE  /\ TypeInv /\ table = "intact" => SeenAs(p)
         /\ TypeInv' /\ table' = "intact" => SeenAs(p)'
  <1>1. TypeInv /\ table = "intact" => SeenAs(p)
    BY DEF SeenAs, CallerState, Using, Holds, TypeInv, TypeOK, PCs, Modes
  <1>2. TypeInv' /\ table' = "intact" => SeenAs(p)'
    BY DEF SeenAs, CallerState, Using, Holds, TypeInv, TypeOK, PCs, Modes
  <1> QED
    BY <1>1, <1>2

(* Who is where, of those that the one mutex in use knows.                 *)
LEMMA MutexKnowsAll ==
  ASSUME TypeInv, Intact, table = "intact", NEW p \in Procs, Using(p)
  PROVE  /\ announced[ref[p]] = None /\ writer[ref[p]] = None
               => \A q \in Procs : CallerState(q) \notin {"next", "writes"}
         /\ readers[ref[p]] = {} => \A q \in Procs : CallerState(q) # "reads"
  <1> USE DEF TypeInv, TypeOK, RefOK
  <1>1. ref[p] = mapped /\ ref[p] \in Inst
    BY DEF Intact, UsersMapped, Using, Inst
  <1>2. ASSUME NEW q \in Procs, pc[q] \in {"pending", "holding"}
        PROVE  ref[q] = ref[p] /\ mode[q] \in Modes
    BY <1>1, <1>2 DEF Intact, UsersMapped, Using
  <1>3. ASSUME NEW q \in Procs, announced[ref[p]] = None, writer[ref[p]] = None,
               CallerState(q) \in {"next", "writes"}
        PROVE  FALSE
    <2>1. \/ pc[q] = "pending" /\ mode[q] = "w"
          \/ pc[q] = "holding" /\ mode[q] = "w"
      BY <1>3 DEF CallerState, Using, Holds, PCs, Modes, Intact, ModeOfPC
    <2> QED
      BY <1>1, <1>2, <1>3, <2>1 DEF Intact, MuExact, At, MuHeld
  <1>4. ASSUME NEW q \in Procs, readers[ref[p]] = {}, CallerState(q) = "reads"
        PROVE  FALSE
    <2>1. pc[q] = "holding" /\ mode[q] = "r"
      BY <1>4 DEF CallerState, Using, Holds, PCs, Modes
    <2> QED
      BY <1>1, <1>2, <1>4, <2>1 DEF Intact, MuExact, At, MuHeld
  <1> QED
    BY <1>3, <1>4

(* A step that moves one goroutine moves it alone in the eyes of callers.  *)
LEMMA OneMoves ==
  ASSUME NEW p \in Procs, table' = table,
         \A q \in Procs : q # p => pc'[q] = pc[q] /\ mode'[q] = mode[q]
  PROVE  States' = [States EXCEPT ![p] = CallerState(p)']
  <1>1. \A q \in Procs : q # p => CallerState(q)' = CallerState(q)
    BY DEF CallerState, Using, Holds
  <1> QED
    BY <1>1 DEF States

(* mu.Unlock() lets the readers in that slept on its mutex.  If there are  *)
(* any, the mutex is the mapped one, and nobody else can be its writer.    *)
LEMMA UnlockAdmits ==
  ASSUME TypeInv, TypeInv', Intact, table = "intact", table' = "intact",
         NEW p \in Procs, UnlockMu(p)
  PROVE  Abstract!Next \/ States' = States
  <1> DEFINE woken == {q \in Procs : pc[q] = "parked" /\ ref[q] = ref[p]}
  <1>1. pc[p] = "checked" /\ mode[p] = "w" /\ ref[p] \in Inst /\ mode' = mode
    BY DEF UnlockMu, TypeInv, TypeOK, RefOK, Inst
  <1>2. writer[ref[p]] = p /\ p # None
    BY <1>1 DEF Intact, MuExact, At, MuHeld
  <1>3. pc' = [q \in Procs |-> IF q = p THEN "unlocked"
                               ELSE IF q \in woken THEN "holding" ELSE pc[q]]
    BY <1>2 DEF UnlockMu
  <1>4. \A q \in Procs : SeenAs(q) /\ SeenAs(q)'
    BY StateOfPC
  <1>5. CallerState(p) = "idle" /\ CallerState(p)' = "idle"
    BY <1>1, <1>3, <1>4 DEF SeenAs
  <1>6. \A q \in woken : CallerState(q) = "wantsRead" /\ CallerState(q)' = "reads"
    <2> SUFFICES ASSUME NEW q \in woken
                 PROVE  CallerState(q) = "wantsRead" /\ CallerState(q)' = "reads"
      OBVIOUS
    <2>1. q \in Procs /\ pc[q] = "parked" /\ mode[q] = "r" /\ q # p
      BY <1>1 DEF Intact, ModeOfPC
    <2>2. pc'[q] = "holding" /\ mode'[q] = "r"
      BY <1>1, <1>3, <2>1
    <2> QED
      BY <1>4, <2>1, <2>2 DEF SeenAs
  <1>7. \A q \in Procs : q \notin woken => CallerState(q)' = CallerState(q)
    <2> SUFFICES ASSUME NEW q \in Procs, q \notin woken, q # p
                 PROVE  CallerState(q)' = CallerState(q)
      BY <1>5
    <2>1. pc'[q] = pc[q] /\ mode'[q] = mode[q]
      BY <1>1, <1>3
    <2> QED
      BY <2>1 DEF CallerState, Using, Holds
  <1>8. CASE woken = {}
    BY <1>7, <1>8 DEF States
  <1>9. CASE woken # {}
    <2>1. PICK r \in Procs : pc[r] = "parked" /\ ref[r] = ref[p]
      BY <1>9
    <2>2. ref[p] = mapped
      BY <2>1 DEF Intact, UsersMapped, Using
    <2>3. ASSUME NEW q \in Procs, CallerState(q) \in {"next", "writes"}
          PROVE  FALSE
      <3>1. \/ pc[q] = "pending" /\ mode[q] = "w"
            \/ pc[q] = "holding" /\ mode[q] = "w"
        BY <2>3 DEF CallerState, Using, Holds, PCs, Modes, Intact, ModeOfPC, TypeInv, TypeOK
      <3>2. ref[q] = ref[p]
        BY <2>2, <3>1 DEF Intact, UsersMapped, Using
      <3>3. announced[ref[p]] = q \/ writer[ref[p]] = q
        BY <1>1, <3>1, <3>2 DEF Intact, MuExact, At, MuHeld
      <3>4. announced[ref[p]] = None /\ q # None
        BY <1>1, <1>2 DEF Intact, MuExclusive
      <3> QED
        BY <1>1, <1>2, <3>1, <3>3, <3>4
    <2>4. Abstract!Admit(woken)
      BY <1>6, <1>7, <2>3 DEF Abstract!Admit, Abstract!NoWriter
    <2>5. woken \in SUBSET Procs
      OBVIOUS
    <2> QED
      BY <2>4, <2>5 DEF Abstract!Next
  <1> QED
    BY <1>8, <1>9

LEMMA StepRefines ==
  ASSUME LockInv, LockInv', Next
  PROVE  Abstract!Next \/ States' = States
  <1> DEFINE Go(p, s) == States' = [States EXCEPT ![p] = s]
  <1>0. TypeInv /\ TypeInv'
    BY DEF LockInv
  <1>1. CASE table # "intact"
    <2>1. table = "torn" /\ table' = "torn"
      BY <1>0, <1>1, TornForGood DEF TypeInv, TypeOK
    <2> QED
      BY <2>1 DEF States, CallerState
  <1>2. CASE table = "intact" /\ table' # "intact"
    <2>1. Cleanup /\ table' = "torn" /\ \E p \in Procs : Using(p)
      BY <1>0, <1>2, TornForGood DEF Cleanup
    <2>2. \A p \in Procs : CallerState(p)' = "lost"
      BY <2>1 DEF CallerState
    <2>3. \E p \in Procs : CallerState(p) \notin {"idle", "lost"}
      BY <1>0, <1>2, <2>1, StateOfPC DEF SeenAs, Using, TypeInv, TypeOK, PCs
    <2>4. Abstract!Lose
      BY <2>2, <2>3 DEF Abstract!Lose
    <2> QED
      BY <2>4 DEF Abstract!Next
  <1>3. CASE table = "intact" /\ table' = "intact"
    <2>0. Intact /\ Intact' /\ table' = table
      BY <1>3 DEF LockInv
    <2>a. ASSUME NEW p \in Procs, Go(p, CallerState(p)) PROVE States' = States
      BY <2>a DEF States
    <2>b. \A p \in Procs : SeenAs(p) /\ SeenAs(p)'
      BY <1>0, <1>3, StateOfPC
    <2>1. ASSUME NEW p \in Procs, NEW m \in Modes, LockGet(p, m) PROVE Abstract!Next
      <3>1. Go(p, CallerState(p)')
        BY <1>0, <2>0, <2>1, OneMoves DEF LockGet, Goto, TypeInv, TypeOK
      <3>2. pc[p] = "idle" /\ pc'[p] = "got" /\ mode'[p] = m
        BY <1>0, <2>1 DEF LockGet, Goto, TypeInv, TypeOK
      <3>3. CallerState(p) = "idle"
        BY <2>b, <3>2 DEF SeenAs
      <3>4. CallerState(p)' = IF m = "w" THEN "wantsWrite" ELSE "wantsRead"
        BY <2>b, <3>2 DEF SeenAs
      <3>5. Abstract!Ask(p)
        BY <3>1, <3>3, <3>4 DEF Abstract!Ask, Abstract!Become, States
      <3> QED
        BY <3>5 DEF Abstract!Next
    <2>2. ASSUME NEW p \in Procs, LockCount(p) \/ RLockCount(p) PROVE States' = States
      <3>1. Go(p, CallerState(p)')
        BY <1>0, <2>0, <2>2, OneMoves DEF LockCount, RLockCount, Goto, TypeInv, TypeOK
      <3>2. pc[p] = "got" /\ pc'[p] = "counted" /\ mode'[p] = mode[p]
        BY <1>0, <2>2 DEF LockCount, RLockCount, Goto, TypeInv, TypeOK
      <3> QED
        BY <2>a, <2>b, <3>1, <3>2 DEF SeenAs
    <2>3. ASSUME NEW p \in Procs, LockAnnounce(p) PROVE Abstract!Next
      <3>1. Go(p, CallerState(p)')
        BY <1>0, <2>0, <2>3, OneMoves DEF LockAnnounce, Goto, TypeInv, TypeOK
      <3>2. pc[p] = "counted" /\ mode[p] = "w" /\ pc'[p] = "pending"
        BY <1>0, <2>3 DEF LockAnnounce, Goto, TypeInv, TypeOK
      <3>3. CallerState(p) = "wantsWrite" /\ CallerState(p)' = "next"
        BY <2>b, <3>2 DEF SeenAs
      <3>4. \A q \in Procs : CallerState(q) \notin {"next", "writes"}
        BY <1>0, <1>3, <2>0, <2>3, <3>2, MutexKnowsAll DEF LockAnnounce, Using
      <3>5. Abstract!Announce(p)
        BY <3>1, <3>3, <3>4 DEF Abstract!Announce, Abstract!NoWriter, Abstract!Become, States
      <3> QED
        BY <3>5 DEF Abstract!Next
    <2>4. ASSUME NEW p \in Procs, LockAcquire(p) PROVE Abstract!Next
      <3>1. Go(p, CallerState(p)')
        BY <1>0, <2>0, <2>4, OneMoves DEF LockAcquire, Goto, TypeInv, TypeOK
      <3>2. pc[p] = "pending" /\ mode'[p] = "w" /\ pc'[p] = "holding"
        BY <1>0, <2>0, <2>4 DEF LockAcquire, Goto, TypeInv, TypeOK, Intact, ModeOfPC
      <3>3. CallerState(p) = "next" /\ CallerState(p)' = "writes"
        BY <2>b, <3>2 DEF SeenAs
      <3>4. \A q \in Procs : CallerState(q) # "reads"
        BY <1>0, <1>3, <2>0, <2>4, <3>2, MutexKnowsAll DEF LockAcquire, Using
      <3>5. Abstract!Enter(p)
        BY <3>1, <3>3, <3>4 DEF Abstract!Enter, Abstract!NoReaders, Abstract!Become, States
      <3> QED
        BY <3>5 DEF Abstract!Next
    <2>5. ASSUME NEW p \in Procs, RLockAcquire(p) PROVE Abstract!Next \/ States' = States
      <3>1. Go(p, CallerState(p)')
        BY <1>0, <2>0, <2>5, OneMoves DEF RLockAcquire, Goto, TypeInv, TypeOK
      <3>2. pc[p] = "counted" /\ mode[p] = "r" /\ mode'[p] = "r"
        BY <2>5 DEF RLockAcquire
      <3>3. CallerState(p) = "wantsRead"
        BY <2>b, <3>2 DEF SeenAs
      <3>4. CASE announced[ref[p]] = None /\ writer[ref[p]] = None
        <4>1. pc'[p] = "holding"
          BY <1>0, <2>5, <3>4 DEF RLockAcquire, Goto, TypeInv, TypeOK
        <4>2. CallerState(p)' = "reads"
          BY <2>b, <3>2, <4>1 DEF SeenAs
        <4>3. \A q \in Procs : CallerState(q) \notin {"next", "writes"}
          BY <1>0, <1>3, <2>0, <3>2, <3>4, MutexKnowsAll DEF Using
        <4>4. Abstract!Admit({p})
          BY <3>1, <3>3, <4>2, <4>3 DEF Abstract!Admit, Abstract!NoWriter, States
        <4> QED
          BY <4>4 DEF Abstract!Next
      <3>5. CASE ~(announced[ref[p]] = None /\ writer[ref[p]] = None)
        <4>1. pc'[p] = "parked"
          BY <1>0, <2>5, <3>5 DEF RLockAcquire, Goto, TypeInv, TypeOK
        <4> QED
          BY <2>a, <2>b, <3>1, <3>2, <3>3, <4>1 DEF SeenAs
      <3> QED
        BY <3>4, <3>5
    <2>6. ASSUME NEW p \in Procs, UnlockGet(p) PROVE Abstract!Next
      <3>1. Go(p, CallerState(p)')
        BY <1>0, <2>0, <2>6, OneMoves DEF UnlockGet, Goto, TypeInv, TypeOK
      <3>2. pc[p] = "holding" /\ pc'[p] = "relgot"
        BY <1>0, <2>6 DEF UnlockGet, Goto, TypeInv, TypeOK
      <3>3. CallerState(p) \in {"reads", "writes"} /\ CallerState(p)' = "idle"
        BY <2>b, <3>2 DEF SeenAs
      <3>4. Abstract!Leave(p)
        BY <3>1, <3>3 DEF Abstract!Leave, Abstract!Become, States
      <3> QED
        BY <3>4 DEF Abstract!Next
    <2>7. ASSUME NEW p \in Procs,
                 \/ UnlockCheck(p) \/ UnlockCount(p) \/ RUnlockMu(p)
                 \/ RUnlockCount(p) \/ RUnlockSchedule(p)
          PROVE  States' = States
      <3>1. Go(p, CallerState(p)')
        BY <1>0, <2>0, <2>7, OneMoves DEF UnlockCheck, UnlockCount, RUnlockMu,
           RUnlockCount, RUnlockSchedule, Goto, TypeInv, TypeOK
      <3>2. /\ pc[p] \in {"idle", "relgot", "checked", "unlocked", "zeroed"}
            /\ pc'[p] \in {"idle", "relgot", "checked", "unlocked", "zeroed"}
        BY <1>0, <2>7 DEF UnlockCheck, UnlockCount, RUnlockMu, RUnlockCount,
           RUnlockSchedule, Goto, TypeInv, TypeOK
      <3> QED
        BY <2>a, <2>b, <3>1, <3>2 DEF SeenAs
    <2>8. ASSUME NEW p \in Procs, UnlockMu(p) PROVE Abstract!Next \/ States' = States
      BY <1>0, <1>3, <2>0, <2>8, UnlockAdmits
    <2>9. ASSUME Cleanup PROVE States' = States
      BY <2>0, <2>9 DEF Cleanup, States, CallerState, Using, Holds
    <2> QED
      BY <2>1, <2>2, <2>3, <2>4, <2>5, <2>6, <2>7, <2>8, <2>9
         DEF Next, Lock, RLock, Unlock, RUnlock
  <1> QED
    BY <1>1, <1>2, <1>3

(* cache.go's lock functions refine RWLock: whatever mutexes are created,  *)
(* deleted and created again, the key is one reader-writer lock, until a   *)
(* mutex in use is deleted.                                                *)
THEOREM RefinesRWLock == Spec => ImplementsRWLock
  <1>1. Init => Abstract!Init
    <2> SUFFICES ASSUME Init PROVE Abstract!Init
      OBVIOUS
    <2>1. \A p \in Procs : CallerState(p) = "idle"
      BY TypeInit, StateOfPC DEF Init, SeenAs
    <2> QED
      BY <2>1 DEF Abstract!Init
  <1>2. LockInv /\ LockInv' /\ [Next]_vars => [Abstract!Next]_States
    <2>1. CASE Next
      BY <2>1, StepRefines
    <2>2. CASE UNCHANGED vars
      BY <2>2 DEF vars, States, CallerState, Using, Holds
    <2> QED
      BY <2>1, <2>2
  <1> QED
    BY <1>1, <1>2, LockInvariant, PTL DEF Spec, ImplementsRWLock, Abstract!Spec, States
=============================================================================
