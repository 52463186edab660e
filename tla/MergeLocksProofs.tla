-------------------------- MODULE MergeLocksProofs ---------------------------
(***************************************************************************)
(* The repositories' locks exclude, and a circle of waiting operations is  *)
(* always one of pull requests that lead round in a circle: for any        *)
(* repositories, operations and buffers of events.                         *)
(***************************************************************************)
EXTENDS MergeLocks, TLAPS

(* What an operation locks: nothing, its base, or its base and then a      *)
(* different head.                                                         *)
LEMMA PlanShape ==
  ASSUME NEW o \in Ops
  PROVE  /\ Len(Plan[o]) \in Nat /\ Len(Plan[o]) <= 2
         /\ Len(Plan[o]) > 1 => Len(Plan[o]) = 2
         /\ \A i \in 1..Len(Plan[o]) : Plan[o][i].mode \in {"r", "w"}
         /\ Len(Plan[o]) > 0 => Plan[o][1].repo = BaseRepo[o]
         /\ Len(Plan[o]) = 2 => /\ Plan[o][2].repo = HeadRepo[o]
                                /\ BaseRepo[o] # HeadRepo[o]
  <1> USE DEF W, R
  <1>1. ASSUME Plan[o] = <<>> PROVE Len(Plan[o]) = 0
    BY <1>1
  <1>2. ASSUME NEW x \in {W(BaseRepo[o]), R(BaseRepo[o])}, Plan[o] = <<x>>
        PROVE  /\ Len(Plan[o]) = 1 /\ Plan[o][1].repo = BaseRepo[o]
               /\ \A i \in 1..1 : Plan[o][i].mode \in {"r", "w"}
    BY <1>2
  <1>3. ASSUME NEW x \in {W(BaseRepo[o]), R(BaseRepo[o])},
               NEW y \in {W(HeadRepo[o]), R(HeadRepo[o])}, Plan[o] = <<x, y>>
        PROVE  /\ Len(Plan[o]) = 2 /\ Plan[o][1].repo = BaseRepo[o]
               /\ Plan[o][2].repo = HeadRepo[o]
               /\ \A i \in 1..2 : Plan[o][i].mode \in {"r", "w"}
    BY <1>3
  <1>4. \/ Plan[o] = <<>>
        \/ \E x \in {W(BaseRepo[o]), R(BaseRepo[o])} : Plan[o] = <<x>>
        \/ /\ BaseRepo[o] # HeadRepo[o]
           /\ \E x \in {W(BaseRepo[o]), R(BaseRepo[o])},
                 y \in {W(HeadRepo[o]), R(HeadRepo[o])} : Plan[o] = <<x, y>>
    <2>1. CASE Kind[o] = "merge"
      BY <2>1 DEF Plan
    <2>2. CASE Kind[o] = "view"
      BY <2>2 DEF Plan
    <2>3. CASE Kind[o] = "push"
      BY <2>3 DEF Plan
    <2>4. CASE Kind[o] = "other"
      BY <2>4 DEF Plan
    <2> QED
      BY <2>1, <2>2, <2>3, <2>4, ConstantsAssumption
  <1> HIDE DEF W, R
  <1>5. CASE Plan[o] = <<>>
    BY <1>1, <1>5
  <1>6. CASE \E x \in {W(BaseRepo[o]), R(BaseRepo[o])} : Plan[o] = <<x>>
    BY <1>2, <1>6
  <1>7. CASE /\ BaseRepo[o] # HeadRepo[o]
             /\ \E x \in {W(BaseRepo[o]), R(BaseRepo[o])},
                   y \in {W(HeadRepo[o]), R(HeadRepo[o])} : Plan[o] = <<x, y>>
    BY <1>3, <1>7
  <1> QED
    BY <1>4, <1>5, <1>6, <1>7

-----------------------------------------------------------------------------
(***************************************************************************)
(* The inductive invariant.  An operation that waits is running and has    *)
(* locks left to take, writers queue and readers sleep; the events of      *)
(* buffers not read yet have not begun, so that reading one disturbs no    *)
(* waiter; a repository has one writer at most, counting the one that has  *)
(* announced itself and waits for the readers to leave.                    *)
(***************************************************************************)
Shape ==
    /\ pc \in [Ops -> {"new", "queued", "running", "ending", "done"}]
    /\ held \in [Ops -> 0..2]
    /\ wait \in [Ops -> {"no", "queued", "announced", "parked"}]
    /\ buffer \in Buffers \cup {0}
    /\ \A o \in Ops : held[o] <= Len(Plan[o])

Waiters ==
    \A o \in Ops :
        /\ wait[o] # "no" => pc[o] = "running" /\ held[o] < Len(Plan[o])
        /\ wait[o] \in {"queued", "announced"} => Wanted(o).mode = "w"
        /\ wait[o] = "parked" => Wanted(o).mode = "r"

Stages ==
    \A o \in Ops : /\ pc[o] = "ending" => held[o] > 0
                   /\ Buffer[o] > buffer => pc[o] = "new"

OneWriter ==
    \A r \in Repos, o, q \in Ops :
        /\ Holds(o, r, {"w"}) \/ Waits(o, r, "announced")
        /\ Holds(q, r, {"w"}) \/ Waits(q, r, "announced")
        => o = q

WriterAlone ==
    \A r \in Repos, o, q \in Ops :
        Holds(o, r, {"w"}) /\ Holds(q, r, {"r", "w"}) => o = q

Inv == Shape /\ Waiters /\ Stages /\ OneWriter /\ WriterAlone

-----------------------------------------------------------------------------
(* The cases of an operation that has a lock left to take, or one to give   *)
(* back.                                                                   *)
LEMMA PlanLeft ==
  ASSUME Shape, NEW o \in Ops, held[o] < Len(Plan[o])
  PROVE  /\ held[o] \in 0..1 /\ held[o] + 1 \in 0..2
         /\ held[o] + 1 <= Len(Plan[o]) /\ Wanted(o).mode \in {"r", "w"}
         /\ held[o] > 0 => /\ held[o] = 1 /\ Len(Plan[o]) = 2
                           /\ Plan[o][1].repo = BaseRepo[o]
                           /\ Wanted(o).repo = HeadRepo[o]
                           /\ BaseRepo[o] # HeadRepo[o]
  <1>1. Len(Plan[o]) \in Nat /\ Len(Plan[o]) <= 2 /\ held[o] \in 0..2
    BY PlanShape DEF Shape
  <1>2. held[o] \in 0..1 /\ held[o] + 1 \in 1..Len(Plan[o])
    BY <1>1
  <1>3. Wanted(o).mode \in {"r", "w"}
    BY <1>2, PlanShape DEF Wanted
  <1>4. ASSUME held[o] > 0 PROVE held[o] = 1 /\ Len(Plan[o]) = 2
    <2>1. held[o] = 1 /\ Len(Plan[o]) > 1
      BY <1>1, <1>2, <1>4
    <2> QED
      BY <2>1, PlanShape
  <1>5. ASSUME held[o] > 0
        PROVE  /\ Plan[o][1].repo = BaseRepo[o] /\ Plan[o][2].repo = HeadRepo[o]
               /\ BaseRepo[o] # HeadRepo[o]
    BY <1>4, <1>5, PlanShape
  <1> QED
    BY <1>1, <1>2, <1>3, <1>4, <1>5 DEF Wanted

(* What one more lock, or one less, changes.                               *)
LEMMA HoldsSame ==
  ASSUME NEW o \in Ops, held'[o] = held[o]
  PROVE  /\ \A r, m : Holds(o, r, m)' <=> Holds(o, r, m)
         /\ Wanted(o)' = Wanted(o)
  BY DEF Holds, Wanted

LEMMA HoldsMore ==
  ASSUME Shape, NEW o \in Ops, held'[o] = held[o] + 1, NEW r, NEW m
  PROVE  Holds(o, r, m)' <=> \/ Holds(o, r, m)
                             \/ Wanted(o).repo = r /\ Wanted(o).mode \in m
  <1>1. held[o] \in Nat
    BY DEF Shape
  <1>2. \A i : i \in 1..(held[o] + 1) <=> i \in 1..held[o] \/ i = held[o] + 1
    BY <1>1
  <1> QED
    BY <1>2 DEF Holds, Wanted

LEMMA HoldsLess ==
  ASSUME Shape, NEW o \in Ops, held[o] > 0, held'[o] = held[o] - 1,
         NEW r, NEW m
  PROVE  /\ Holds(o, r, m)' => Holds(o, r, m) /\ r # Plan[o][held[o]].repo
         /\ Plan[o][held[o]].mode \in m => Holds(o, Plan[o][held[o]].repo, m)
  <1>1. held[o] \in {1, 2} /\ held[o] <= Len(Plan[o]) /\ Len(Plan[o]) \in Nat /\ Len(Plan[o]) <= 2
    BY PlanShape DEF Shape
  <1>2. CASE held[o] = 1
    BY <1>2 DEF Holds
  <1>3. CASE held[o] = 2
    <2>1. Len(Plan[o]) > 0 /\ Len(Plan[o]) > 1
      BY <1>1, <1>3
    <2>2. Plan[o][1].repo # Plan[o][2].repo
      BY <2>1, PlanShape
    <2> QED
      BY <1>3, <2>2 DEF Holds
  <1> QED
    BY <1>1, <1>2, <1>3

-----------------------------------------------------------------------------
(* The steps.  Starting, finishing and reading a buffer touch no lock.     *)
LEMMA LocksUntouched ==
  ASSUME Inv, UNCHANGED <<held, wait>>, Shape', Stages',
         \A o \in Ops : pc[o] = "running" /\ wait[o] # "no" => pc'[o] = "running"
  PROVE  Inv'
  BY DEF Inv, Waiters, OneWriter, WriterAlone, Holds, Waits, Wanted

LEMMA TakeBufferStep ==
  ASSUME Inv, TakeBuffer PROVE Inv'
  <1>1. PICK b \in Buffers :
            /\ buffer < b /\ buffer' = b
            /\ pc' = [o \in Ops |-> IF Buffer[o] = b THEN "queued" ELSE pc[o]]
    BY DEF TakeBuffer
  <1>2. b \in Nat /\ buffer \in Nat /\ \A o \in Ops : Buffer[o] \in Nat
    BY ConstantsAssumption DEF Inv, Shape, Buffers
  <1>3. Shape' /\ UNCHANGED <<held, wait>>
    BY <1>1 DEF Inv, Shape, TakeBuffer
  <1>4. \A o \in Ops : Buffer[o] = b => pc[o] = "new"
    BY <1>1, <1>2 DEF Inv, Stages
  <1>5. Stages'
    BY <1>1, <1>2, <1>3 DEF Inv, Stages, Shape
  <1>6. \A o \in Ops : pc[o] = "running" => pc'[o] = "running"
    BY <1>1, <1>4
  <1> QED
    BY <1>3, <1>5, <1>6, LocksUntouched

LEMMA StartStep ==
  ASSUME Inv, NEW o \in Ops, Start(o) PROVE Inv'
  <1>1. /\ pc[o] \in {"new", "queued"} /\ UNCHANGED <<held, wait, buffer>>
        /\ \E l \in {"running", "done"} : pc' = [pc EXCEPT ![o] = l]
        /\ Buffer[o] = 0 \/ pc[o] = "queued"
    BY DEF Start
  <1>2. Shape'
    BY <1>1 DEF Inv, Shape
  <1>3. Stages'
    <2>1. buffer \in Nat /\ Buffer[o] \in Nat
      BY ConstantsAssumption DEF Inv, Shape, Buffers
    <2>2. ~(Buffer[o] > buffer)
      BY <1>1, <2>1 DEF Inv, Stages
    <2>3. pc'[o] # "ending" /\ \A q \in Ops : q # o => pc'[q] = pc[q]
      BY <1>1 DEF Inv, Shape
    <2> QED
      BY <1>1, <2>2, <2>3 DEF Inv, Stages
  <1>4. \A q \in Ops : pc[q] = "running" => pc'[q] = "running"
    BY <1>1 DEF Inv, Shape
  <1> QED
    BY <1>1, <1>2, <1>3, <1>4, LocksUntouched

LEMMA FinishStep ==
  ASSUME Inv, NEW o \in Ops, Finish(o) PROVE Inv'
  <1>1. /\ pc[o] = "running" /\ wait[o] = "no" /\ UNCHANGED <<held, wait, buffer>>
        /\ pc' = [pc EXCEPT ![o] = IF held[o] = 0 THEN "done" ELSE "ending"]
    BY DEF Finish
  <1>2. Shape'
    BY <1>1 DEF Inv, Shape
  <1>3. Stages'
    BY <1>1 DEF Inv, Stages, Shape
  <1>4. \A q \in Ops : pc[q] = "running" /\ wait[q] # "no" => pc'[q] = "running"
    BY <1>1 DEF Inv, Shape
  <1> QED
    BY <1>1, <1>2, <1>3, <1>4, LocksUntouched

LEMMA LockStep ==
  ASSUME Inv, NEW o \in Ops, Lock(o) PROVE Inv'
  <1> USE DEF Inv
  <1>1. /\ pc[o] = "running" /\ wait[o] = "no" /\ held[o] < Len(Plan[o])
        /\ UNCHANGED <<pc, buffer>>
    BY DEF Lock
  <1>2. /\ Wanted(o).mode \in {"r", "w"}
        /\ held[o] + 1 \in 0..2 /\ held[o] + 1 <= Len(Plan[o])
    BY <1>1, PlanLeft
  <1>3. ASSUME NEW h \in {"queued", "parked"}, wait' = [wait EXCEPT ![o] = h],
               held' = held, h = "queued" <=> Wanted(o).mode = "w"
        PROVE  Inv'
    <2>1. Shape' /\ Stages'
      BY <1>1, <1>3 DEF Shape, Stages
    <2>2. \A q \in Ops : Wanted(q)' = Wanted(q) /\ \A r, m : Holds(q, r, m)' <=> Holds(q, r, m)
      BY <1>3, HoldsSame
    <2>3. Waiters'
      BY <1>1, <1>2, <1>3, <2>2 DEF Waiters, Shape
    <2>4. \A q \in Ops, r \in Repos : Waits(q, r, "announced")' => Waits(q, r, "announced")
      BY <1>3, <2>2 DEF Waits, Shape
    <2>5. OneWriter' /\ WriterAlone'
      BY <2>2, <2>4 DEF OneWriter, WriterAlone
    <2> QED
      BY <2>1, <2>3, <2>5
  <1>4. CASE Wanted(o).mode = "w"
    BY <1>3, <1>4 DEF Lock
  <1>5. CASE Wanted(o).mode # "w" /\ HasWriter(Wanted(o).repo)
    BY <1>3, <1>5 DEF Lock
  <1>6. CASE Wanted(o).mode # "w" /\ ~HasWriter(Wanted(o).repo)
    <2>1. held' = [held EXCEPT ![o] = @ + 1] /\ wait' = wait
      BY <1>6 DEF Lock
    <2>2. held'[o] = held[o] + 1 /\ \A q \in Ops : q # o => held'[q] = held[q]
      BY <2>1 DEF Shape
    <2>3. Shape' /\ Stages'
      BY <1>1, <1>2, <2>1 DEF Shape, Stages
    <2>4. \A q \in Ops \ {o} : Wanted(q)' = Wanted(q)
                               /\ \A r, m : Holds(q, r, m)' <=> Holds(q, r, m)
      BY <2>2, HoldsSame
    <2>5. \A r, m : Holds(o, r, m)' <=> \/ Holds(o, r, m)
                                        \/ Wanted(o).repo = r /\ Wanted(o).mode \in m
      BY <2>2, HoldsMore
    <2>6. Waiters'
      BY <1>1, <2>1, <2>2, <2>4 DEF Waiters
    <2>7. \A q \in Ops, r \in Repos :
              /\ Holds(q, r, {"w"})' <=> Holds(q, r, {"w"})
              /\ Waits(q, r, "announced")' <=> Waits(q, r, "announced")
      BY <1>1, <1>6, <2>1, <2>4, <2>5 DEF Waits
    <2>8. OneWriter'
      BY <2>7 DEF OneWriter
    <2>9. WriterAlone'
      BY <1>6, <2>4, <2>5, <2>7 DEF WriterAlone, HasWriter
    <2> QED
      BY <2>3, <2>6, <2>8, <2>9
  <1> QED
    BY <1>4, <1>5, <1>6

LEMMA AnnounceStep ==
  ASSUME Inv, NEW o \in Ops, Announce(o) PROVE Inv'
  <1> USE DEF Inv
  <1>1. /\ wait[o] = "queued" /\ ~HasWriter(Wanted(o).repo)
        /\ wait' = [wait EXCEPT ![o] = "announced"] /\ UNCHANGED <<pc, held, buffer>>
    BY DEF Announce
  <1>2. Shape' /\ Stages'
    BY <1>1 DEF Shape, Stages
  <1>3. \A q \in Ops : Wanted(q)' = Wanted(q) /\ \A r, m : Holds(q, r, m)' <=> Holds(q, r, m)
    BY <1>1, HoldsSame
  <1>4. Waiters'
    BY <1>1, <1>3 DEF Waiters, Shape
  <1>5. \A q \in Ops, r \in Repos :
            Waits(q, r, "announced")' => \/ Waits(q, r, "announced")
                                         \/ q = o /\ r = Wanted(o).repo
    BY <1>1, <1>3 DEF Waits, Shape
  <1>6. \A q \in Ops : /\ ~Holds(q, Wanted(o).repo, {"w"})
                       /\ ~Waits(q, Wanted(o).repo, "announced")
    BY <1>1 DEF HasWriter
  <1>7. OneWriter'
    BY <1>3, <1>5, <1>6 DEF OneWriter
  <1>8. WriterAlone'
    BY <1>3 DEF WriterAlone
  <1> QED
    BY <1>2, <1>4, <1>7, <1>8

LEMMA EnterStep ==
  ASSUME Inv, NEW o \in Ops, Enter(o) PROVE Inv'
  <1> USE DEF Inv
  <1>1. /\ wait[o] = "announced" /\ UNCHANGED <<pc, buffer>>
        /\ \A q \in Ops : ~Holds(q, Wanted(o).repo, {"r", "w"})
        /\ held' = [held EXCEPT ![o] = @ + 1] /\ wait' = [wait EXCEPT ![o] = "no"]
    BY DEF Enter
  <1>2. held[o] < Len(Plan[o]) /\ Wanted(o).mode = "w"
    BY <1>1 DEF Waiters
  <1>3. held'[o] = held[o] + 1 /\ \A q \in Ops : q # o => held'[q] = held[q]
    BY <1>1 DEF Shape
  <1>4. Shape' /\ Stages'
    <2>1. held[o] + 1 \in 0..2 /\ held[o] + 1 <= Len(Plan[o])
      BY <1>2, PlanLeft
    <2> QED
      BY <1>1, <2>1 DEF Shape, Stages
  <1>5. \A q \in Ops \ {o} : /\ Wanted(q)' = Wanted(q) /\ wait'[q] = wait[q]
                             /\ \A r, m : Holds(q, r, m)' <=> Holds(q, r, m)
    BY <1>1, <1>3, HoldsSame DEF Shape
  <1>6. \A r, m : Holds(o, r, m)' <=> \/ Holds(o, r, m)
                                      \/ Wanted(o).repo = r /\ Wanted(o).mode \in m
    BY <1>3, HoldsMore
  <1>7. Waiters'
    BY <1>1, <1>3, <1>5 DEF Waiters, Shape
  <1>8. \A q \in Ops, r \in Repos :
            Holds(q, r, {"w"})' \/ Waits(q, r, "announced")' =>
                Holds(q, r, {"w"}) \/ Waits(q, r, "announced")
    <2>1. wait'[o] = "no"
      BY <1>1 DEF Shape
    <2> QED
      BY <1>1, <1>5, <1>6, <2>1 DEF Waits
  <1>9. OneWriter'
    BY <1>8 DEF OneWriter
  <1>10. WriterAlone'
    <2> SUFFICES ASSUME NEW r \in Repos, NEW p \in Ops, NEW q \in Ops,
                        Holds(p, r, {"w"})', Holds(q, r, {"r", "w"})'
                 PROVE  p = q
      BY DEF WriterAlone
    <2>1. CASE r = Wanted(o).repo
      <3>1. \A x \in Ops : ~Holds(x, r, {"r", "w"}) /\ ~Holds(x, r, {"w"})
        BY <1>1, <2>1 DEF Holds
      <3> QED
        BY <1>5, <3>1
    <2>2. CASE r # Wanted(o).repo
      <3>1. Holds(p, r, {"w"}) /\ Holds(q, r, {"r", "w"})
        BY <1>5, <1>6, <2>2
      <3> QED
        BY <3>1 DEF WriterAlone
    <2> QED
      BY <2>1, <2>2
  <1> QED
    BY <1>4, <1>7, <1>9, <1>10

(* The writer that leaves was alone, so the readers it lets in meet no     *)
(* other.                                                                  *)
LEMMA UnlockStep ==
  ASSUME Inv, NEW o \in Ops, Unlock(o) PROVE Inv'
  <1> USE DEF Inv
  <1> DEFINE l == Plan[o][held[o]]
             in == {q \in Ops : l.mode = "w" /\ Waits(q, l.repo, "parked")}
  <1>1. /\ pc[o] = "ending" /\ buffer' = buffer
        /\ held' = [q \in Ops |-> IF q = o THEN held[q] - 1
                                  ELSE IF q \in in THEN held[q] + 1 ELSE held[q]]
        /\ wait' = [q \in Ops |-> IF q \in in THEN "no" ELSE wait[q]]
        /\ pc' = [pc EXCEPT ![o] = IF held[o] = 1 THEN "done" ELSE "ending"]
    BY DEF Unlock
  <1>2. held[o] > 0 /\ wait[o] = "no" /\ held[o] \in 0..2
    BY <1>1 DEF Stages, Waiters, Shape
  <1>3. o \notin in /\ in \subseteq Ops
    BY <1>2 DEF Waits
  <1>4. \A q \in in : /\ l.mode = "w" /\ wait[q] = "parked" /\ Wanted(q).repo = l.repo
                      /\ Wanted(q).mode = "r" /\ held[q] < Len(Plan[q])
    BY DEF Waits, Waiters
  <1> HIDE DEF in, l
  <1>5. /\ held'[o] = held[o] - 1
        /\ \A q \in in : held'[q] = held[q] + 1 /\ wait'[q] = "no"
        /\ \A q \in Ops \ in : wait'[q] = wait[q] /\ (q # o => held'[q] = held[q])
    BY <1>1, <1>3
  <1>6. Shape'
    <2>1. \A q \in Ops : held'[q] \in 0..2 /\ held'[q] <= Len(Plan[q])
      <3> TAKE q \in Ops
      <3>1. Len(Plan[q]) \in Nat /\ Len(Plan[q]) <= 2 /\ held[q] \in 0..2 /\ held[q] <= Len(Plan[q])
        BY PlanShape DEF Shape
      <3>2. CASE q = o
        BY <1>2, <1>5, <3>1, <3>2
      <3>3. CASE q \in in
        BY <1>4, <1>5, <3>3, PlanLeft
      <3>4. CASE q # o /\ q \notin in
        BY <1>5, <3>1, <3>4
      <3> QED
        BY <3>2, <3>3, <3>4
    <2>2. held' \in [Ops -> 0..2]
      BY <1>1, <2>1
    <2> QED
      BY <1>1, <2>1, <2>2 DEF Shape
  <1>7. Stages'
    BY <1>1, <1>2, <1>3, <1>4, <1>5 DEF Stages, Shape, Waiters
  <1>8. \A q \in Ops \ in : q # o => /\ Wanted(q)' = Wanted(q)
                                     /\ \A r, m : Holds(q, r, m)' <=> Holds(q, r, m)
    BY <1>5, HoldsSame
  <1>9. \A q \in in : \A r, m :
            Holds(q, r, m)' <=> Holds(q, r, m) \/ (l.repo = r /\ "r" \in m)
    BY <1>3, <1>4, <1>5, HoldsMore
  <1>10. \A r, m : Holds(o, r, m)' => Holds(o, r, m) /\ r # l.repo
    BY <1>2, <1>5, HoldsLess DEF l
  <1>11. Waiters'
    BY <1>1, <1>2, <1>5, <1>8 DEF Waiters, Shape
  <1>12. \A q \in Ops, r \in Repos :
            /\ Holds(q, r, {"w"})' => Holds(q, r, {"w"})
            /\ Waits(q, r, "announced")' => Waits(q, r, "announced")
    <2> TAKE q \in Ops, r \in Repos
    <2>1. CASE q = o
      BY <1>2, <1>3, <1>5, <1>10, <2>1 DEF Waits
    <2>2. CASE q \in in
      BY <1>5, <1>9, <2>2 DEF Waits
    <2>3. CASE q # o /\ q \notin in
      BY <1>5, <1>8, <2>3 DEF Waits
    <2> QED
      BY <2>1, <2>2, <2>3
  <1>13. OneWriter'
    BY <1>12 DEF OneWriter
  <1>14. WriterAlone'
    <2> SUFFICES ASSUME NEW r \in Repos, NEW p \in Ops, NEW q \in Ops,
                        Holds(p, r, {"w"})', Holds(q, r, {"r", "w"})'
                 PROVE  p = q
      BY DEF WriterAlone
    <2>1. Holds(p, r, {"w"})
      BY <1>12
    <2>2. CASE Holds(q, r, {"r", "w"})
      BY <2>1, <2>2 DEF WriterAlone
    <2>3. CASE ~Holds(q, r, {"r", "w"})
      <3>1. q \in in /\ r = l.repo
        BY <1>8, <1>9, <1>10, <2>3
      <3>2. Holds(o, r, {"w"})
        BY <1>2, <1>4, <1>5, <3>1, HoldsLess DEF l
      <3>3. p = o
        BY <2>1, <3>2 DEF OneWriter
      <3> QED
        BY <1>10, <3>1, <3>3
    <2> QED
      BY <2>2, <2>3
  <1> QED
    BY <1>6, <1>7, <1>11, <1>13, <1>14

LEMMA InvInit == Init => Inv
  <1> SUFFICES ASSUME Init PROVE Inv
    OBVIOUS
  <1>1. \A o \in Ops : Len(Plan[o]) \in Nat
    BY PlanShape
  <1>2. Shape /\ Waiters /\ Stages
    BY <1>1 DEF Init, Shape, Waiters, Stages
  <1>3. OneWriter /\ WriterAlone
    BY DEF Init, OneWriter, WriterAlone, Holds, Waits
  <1> QED
    BY <1>2, <1>3 DEF Inv

LEMMA InvStep == Inv /\ [Next]_vars => Inv'
  <1> SUFFICES ASSUME Inv, [Next]_vars PROVE Inv'
    OBVIOUS
  <1>1. CASE UNCHANGED vars
    BY <1>1 DEF vars, Inv, Shape, Waiters, Stages, OneWriter, WriterAlone, Holds,
       Waits, Wanted
  <1> QED
    BY <1>1, TakeBufferStep, StartStep, LockStep, AnnounceStep, EnterStep,
       FinishStep, UnlockStep DEF Next, Step

LEMMA Invariant == Spec => []Inv
  BY InvInit, InvStep, PTL DEF Spec

(* sync.RWMutex as the handlers use it: a repository with a writer has no  *)
(* other holder, and an operation waits only while it has locks left to    *)
(* take.                                                                   *)
THEOREM LocksExclude == Spec => []TypeOK
  <1>1. ASSUME Inv PROVE TypeOK
    <2>1. \A o \in Ops : held[o] \in 0..Len(Plan[o])
      BY <1>1, PlanShape DEF Inv, Shape
    <2> QED
      BY <1>1, <2>1 DEF Inv, Shape, Waiters, WriterAlone, TypeOK
  <1> QED
    BY <1>1, Invariant, PTL

-----------------------------------------------------------------------------
(* Whoever waits, in a set whose members all wait for each other, waits    *)
(* for a repository that another member holds as its base while it asks    *)
(* for its head.                                                           *)
LEMMA SomeoneHolds ==
  ASSUME Inv, NEW S \in SUBSET {o \in Ops : wait[o] # "no"},
         \A o \in S : \E q \in S : WaitsFor(o, q), NEW o \in S
  PROVE  \E q \in S : /\ held[q] = 1 /\ Len(Plan[q]) = 2
                      /\ BaseRepo[q] = Wanted(o).repo
  <1>1. ASSUME NEW q \in S, NEW r, Holds(q, r, {"r", "w"})
        PROVE  held[q] = 1 /\ Len(Plan[q]) = 2 /\ BaseRepo[q] = r
    <2>1. q \in Ops /\ held[q] < Len(Plan[q]) /\ held[q] \in 0..2
      BY DEF Inv, Waiters, Shape
    <2>2. PICK i \in 1..held[q] : Plan[q][i].repo = r
      BY <1>1 DEF Holds
    <2>3. held[q] > 0
      BY <2>1, <2>2
    <2>4. held[q] = 1 /\ Len(Plan[q]) = 2 /\ Plan[q][1].repo = BaseRepo[q]
      BY <2>1, <2>3, PlanLeft DEF Inv
    <2> QED
      BY <2>2, <2>4
  <1>2. \A q \in S : \A r : Holds(q, r, {"w"}) => Holds(q, r, {"r", "w"})
    BY DEF Holds
  <1>3. PICK q \in S : WaitsFor(o, q)
    OBVIOUS
  <1>4. CASE Holds(q, Wanted(o).repo, {"r", "w"})
    BY <1>1, <1>4
  <1>5. CASE Waits(q, Wanted(o).repo, "announced")
    <2>1. PICK p \in S : WaitsFor(q, p)
      OBVIOUS
    <2>2. Holds(p, Wanted(o).repo, {"r", "w"})
      BY <1>5, <2>1 DEF WaitsFor, Waits
    <2> QED
      BY <1>1, <2>2
  <1> QED
    BY <1>2, <1>3, <1>4, <1>5 DEF WaitsFor

(* Merges, views, pushes and browsing handlers, in any number, over any    *)
(* repositories: when operations wait for each other for ever, the pull    *)
(* requests of those that hold one lock lead round in a circle.            *)
THEOREM DeadlockNeedsCircle == Spec => []CircularWaitIsOpposed
  <1>1. ASSUME Inv PROVE CircularWaitIsOpposed
    <2> SUFFICES ASSUME NEW S \in SUBSET {o \in Ops : wait[o] # "no"}, S # {},
                        \A o \in S : \E q \in S : WaitsFor(o, q)
                 PROVE  Circular({o \in S : held[o] = 1})
      BY DEF CircularWaitIsOpposed
    <2> DEFINE T == {o \in S : held[o] = 1}
               Q == {BaseRepo[o] : o \in T}
    <2>1. \A o \in S : \E q \in T : BaseRepo[q] = Wanted(o).repo
      BY <1>1, SomeoneHolds
    <2>2. Q # {} /\ Q \in SUBSET Repos
      <3>1. PICK o \in S : TRUE
        OBVIOUS
      <3>2. PICK q \in T : TRUE
        BY <2>1, <3>1
      <3>3. BaseRepo[q] \in Q
        BY <3>2
      <3>4. \A x \in T : BaseRepo[x] \in Repos
        BY ConstantsAssumption
      <3> QED
        BY <3>3, <3>4
    <2>3. ASSUME NEW o \in T
          PROVE  HeadRepo[o] \in Q \ {BaseRepo[o]} /\ Len(Plan[o]) = 2
      <3>1. o \in Ops /\ held[o] = 1 /\ 1 < Len(Plan[o])
        BY <1>1 DEF Inv, Waiters
      <3>2. /\ Len(Plan[o]) = 2 /\ Wanted(o).repo = HeadRepo[o]
            /\ BaseRepo[o] # HeadRepo[o]
        BY <1>1, <3>1, PlanLeft DEF Inv
      <3> QED
        BY <2>1, <3>2
    <2>4. \A r \in Q : \E o \in T : /\ BaseRepo[o] = r /\ HeadRepo[o] \in Q \ {r}
                                    /\ Len(Plan[o]) = 2
      BY <2>3
    <2> QED
      BY <2>2, <2>4 DEF Circular
  <1> QED
    BY <1>1, Invariant, PTL
=============================================================================
