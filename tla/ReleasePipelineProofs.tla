------------------------- MODULE ReleasePipelineProofs -------------------------
(***************************************************************************)
(* Proofs about ReleasePipeline, for every set of runs, number of attempts *)
(* and degree of overlap.                                                  *)
(***************************************************************************)
EXTENDS ReleasePipeline, FiniteSetTheorems, TLAPS

(* The ledger keeps every reservation and its floor does not go back.      *)
Grows ==
    /\ \A q \in Runs : ledger.plans[q] # None => ledger'.plans[q] = ledger.plans[q]
    /\ ledger'.floor >= ledger.floor

(* What a run is doing is not touched.                                     *)
Untouched(r) ==
    /\ pc'[r] = pc[r]
    /\ request'[r] = request[r]
    /\ seen'[r] = seen[r]
    /\ package'[r] = package[r]

(* A plan in the ledger is known by being one.                             *)
LEMMA PlanIsSome ==
  ASSUME TypeOK, NEW r \in Runs, package[r] # None
  PROVE  /\ package[r] \in Package
         /\ package[r].plan \in Plan
         /\ package[r].plan # None
         /\ Number(r) \in Nat
  BY ConstantsAssumption DEF TypeOK, Package, Plan, Number

(* The steps of one run leave the decisions of the others valid: the       *)
(* ledger only grows, and a conflict is found when they write.             *)
LEMMA OthersKeep ==
  ASSUME IInv, TypeOK', NEW r \in Runs, Grows, Untouched(r)
  PROVE  Decided(r)' /\ Reserved(r)'
<1> USE DEF IInv, Untouched
<1>1. Decided(r) /\ Reserved(r)
  BY DEF UniqueNumbers
<1>2. ledger.floor \in Nat /\ ledger'.floor \in Nat
  BY DEF TypeOK, Ledger
<1>3. Promotes(r)' = Promotes(r) /\ Number(r)' = Number(r)
  BY DEF Promotes, Number
<1>4. LedgerSound(seen[r])' <=> LedgerSound(seen[r])
  BY DEF LedgerSound
<1>5. CASE package[r] = None
  BY <1>1, <1>3, <1>4, <1>5 DEF Decided, Reserved, Publishing, Grows, TypeOK
<1>6. CASE package[r] # None
  <2>1. package[r].plan # None /\ Number(r) \in Nat
    BY <1>6, PlanIsSome
  <2>2. Holds(r, ledger) => Holds(r, ledger)'
    BY <1>3, <2>1 DEF Holds, Grows
  <2>3. Reserved(r)'
    BY <1>1, <2>2 DEF Reserved
  <2>4. Holds(r, seen[r])' <=> Holds(r, seen[r])
    BY <1>3 DEF Holds
  <2>5. NextNumber(seen[r])' = NextNumber(seen[r])
    BY DEF NextNumber
  <2>6. Number(r) <= ledger.floor => Number(r)' <= ledger'.floor
    BY <1>2, <1>3, <2>1 DEF Grows
  <2>7. Decided(r)'
    BY <1>1, <1>3, <1>4, <2>4, <2>5, <2>6 DEF Decided, Grows
  <2> QED
    BY <2>3, <2>7
<1> QED
  BY <1>5, <1>6

LEMMA NewLedgerSound == LedgerSound(NewLedger) /\ NewLedger \in Ledger
  BY DEF LedgerSound, NewLedger, Ledger

LEMMA InitIInv == Init => IInv
<1> SUFFICES ASSUME Init PROVE IInv
  OBVIOUS
<1> USE ConstantsAssumption DEF Init
<1>1. TypeOK
  BY NewLedgerSound DEF TypeOK, Release, Points, Ended
<1>2. UniqueNumbers
  BY NewLedgerSound DEF UniqueNumbers, Reserved, Publishing
<1>3. PublishedConsumed
  BY DEF PublishedConsumed, Published, NewLedger
<1>4. \A r \in Runs : Decided(r)
  BY NewLedgerSound DEF Decided
<1>5. Known
  BY DEF Known
<1> QED
  BY <1>1, <1>2, <1>3, <1>4, <1>5 DEF IInv

(* A step of run r keeps the invariant if the ledger only grows and r's    *)
(* own decision is sound.                                                  *)
LEMMA OneRun ==
  ASSUME IInv, TypeOK', NEW r \in Runs, Grows,
         \A q \in Runs \ {r} : Untouched(q),
         LedgerSound(ledger)', PublishedConsumed', Known',
         Decided(r)', Reserved(r)'
  PROVE  IInv'
<1>1. \A q \in Runs : Decided(q)' /\ Reserved(q)'
  BY OthersKeep
<1> QED
  BY <1>1 DEF IInv, UniqueNumbers

(* Most steps change neither the ledger nor a release.                     *)
LEMMA QuietRun ==
  ASSUME IInv, TypeOK', NEW r \in Runs, UNCHANGED <<ledger, released, highest>>,
         \A q \in Runs \ {r} : Untouched(q),
         Decided(r)', Reserved(r)'
  PROVE  IInv'
<1>1. Grows
  BY DEF Grows, IInv, TypeOK, Ledger
<1>2. LedgerSound(ledger)'
  BY DEF IInv, UniqueNumbers, LedgerSound
<1>3. PublishedConsumed' /\ Known'
  BY DEF IInv, PublishedConsumed, Published, Known
<1> QED
  BY <1>1, <1>2, <1>3, OneRun

(* A run that starts, goes on or is asked to repeat knows what it knew.    *)
LEMMA MoveSteps ==
  ASSUME IInv, NEW r \in Runs,
         \/ Start(r) \/ Rerun(r) \/ Prepare(r) \/ CreateBranch(r) \/ Check(r) \/ StoreEvidence(r)
  PROVE  IInv'
<1> USE DEF Start, Rerun, Prepare, CreateBranch, Check, StoreEvidence, Goto
<1>0. TypeOK /\ Decided(r) /\ Reserved(r) /\ LedgerSound(seen[r])
  BY DEF IInv, Decided, UniqueNumbers
<1>1. TypeOK'
  <2>1. pc' \in [Runs -> Points]
    BY <1>0 DEF TypeOK, Points, Ended, Publishing
  <2>2. attempt' \in [Runs -> Nat]
    <3>1. attempt' = attempt \/ attempt' = [attempt EXCEPT ![r] = @ + 1]
      OBVIOUS
    <3> QED
      BY <1>0, <3>1 DEF TypeOK
  <2>4. branch' \in BOOLEAN
    <3>1. branch' = branch \/ branch' = TRUE
      OBVIOUS
    <3> QED
      BY <1>0, <3>1 DEF TypeOK
  <2>3. UNCHANGED <<parallel, ledger, released, request, seen, package, highest>>
    OBVIOUS
  <2> QED
    BY <1>0, <2>1, <2>2, <2>3, <2>4 DEF TypeOK
<1>2. \A q \in Runs \ {r} : Untouched(q)
  BY <1>0 DEF TypeOK, Untouched
<1>3. /\ UNCHANGED <<ledger, released, highest, request, seen, package>>
      /\ \/ pc[r] = "queued" /\ pc'[r] = IF Promotes(r) THEN "promote" ELSE "prepare"
         \/ pc[r] \in {"failed", "unpublished", "success"} /\ pc'[r] = "queued"
         \/ pc[r] = "unpublished" /\ pc'[r] = "requeued"
         \/ pc[r] = "prepare" /\ pc'[r] = "read"
         \/ pc[r] = "branch" /\ pc'[r] = "write"
         \/ pc[r] = "check" /\ pc'[r] = "begin"
         \/ pc[r] = "evidence" /\ pc'[r] = "success"
  BY <1>0 DEF TypeOK
<1>4. LedgerSound(seen[r])'
  BY <1>0, <1>3 DEF LedgerSound
<1>5. Promotes(r)' = Promotes(r) /\ Number(r)' = Number(r)
  BY <1>3 DEF Promotes, Number
<1>6. NextNumber(seen[r])' = NextNumber(seen[r]) /\ (Holds(r, ledger)' <=> Holds(r, ledger))
  BY <1>3, <1>5 DEF NextNumber, Holds
<1>7. Decided(r)'
  BY <1>0, <1>3, <1>4, <1>5, <1>6 DEF Decided
<1>8. Reserved(r)'
  BY <1>0, <1>3, <1>6 DEF Reserved, Publishing
<1> QED
  BY <1>1, <1>2, <1>3, <1>7, <1>8, QuietRun

(* A run that fails forgets all but the fact that it has a plan.           *)
LEMMA FailStep ==
  ASSUME IInv, NEW r \in Runs, Fail(r)
  PROVE  IInv'
<1> USE DEF Fail, Goto, Forget
<1>0. TypeOK /\ Decided(r) /\ Reserved(r)
  BY DEF IInv, UniqueNumbers
<1>1. TypeOK'
  BY <1>0, NewLedgerSound DEF TypeOK, Points, Ended
<1>2. \A q \in Runs \ {r} : Untouched(q)
  BY <1>0 DEF TypeOK, Untouched
<1>3. /\ UNCHANGED <<ledger, released, highest, request>>
      /\ seen'[r] = NewLedger
      /\ pc'[r] = IF pc[r] \in Publishing /\ ~Promotes(r) THEN "unpublished" ELSE "failed"
      /\ pc[r] # "none"
  BY <1>0 DEF TypeOK, Active, Ended
<1>4. Promotes(r)' = Promotes(r)
  BY <1>3 DEF Promotes
<1>5. LedgerSound(seen[r])'
  BY <1>3, NewLedgerSound DEF LedgerSound, NewLedger
<1>6. pc[r] \in Publishing /\ ~Promotes(r) => ledger.plans[r] # None
  BY <1>0, PlanIsSome DEF Decided, Reserved, Holds, Publishing
<1>7. Decided(r)' /\ Reserved(r)'
  BY <1>0, <1>3, <1>4, <1>5, <1>6 DEF Decided, Reserved, Publishing
<1> QED
  BY <1>1, <1>2, <1>3, <1>7, QuietRun

LEMMA DispatchStep ==
  ASSUME IInv, NEW r \in Runs, Dispatch(r)
  PROVE  IInv'
<1>0. TypeOK /\ Decided(r) /\ LedgerSound(seen[r])
  BY DEF IInv, Decided
<1>1. PICK asked \in Request : request' = [request EXCEPT ![r] = asked]
  <2>1. CASE \E b \in Bases, c \in Builds :
            request' = [request EXCEPT ![r] =
                [promote |-> FALSE, tag |-> [base |-> b, channel |-> c, seq |-> 0]]]
    BY <2>1 DEF Request, Tag
  <2>2. CASE \E t \in Published : t.channel = "rc" /\
            request' = [request EXCEPT ![r] = [promote |-> TRUE, tag |-> t]]
    BY <1>0, <2>2 DEF Request, Published, TypeOK
  <2> QED
    BY <2>1, <2>2 DEF Dispatch
<1>2. asked # None
  BY ConstantsAssumption
<1>3. TypeOK'
  BY <1>0, <1>1 DEF Dispatch, Goto, TypeOK, Points, Ended
<1>4. \A q \in Runs \ {r} : Untouched(q)
  BY <1>0, <1>1 DEF Dispatch, Goto, TypeOK, Untouched
<1>5. pc'[r] = "queued" /\ request'[r] = asked
  BY <1>0, <1>1 DEF Dispatch, Goto, TypeOK
<1>6. LedgerSound(seen[r])'
  BY <1>0 DEF Dispatch, LedgerSound
<1>7. Decided(r)' /\ Reserved(r)'
  BY <1>2, <1>5, <1>6 DEF Decided, Reserved, Publishing
<1> QED
  BY <1>3, <1>4, <1>7, QuietRun DEF Dispatch

(* A rerun of the jobs after prepare takes the plan the ledger has.        *)
LEMMA RestartStep ==
  ASSUME IInv, NEW r \in Runs, Restart(r)
  PROVE  IInv'
<1> USE DEF Restart, Goto
<1>0. TypeOK /\ Decided(r) /\ LedgerSound(seen[r])
  BY DEF IInv, Decided
<1> DEFINE built == Built(r, ledger.plans[r])
<1>1. /\ ledger.plans[r] \in Plan /\ ~Promotes(r)
      /\ built \in Package /\ built # None
  BY <1>0, ConstantsAssumption DEF Decided, TypeOK, Ledger, Built, Package
<1>2. TypeOK'
  BY <1>0, <1>1 DEF TypeOK, Points, Publishing
<1>3. \A q \in Runs \ {r} : Untouched(q)
  BY <1>0 DEF TypeOK, Untouched
<1>4. /\ UNCHANGED <<ledger, released, highest, request, seen>>
      /\ pc'[r] = "check" /\ package'[r] = built
      /\ pc[r] = "requeued"
  BY <1>0 DEF TypeOK
<1>5. ~Promotes(r)' /\ Holds(r, ledger)'
  BY <1>1, <1>4 DEF Promotes, Holds, Built
<1>6. Decided(r)' /\ Reserved(r)'
  BY <1>0, <1>1, <1>4, <1>5 DEF Decided, Reserved, LedgerSound
<1> QED
  BY <1>2, <1>3, <1>4, <1>6, QuietRun

(* A run reads the ledger: it finds its plan there, or remembers that it   *)
(* has none yet.                                                           *)
LEMMA ReserveReadStep ==
  ASSUME IInv, NEW r \in Runs, ReserveRead(r)
  PROVE  IInv'
<1> USE DEF ReserveRead, Goto
<1>0. TypeOK /\ Decided(r) /\ LedgerSound(seen[r]) /\ LedgerSound(ledger)
  BY DEF IInv, Decided, UniqueNumbers
<1>1. /\ \A q \in Runs \ {r} : Untouched(q)
      /\ UNCHANGED <<ledger, released, highest, request>>
      /\ ~Promotes(r)
  BY <1>0 DEF TypeOK, Untouched, Decided
<1>2. ~Promotes(r)' /\ request'[r] # None
  BY <1>0, <1>1 DEF Promotes, Decided
<1>3. CASE ledger.plans[r] # None
  <2> DEFINE built == Built(r, ledger.plans[r])
  <2>1. ledger.plans[r] \in Plan /\ built \in Package /\ built # None
    BY <1>0, <1>3, ConstantsAssumption DEF TypeOK, Ledger, Built, Package
  <2>2. pc'[r] = "check" /\ package'[r] = built /\ seen'[r] = seen[r]
    BY <1>0, <1>3 DEF TypeOK
  <2>3. TypeOK'
    BY <1>0, <1>3, <2>1 DEF TypeOK, Points, Publishing
  <2>4. Holds(r, ledger)'
    BY <1>1, <1>2, <2>2 DEF Holds, Built
  <2>5. Decided(r)' /\ Reserved(r)'
    BY <1>0, <1>2, <2>1, <2>2, <2>4 DEF Decided, Reserved, LedgerSound
  <2> QED
    BY <1>1, <2>3, <2>5, QuietRun
<1>4. CASE ledger.plans[r] = None
  <2>1. pc'[r] = "allocate" /\ seen'[r] = ledger
    BY <1>0, <1>4 DEF TypeOK
  <2>2. TypeOK'
    BY <1>0, <1>4 DEF TypeOK, Points
  <2>3. Decided(r)' /\ Reserved(r)'
    BY <1>0, <1>2, <1>4, <2>1 DEF Decided, Reserved, LedgerSound, Publishing
  <2> QED
    BY <1>1, <2>2, <2>3, QuietRun
<1> QED
  BY <1>3, <1>4

(* A new plan has the number after the counter that was read.              *)
LEMMA AllocateStep ==
  ASSUME IInv, NEW r \in Runs, Allocate(r)
  PROVE  IInv'
<1> USE DEF Allocate, Goto
<1>0. TypeOK /\ Decided(r) /\ LedgerSound(seen[r])
  BY DEF IInv, Decided
<1>1. /\ request[r] \in Request /\ ~Promotes(r)
      /\ seen[r] \in Ledger /\ NextNumber(seen[r]) \in Nat
  BY <1>0, ConstantsAssumption DEF Decided, TypeOK, NextNumber, Ledger
<1>2. PICK n \in Sequences(r) :
        package' = [package EXCEPT ![r] =
            Built(r, [number |-> NextNumber(seen[r]), tag |-> [request[r].tag EXCEPT !.seq = n]])]
  OBVIOUS
<1>3. n \in Nat \union Runs
  BY DEF Sequences
<1> DEFINE built ==
       Built(r, [number |-> NextNumber(seen[r]), tag |-> [request[r].tag EXCEPT !.seq = n]])
<1>4. [request[r].tag EXCEPT !.seq = n] \in Tag
  BY <1>1, <1>3 DEF Request, Tag
<1>5. built \in Package /\ built # None /\ built.plan.number = NextNumber(seen[r])
  BY <1>0, <1>1, <1>4, ConstantsAssumption DEF Built, Package, Plan, TypeOK
<1>6. TypeOK'
  BY <1>0, <1>2, <1>5 DEF TypeOK, Points
<1>7. \A q \in Runs \ {r} : Untouched(q)
  BY <1>0, <1>2 DEF TypeOK, Untouched
<1>8. /\ UNCHANGED <<ledger, released, highest, request, seen>>
      /\ pc'[r] = "branch" /\ package'[r] = built /\ pc[r] = "allocate"
  BY <1>0, <1>2 DEF TypeOK
<1>9. ~Promotes(r)' /\ Number(r)' = NextNumber(seen[r])'
  BY <1>1, <1>5, <1>8 DEF Promotes, Number, NextNumber
<1>10. Decided(r)' /\ Reserved(r)'
  BY <1>0, <1>5, <1>8, <1>9 DEF Decided, Reserved, LedgerSound, Publishing
<1> QED
  BY <1>6, <1>7, <1>8, <1>10, QuietRun

(* A promotion takes the package of its candidate, whose plan is in the    *)
(* ledger.                                                                 *)
LEMMA PromoteCheckStep ==
  ASSUME IInv, NEW r \in Runs, PromoteCheck(r)
  PROVE  IInv'
<1> USE DEF PromoteCheck, Goto
<1>0. TypeOK /\ Decided(r) /\ LedgerSound(seen[r]) /\ Promotes(r) /\ Known
  BY DEF IInv, Decided
<1> DEFINE candidate == released[request[r].tag].package
<1>1. candidate \in Package /\ candidate # None
  BY <1>0 DEF Published, TypeOK, Release, Known
<1>2. \E q \in Runs : ledger.plans[q] = candidate.plan
  BY DEF PromotionInOrder
<1>3. TypeOK'
  BY <1>0, <1>1 DEF TypeOK, Points, Publishing
<1>4. \A q \in Runs \ {r} : Untouched(q)
  BY <1>0 DEF TypeOK, Untouched
<1>5. /\ UNCHANGED <<ledger, released, highest, request, seen>>
      /\ pc'[r] = "begin" /\ package'[r] = candidate /\ pc[r] = "promote"
  BY <1>0 DEF TypeOK
<1>6. Promotes(r)' /\ Holds(r, ledger)'
  BY <1>0, <1>2, <1>5 DEF Promotes, Holds
<1>7. Decided(r)' /\ Reserved(r)'
  BY <1>0, <1>1, <1>5, <1>6 DEF Decided, Reserved, LedgerSound
<1> QED
  BY <1>3, <1>4, <1>5, <1>7, QuietRun

(* The last look at the ledger before the floor moves: a build is above    *)
(* the floor, a promotion not below it.                                    *)
LEMMA BeginReadStep ==
  ASSUME IInv, NEW r \in Runs, BeginRead(r)
  PROVE  IInv'
<1> USE DEF BeginRead, Goto
<1>0. TypeOK /\ Decided(r) /\ Reserved(r) /\ LedgerSound(ledger)
  BY DEF IInv, UniqueNumbers
<1>1. package[r] # None /\ Number(r) \in Nat /\ ledger.floor \in Nat
  BY <1>0, PlanIsSome DEF Decided, TypeOK, Ledger
<1>2. Holds(r, ledger)
  BY <1>0 DEF Reserved, Publishing
<1>3. Number(r) >= ledger.floor
  <2>1. CASE Promotes(r)
    BY <2>1 DEF PromotionInOrder, Number
  <2>2. CASE ~Promotes(r)
    BY <1>1, <2>2 DEF ReservationHolds
  <2> QED
    BY <2>1, <2>2
<1>4. TypeOK'
  BY <1>0 DEF TypeOK, Points, Publishing
<1>5. \A q \in Runs \ {r} : Untouched(q)
  BY <1>0 DEF TypeOK, Untouched
<1>6. /\ UNCHANGED <<ledger, released, highest, request, package>>
      /\ pc'[r] = "consume" /\ seen'[r] = ledger /\ pc[r] = "begin"
  BY <1>0 DEF TypeOK
<1>7. Number(r)' = Number(r) /\ Promotes(r)' = Promotes(r)
  BY <1>6 DEF Number, Promotes
<1>8. Holds(r, ledger)' /\ Holds(r, seen[r])'
  BY <1>2, <1>6, <1>7 DEF Holds
<1>9. Decided(r)' /\ Reserved(r)'
  BY <1>0, <1>1, <1>3, <1>6, <1>7, <1>8 DEF Decided, Reserved, LedgerSound
<1> QED
  BY <1>4, <1>5, <1>6, <1>9, QuietRun

(* A reservation is written only over the ledger it was computed from, so  *)
(* its number is new.                                                      *)
LEMMA ReserveWriteStep ==
  ASSUME IInv, NEW r \in Runs, ReserveWrite(r)
  PROVE  /\ IInv'
         /\ ledger.plans[r] = None
         /\ ledger'.plans = [ledger.plans EXCEPT ![r] = package[r].plan]
         /\ ledger'.counter = Number(r) /\ ledger'.counter > ledger.counter
         /\ ledger'.floor = ledger.floor
         /\ package[r].plan # None
<1> USE DEF ReserveWrite, Write, Goto
<1>0. TypeOK /\ Decided(r) /\ LedgerSound(ledger) /\ ~Promotes(r) /\ Known
  BY DEF IInv, UniqueNumbers, Decided
<1>1. /\ package[r] # None /\ package[r] \in Package
      /\ package[r].plan \in Plan /\ package[r].plan # None
      /\ Number(r) \in Nat /\ ledger.plans[r] = None
      /\ Number(r) = NextNumber(ledger)
  BY <1>0, PlanIsSome DEF Decided
<1>2. /\ ledger \in Ledger /\ ledger.counter \in Nat /\ ledger.floor \in Nat
      /\ ledger.plans \in [Runs -> Plan \union {None}]
  BY <1>0 DEF TypeOK, Ledger
<1>3. Number(r) > ledger.counter
  BY <1>1, <1>2, ConstantsAssumption DEF NextNumber
<1>4. /\ ledger' = [ledger EXCEPT !.file = TRUE, !.counter = Number(r), !.plans[r] = package[r].plan]
      /\ ledger' \in Ledger
  BY <1>1, <1>2 DEF Ledger
<1>5. /\ ledger'.file = TRUE /\ ledger'.counter = Number(r) /\ ledger'.floor = ledger.floor
      /\ ledger'.plans = [ledger.plans EXCEPT ![r] = package[r].plan]
  BY <1>2, <1>4 DEF Ledger
<1>6. TypeOK'
  BY <1>0, <1>4, NewLedgerSound DEF TypeOK, Points, Publishing
<1>7. \A q \in Runs \ {r} : Untouched(q)
  BY <1>0 DEF TypeOK, Untouched
<1>8. /\ UNCHANGED <<released, highest, request, package>>
      /\ pc'[r] = "check" /\ seen'[r] = NewLedger /\ pc[r] = "write"
  BY <1>0 DEF TypeOK
<1>9. Grows
  BY <1>1, <1>2, <1>5 DEF Grows
<1>10. LedgerSound(ledger)'
  <2>1. ledger'.floor <= ledger'.counter
    BY <1>0, <1>1, <1>2, <1>3, <1>5 DEF LedgerSound
  <2>2. package[r].plan.number = Number(r)
    BY DEF Number
  <2>3. \A q \in Runs : ledger'.plans[q] # None =>
          \/ q = r /\ ledger'.plans[q].number = Number(r)
          \/ q # r /\ ledger'.plans[q] = ledger.plans[q] /\ ledger.plans[q].number \in 1..ledger.counter
    BY <1>0, <1>2, <1>5, <2>2 DEF LedgerSound
  <2>4. \A q \in Runs : ledger'.plans[q] # None => ledger'.plans[q].number \in 1..ledger'.counter
    BY <1>1, <1>2, <1>3, <1>5, <2>3
  <2>5. \A p, q \in Runs : p # q /\ ledger'.plans[p] # None /\ ledger'.plans[q] # None
          => ledger'.plans[p].number # ledger'.plans[q].number
    BY <1>0, <1>1, <1>2, <1>3, <2>3 DEF LedgerSound
  <2> QED
    BY <1>5, <2>1, <2>4, <2>5 DEF LedgerSound
<1>11. PublishedConsumed' /\ Known'
  BY <1>0, <1>5, <1>8 DEF PublishedConsumed, Published, Known, IInv
<1>12. ~Promotes(r)' /\ Holds(r, ledger)' /\ ledger'.plans[r] # None
  BY <1>0, <1>1, <1>2, <1>5, <1>8 DEF Promotes, Holds
<1>13. LedgerSound(seen[r])'
  BY <1>8, NewLedgerSound DEF LedgerSound, NewLedger
<1>14. Decided(r)' /\ Reserved(r)'
  BY <1>0, <1>1, <1>8, <1>12, <1>13 DEF Decided, Reserved
<1>15. IInv'
  BY <1>6, <1>7, <1>9, <1>10, <1>11, <1>14, OneRun
<1> QED
  BY <1>1, <1>3, <1>5, <1>15

(* The floor moves up to a number of the ledger that it is written over.   *)
LEMMA BeginWriteStep ==
  ASSUME IInv, NEW r \in Runs, BeginWrite(r)
  PROVE  /\ IInv'
         /\ \E q \in Runs : ledger.plans[q] # None /\ ledger.plans[q].number = Number(r)
         /\ Number(r) \in Nat /\ Number(r) >= ledger.floor
         /\ ledger'.floor = Number(r)
         /\ ledger'.plans = ledger.plans /\ ledger'.counter = ledger.counter
<1> USE DEF BeginWrite, Write, Goto
<1>0. TypeOK /\ Decided(r) /\ LedgerSound(ledger) /\ Known
  BY DEF IInv, UniqueNumbers
<1>1. /\ package[r] # None /\ package[r].plan # None
      /\ Number(r) \in Nat /\ Number(r) >= ledger.floor
      /\ Holds(r, ledger) /\ request[r] # None
  BY <1>0, PlanIsSome DEF Decided
<1>2. ledger \in Ledger /\ ledger.counter \in Nat /\ ledger.floor \in Nat
  BY <1>0 DEF TypeOK, Ledger
<1>3. PICK q \in Runs : ledger.plans[q] = package[r].plan
  BY <1>1 DEF Holds
<1>4. ledger.plans[q] # None /\ ledger.plans[q].number = Number(r)
  BY <1>1, <1>3 DEF Number
<1>5. Number(r) \in 1..ledger.counter
  BY <1>0, <1>4 DEF LedgerSound
<1>6. ledger' = [ledger EXCEPT !.floor = Number(r)] /\ ledger' \in Ledger
  BY <1>1, <1>2 DEF Ledger
<1>7. /\ ledger'.file = ledger.file /\ ledger'.counter = ledger.counter
      /\ ledger'.plans = ledger.plans /\ ledger'.floor = Number(r)
  BY <1>2, <1>6 DEF Ledger
<1>8. TypeOK'
  BY <1>0, <1>6, NewLedgerSound DEF TypeOK, Points, Publishing
<1>9. \A p \in Runs \ {r} : Untouched(p)
  BY <1>0 DEF TypeOK, Untouched
<1>10. /\ UNCHANGED <<released, highest, request, package>>
       /\ pc'[r] = "tag" /\ seen'[r] = NewLedger /\ pc[r] = "consume"
  BY <1>0 DEF TypeOK
<1>11. Grows
  BY <1>1, <1>7 DEF Grows
<1>12. ledger.file
  BY <1>0, <1>4 DEF LedgerSound, NewLedger
<1>13. LedgerSound(ledger)'
  BY <1>0, <1>2, <1>5, <1>7, <1>12 DEF LedgerSound
<1>14. PublishedConsumed' /\ Known'
  <2>1. Known'
    BY <1>0, <1>10 DEF Known
  <2>2. highest' <= ledger'.floor
    BY <1>0, <1>1, <1>2, <1>7, <1>10 DEF PublishedConsumed, IInv, TypeOK
  <2>3. \A t \in Published : released[t].package.plan.number \in Nat
    BY <1>0 DEF Published, Known, TypeOK, Release, Package, Plan
  <2>4. \A t \in Published' : released'[t].package.plan.number <= ledger'.floor
    BY <1>1, <1>2, <1>7, <1>10, <2>3 DEF PublishedConsumed, IInv, Published
  <2> QED
    BY <2>1, <2>2, <2>4 DEF PublishedConsumed
<1>15. Number(r)' = Number(r) /\ Promotes(r)' = Promotes(r)
  BY <1>10 DEF Number, Promotes
<1>16. Holds(r, ledger)'
  BY <1>1, <1>7, <1>10, <1>15 DEF Holds
<1>17. LedgerSound(seen[r])'
  BY <1>10, NewLedgerSound DEF LedgerSound, NewLedger
<1>18. Decided(r)' /\ Reserved(r)'
  BY <1>1, <1>7, <1>10, <1>15, <1>16, <1>17 DEF Decided, Reserved
<1>19. IInv'
  BY <1>8, <1>9, <1>11, <1>13, <1>14, <1>18, OneRun
<1> QED
  BY <1>1, <1>4, <1>7, <1>19

(* What publication writes under a tag is the package that the run has,    *)
(* with a number that is consumed.                                         *)
LEMMA ReleaseSet ==
  ASSUME TypeOK, Known, PublishedConsumed, NEW r \in Runs, package[r] # None,
         NEW state \in {"tag", "draft", "public"},
         SetRelease(TagOf(r), state, package[r]),
         request[r] # None, Number(r) <= ledger.floor, UNCHANGED ledger
  PROVE  /\ DOMAIN released' \subseteq Tag
         /\ \A t \in DOMAIN released' : released'[t] \in Release
         /\ Known'
         /\ \A t \in Published' : released'[t].package.plan.number <= ledger'.floor
<1>1. package[r] \in Package /\ Number(r) \in Nat
  BY PlanIsSome
<1>2. TagOf(r) \in Tag
  BY <1>1 DEF TagOf, StableTag, TypeOK, Request, Tag, Package, Plan
<1>3. /\ DOMAIN released' = DOMAIN released \union {TagOf(r)}
      /\ \A t \in DOMAIN released' :
           \/ t = TagOf(r) /\ released'[t] = [state |-> state, package |-> package[r]]
           \/ t \in DOMAIN released /\ released'[t] = released[t]
  BY DEF SetRelease
<1>4. [state |-> state, package |-> package[r]] \in Release
  BY <1>1 DEF Release
<1>5. \A t \in DOMAIN released' : released'[t] \in Release
  BY <1>3, <1>4 DEF TypeOK
<1>6. Known'
  BY <1>3 DEF Known
<1>7. \A t \in Published' : released'[t].package.plan.number <= ledger'.floor
  BY <1>3 DEF PublishedConsumed, Published, Number
<1> QED
  BY <1>2, <1>3, <1>5, <1>6, <1>7 DEF TypeOK

LEMMA PublishStep ==
  ASSUME IInv, NEW r \in Runs, PublishTag(r) \/ PublishDraft(r) \/ PublishAssets(r)
  PROVE  IInv'
<1> USE DEF PublishTag, PublishDraft, PublishAssets, Goto, Forget
<1>0. TypeOK /\ Decided(r) /\ Reserved(r) /\ LedgerSound(ledger) /\ Known /\ PublishedConsumed
  BY DEF IInv, UniqueNumbers
<1>1. /\ package[r] # None /\ package[r].plan # None /\ request[r] # None
      /\ Number(r) \in Nat /\ Number(r) <= ledger.floor
      /\ Holds(r, ledger) /\ LedgerSound(seen[r])
      /\ UNCHANGED <<parallel, ledger, branch, request, attempt>>
  BY <1>0, PlanIsSome DEF Decided, Reserved, Publishing
<1>2. PICK state \in {"tag", "draft", "public"} : SetRelease(TagOf(r), state, package[r])
  OBVIOUS
<1>3. /\ DOMAIN released' \subseteq Tag
      /\ \A t \in DOMAIN released' : released'[t] \in Release
      /\ Known'
      /\ \A t \in Published' : released'[t].package.plan.number <= ledger'.floor
  BY <1>0, <1>1, <1>2, ReleaseSet
<1>4. highest' = highest \/ highest' = Number(r)
  OBVIOUS
<1>5. highest' \in Nat /\ highest' <= ledger'.floor
  BY <1>0, <1>1, <1>4 DEF TypeOK, PublishedConsumed
<1>6. PublishedConsumed'
  BY <1>3, <1>5 DEF PublishedConsumed
<1>7. pc' \in [Runs -> Points]
  BY <1>0 DEF TypeOK, Points, Publishing, Ended
<1>8. seen' \in [Runs -> Ledger] /\ package' \in [Runs -> Package \union {None}]
  BY <1>0, NewLedgerSound DEF TypeOK
<1>9. TypeOK'
  BY <1>0, <1>1, <1>3, <1>5, <1>7, <1>8 DEF TypeOK
<1>10. \A q \in Runs \ {r} : Untouched(q)
  BY <1>0 DEF TypeOK, Untouched
<1>11. Grows
  BY <1>0, <1>1 DEF Grows, TypeOK, Ledger
<1>12. LedgerSound(ledger)'
  BY <1>0, <1>1 DEF LedgerSound
<1>13. \/ /\ pc'[r] \in {"draft", "assets"} /\ seen'[r] = seen[r] /\ package'[r] = package[r]
       \/ pc'[r] = (IF Promotes(r) THEN "success" ELSE "evidence") /\ seen'[r] = NewLedger
  BY <1>0 DEF TypeOK
<1>14. Number(r)' = Number(r) \/ pc'[r] \in {"success", "evidence"}
  BY <1>13 DEF Number
<1>15. LedgerSound(seen[r])'
  BY <1>1, <1>13, NewLedgerSound DEF LedgerSound, NewLedger
<1>16. Promotes(r)' = Promotes(r) /\ (~Promotes(r) => ledger'.plans[r] # None)
  BY <1>1 DEF Promotes, Holds
<1>17. pc'[r] \in {"draft", "assets"} => Holds(r, ledger)'
  BY <1>1, <1>13, <1>16 DEF Holds
<1>18. Decided(r)' /\ Reserved(r)'
  BY <1>1, <1>13, <1>14, <1>15, <1>16, <1>17 DEF Decided, Reserved, Publishing
<1> QED
  BY <1>3, <1>6, <1>9, <1>10, <1>11, <1>12, <1>18, OneRun

LEMMA DeleteStep ==
  ASSUME IInv, NEW t \in DOMAIN released, DeleteRelease(t)
  PROVE  IInv'
<1> USE DEF DeleteRelease, runVars
<1>0. TypeOK /\ LedgerSound(ledger) /\ Known /\ PublishedConsumed
  BY DEF IInv, UniqueNumbers
<1>1. /\ DOMAIN released' = DOMAIN released
      /\ released[t].state = "public"
      /\ released'[t] = [state |-> "deleted", package |-> released[t].package]
      /\ \A u \in DOMAIN released \ {t} : released'[u] = released[u]
  BY DEF SetRelease, Published
<1>2. \A u \in DOMAIN released : released'[u] \in Release
  BY <1>0, <1>1 DEF TypeOK, Release
<1>3. TypeOK'
  BY <1>0, <1>1, <1>2 DEF TypeOK
<1>4. Known' /\ PublishedConsumed'
  BY <1>0, <1>1 DEF Known, PublishedConsumed, Published
<1>5. Grows /\ LedgerSound(ledger)'
  BY <1>0 DEF Grows, TypeOK, Ledger, LedgerSound
<1>6. \A r \in Runs : Decided(r)' /\ Reserved(r)'
  BY <1>3, <1>5, OthersKeep DEF Untouched
<1> QED
  BY <1>3, <1>4, <1>5, <1>6 DEF IInv, UniqueNumbers

LEMMA StepIInv == IInv /\ [Next]_vars => IInv'
<1> SUFFICES ASSUME IInv, [Next]_vars PROVE IInv'
  OBVIOUS
<1>1. CASE \E r \in Runs : RunStep(r)
  <2> PICK r \in Runs : RunStep(r)
    BY <1>1
  <2> QED
    BY MoveSteps, FailStep, DispatchStep, RestartStep, ReserveReadStep, AllocateStep,
       PromoteCheckStep, BeginReadStep, ReserveWriteStep, BeginWriteStep, PublishStep
    DEF RunStep
<1>2. CASE \E t \in DOMAIN released : DeleteRelease(t)
  BY <1>2, DeleteStep
<1>3. CASE UNCHANGED vars
  BY <1>3 DEF vars, IInv, TypeOK, UniqueNumbers, LedgerSound, Reserved, Holds, Promotes, Number,
     PublishedConsumed, Published, Known, Decided, NextNumber
<1> QED
  BY <1>1, <1>2, <1>3 DEF Next

(* The inductive invariant, and with it type correctness, holds in every   *)
(* state of the pipeline: what a run has decided is valid for the ledger   *)
(* that begin_publication and reserve_plan compare when they write.        *)
THEOREM Invariance == Spec => []IInv
  BY InitIInv, StepIInv, PTL DEF Spec

(* However many runs overlap, fail and are run again, no two have the same *)
(* build number and each works with the plan the ledger keeps for it.      *)
THEOREM NumbersAreUnique == Spec => []UniqueNumbers
<1>1. IInv => UniqueNumbers
  BY DEF IInv
<1> QED
  BY <1>1, Invariance, PTL

(* Nothing is public whose build number was not consumed in the ledger     *)
(* before.                                                                 *)
THEOREM NothingPublicUnconsumed == Spec => []PublishedConsumed
<1>1. IInv => PublishedConsumed
  BY DEF IInv
<1> QED
  BY <1>1, Invariance, PTL

IssuedNumbers == [r \in Runs |-> IF ledger.plans[r] = None THEN 0 ELSE ledger.plans[r].number]

LEMMA AllocatorInit == Init => Allocator!Init
  BY DEF Init, NewLedger, Allocator!Init

LEMMA AllocatorStep == IInv /\ [Next]_vars => [Allocator!Next]_Allocator!vars
<1> SUFFICES ASSUME IInv, [Next]_vars PROVE [Allocator!Next]_Allocator!vars
  OBVIOUS
<1> USE DEF Allocator!vars
<1>0. TypeOK /\ LedgerSound(ledger) /\ ledger.plans \in [Runs -> Plan \union {None}]
  BY DEF IInv, UniqueNumbers, TypeOK, Ledger
<1>1. ASSUME NEW r \in Runs, ReserveWrite(r) PROVE Allocator!Issue(r)
  <2>1. /\ ledger.plans[r] = None
        /\ ledger'.plans = [ledger.plans EXCEPT ![r] = package[r].plan]
        /\ ledger'.counter = Number(r) /\ ledger'.counter > ledger.counter
        /\ ledger'.floor = ledger.floor
        /\ package[r].plan # None
    BY <1>1, ReserveWriteStep
  <2>2. IssuedNumbers' = [IssuedNumbers EXCEPT ![r] = ledger'.counter]
    BY <1>0, <2>1 DEF IssuedNumbers, Number
  <2> QED
    BY <2>1, <2>2 DEF Allocator!Issue, IssuedNumbers
<1>2. ASSUME NEW r \in Runs, BeginWrite(r) PROVE \E q \in Runs : Allocator!Consume(q)
  <2>1. /\ Number(r) \in Nat /\ Number(r) >= ledger.floor
        /\ ledger'.floor = Number(r)
        /\ ledger'.plans = ledger.plans /\ ledger'.counter = ledger.counter
    BY <1>2, BeginWriteStep
  <2>2. PICK q \in Runs : ledger.plans[q] # None /\ ledger.plans[q].number = Number(r)
    BY <1>2, BeginWriteStep
  <2>3. Number(r) # 0
    BY <1>0, <2>2 DEF LedgerSound
  <2>4. Allocator!Consume(q)
    BY <2>1, <2>2, <2>3 DEF Allocator!Consume
  <2> QED
    BY <2>4
<1>3. ASSUME NEW r \in Runs, RunStep(r), ~ReserveWrite(r), ~BeginWrite(r) PROVE UNCHANGED ledger
  BY <1>3 DEF RunStep, Dispatch, Start, Restart, Fail, Rerun, Prepare, ReserveRead, Allocate,
     CreateBranch, Check, PromoteCheck, BeginRead, PublishTag, PublishDraft, PublishAssets,
     StoreEvidence
<1>4. ASSUME NEW t, DeleteRelease(t) PROVE UNCHANGED ledger
  BY <1>4 DEF DeleteRelease
<1>5. CASE UNCHANGED ledger
  BY <1>5
<1> QED
  BY <1>1, <1>2, <1>3, <1>4, <1>5 DEF Next, vars, Allocator!Next

(* The ledger file implements the allocator with atomic steps.             *)
THEOREM Refinement == Spec => ImplementsAllocator
  BY AllocatorInit, AllocatorStep, Invariance, PTL DEF Spec, ImplementsAllocator, Allocator!Spec
-------------------------------------------------------------------------------
(* Where releases come from.                                               *)

(* The part of the step that other runs see.                               *)
LEMMA OthersRest ==
  ASSUME TypeOK, NEW r \in Runs, RunStep(r), NEW q \in Runs \ {r}
  PROVE  Untouched(q) /\ ledger'.plans[q] = ledger.plans[q]
<1> USE DEF TypeOK, Untouched, Goto
<1>1. CASE \/ Dispatch(r) \/ Start(r) \/ Rerun(r) \/ Prepare(r) \/ CreateBranch(r)
           \/ Check(r) \/ StoreEvidence(r)
  <2>1. /\ UNCHANGED <<ledger, seen, package>>
        /\ \E step : Goto(r, step)
        /\ request' = request \/ \E asked : request' = [request EXCEPT ![r] = asked]
    BY <1>1 DEF Dispatch, Start, Rerun, Prepare, CreateBranch, Check, StoreEvidence
  <2> QED
    BY <2>1
<1>2. CASE Restart(r) \/ Fail(r) \/ Allocate(r) \/ ReserveRead(r) \/ PromoteCheck(r) \/ BeginRead(r)
  <2>1. /\ UNCHANGED <<ledger, request>>
        /\ \E step : Goto(r, step)
        /\ package' = package \/ \E known : package' = [package EXCEPT ![r] = known]
        /\ seen' = seen \/ \E read : seen' = [seen EXCEPT ![r] = read]
    BY <1>2 DEF Restart, Fail, Allocate, ReserveRead, PromoteCheck, BeginRead, Forget
  <2> QED
    BY <2>1
<1>3. CASE ReserveWrite(r) \/ BeginWrite(r)
  <2>1. /\ UNCHANGED <<request, package>>
        /\ seen[r] = ledger /\ seen' = [seen EXCEPT ![r] = NewLedger]
        /\ \E step : Goto(r, step)
    BY <1>3 DEF ReserveWrite, BeginWrite, Write
  <2>2. ledger \in Ledger
    OBVIOUS
  <2>3. ASSUME ReserveWrite(r) PROVE ledger'.plans[q] = ledger.plans[q]
    <3>1. ledger' = [ledger EXCEPT !.file = TRUE, !.counter = Number(r),
                                   !.plans[r] = package[r].plan]
      BY <2>1, <2>3 DEF ReserveWrite, Write
    <3> QED
      BY <2>2, <3>1 DEF Ledger
  <2>4. ASSUME BeginWrite(r) PROVE ledger'.plans[q] = ledger.plans[q]
    <3>1. ledger' = [ledger EXCEPT !.floor = Number(r)]
      BY <2>1, <2>4 DEF BeginWrite, Write
    <3> QED
      BY <2>2, <3>1 DEF Ledger
  <2> QED
    BY <1>3, <2>1, <2>3, <2>4
<1>4. CASE PublishTag(r) \/ PublishDraft(r) \/ PublishAssets(r)
  BY <1>4 DEF PublishTag, PublishDraft, PublishAssets, Forget
<1> QED
  BY <1>1, <1>2, <1>3, <1>4 DEF RunStep

(* What the steps that write a release write.                              *)
LEMMA Written ==
  ASSUME NEW t, NEW state, NEW content, SetRelease(t, state, content)
  PROVE  /\ DOMAIN released' = DOMAIN released \union {t}
         /\ released'[t] = [state |-> state, package |-> content]
         /\ \A u \in DOMAIN released \ {t} : released'[u] = released[u]
  BY DEF SetRelease

(* A run writes a release that is its own: it makes the tag first, or has  *)
(* made it, and nobody else goes on with that tag.                         *)
LEMMA OwnReleases ==
  ASSUME IInv, ReleasesSound, NEW r \in Runs,
         PublishTag(r) \/ PublishDraft(r) \/ PublishAssets(r)
  PROVE  /\ package[r] # None /\ request[r] # None
         /\ DOMAIN released' = DOMAIN released \union {TagOf(r)}
         /\ \A u \in DOMAIN released \ {TagOf(r)} : released'[u] = released[u]
         /\ released'[TagOf(r)].package = package[r]
         /\ released'[TagOf(r)].state = IF pc[r] = "tag" THEN "tag"
                                        ELSE IF pc[r] = "draft" THEN "draft" ELSE "public"
         /\ \/ pc[r] = "tag" /\ TagOf(r) \notin DOMAIN released
            \/ /\ pc[r] \in {"draft", "assets"}
               /\ TagOf(r) \in DOMAIN released
               /\ released[TagOf(r)].package = package[r]
               /\ released[TagOf(r)].state \in {"tag", "draft"}
         /\ \A q \in Runs \ {r} : Creates(q) => TagOf(q) # TagOf(r)
<1>1. package[r] # None /\ request[r] # None
  BY DEF IInv, Decided, PublishTag, PublishDraft, PublishAssets
<1>2. Owns(r)
  BY DEF ReleasesSound
<1>3. \A q \in Runs \ {r} : Creates(q) => TagOf(q) \in DOMAIN released
  BY DEF ReleasesSound, Owns
<1>4. \A q \in Runs \ {r} : Creates(q) /\ Creates(r) => TagOf(q) # TagOf(r)
  BY DEF ReleasesSound, Exclusive
<1>5. CASE PublishTag(r)
  <2>1. pc[r] = "tag" /\ TagOf(r) \notin DOMAIN released
        /\ SetRelease(TagOf(r), "tag", package[r])
    BY <1>5 DEF PublishTag
  <2>2. /\ DOMAIN released' = DOMAIN released \union {TagOf(r)}
        /\ released'[TagOf(r)] = [state |-> "tag", package |-> package[r]]
        /\ \A u \in DOMAIN released \ {TagOf(r)} : released'[u] = released[u]
    BY <2>1, Written
  <2>3. \A q \in Runs \ {r} : Creates(q) => TagOf(q) # TagOf(r)
    BY <1>3, <2>1
  <2> QED
    BY <1>1, <2>1, <2>2, <2>3
<1>6. CASE PublishDraft(r)
  <2>1. pc[r] = "draft" /\ SetRelease(TagOf(r), "draft", package[r])
    BY <1>6 DEF PublishDraft
  <2>2. TagOf(r) \in DOMAIN released /\ released[TagOf(r)] = [state |-> "tag", package |-> package[r]]
    BY <1>2, <2>1 DEF Owns, Creates
  <2>3. \A q \in Runs \ {r} : Creates(q) => TagOf(q) # TagOf(r)
    BY <1>4, <2>1 DEF Creates
  <2>4. /\ DOMAIN released' = DOMAIN released \union {TagOf(r)}
        /\ released'[TagOf(r)] = [state |-> "draft", package |-> package[r]]
        /\ \A u \in DOMAIN released \ {TagOf(r)} : released'[u] = released[u]
    BY <2>1, Written
  <2> QED
    BY <1>1, <2>1, <2>2, <2>3, <2>4
<1>7. CASE PublishAssets(r)
  <2>1. pc[r] = "assets" /\ SetRelease(TagOf(r), "public", package[r])
    BY <1>7 DEF PublishAssets
  <2>2. TagOf(r) \in DOMAIN released /\ released[TagOf(r)] = [state |-> "draft", package |-> package[r]]
    BY <1>2, <2>1 DEF Owns, Creates
  <2>3. \A q \in Runs \ {r} : Creates(q) => TagOf(q) # TagOf(r)
    BY <1>4, <2>1 DEF Creates
  <2>4. /\ DOMAIN released' = DOMAIN released \union {TagOf(r)}
        /\ released'[TagOf(r)] = [state |-> "public", package |-> package[r]]
        /\ \A u \in DOMAIN released \ {TagOf(r)} : released'[u] = released[u]
    BY <2>1, Written
  <2> QED
    BY <1>1, <2>1, <2>2, <2>3, <2>4
<1> QED
  BY <1>5, <1>6, <1>7

(* What a step keeps of a release.                                         *)
Kept(t) ==
    /\ t \in DOMAIN released'
    /\ released'[t].package = released[t].package
    /\ released[t].state \in {"public", "deleted"} => released'[t].state \in {"public", "deleted"}

Quiet(r) ==
    \/ Dispatch(r) \/ Start(r) \/ Restart(r) \/ Fail(r) \/ Rerun(r)
    \/ Prepare(r) \/ ReserveRead(r) \/ Allocate(r) \/ CreateBranch(r) \/ ReserveWrite(r)
    \/ Check(r) \/ PromoteCheck(r) \/ BeginRead(r) \/ BeginWrite(r) \/ StoreEvidence(r)

LEMMA QuietKeepsReleases ==
  ASSUME NEW r \in Runs, Quiet(r)
  PROVE  UNCHANGED <<parallel, released, highest>>
  BY DEF Quiet, Dispatch, Start, Restart, Fail, Rerun, Prepare, ReserveRead, Allocate, CreateBranch,
     ReserveWrite, Check, PromoteCheck, BeginRead, BeginWrite, StoreEvidence

LEMMA DeletedRelease ==
  ASSUME NEW t \in DOMAIN released, DeleteRelease(t)
  PROVE  /\ DOMAIN released' = DOMAIN released
         /\ released[t].state = "public"
         /\ released'[t] = [state |-> "deleted", package |-> released[t].package]
         /\ \A u \in DOMAIN released \ {t} : released'[u] = released[u]
         /\ UNCHANGED <<parallel, ledger, runVars, highest>>
<1>1. /\ released[t].state = "public" /\ SetRelease(t, "deleted", released[t].package)
      /\ UNCHANGED <<parallel, ledger, runVars, highest>>
  BY DEF DeleteRelease, Published
<1>2. DOMAIN released \union {t} = DOMAIN released
  OBVIOUS
<1> QED
  BY <1>1, <1>2, Written

(* No step moves a tag, replaces what is under it or hides what was public. *)
LEMMA ReleasesKept ==
  ASSUME IInv, ReleasesSound, [Next]_vars, NEW t \in DOMAIN released
  PROVE  Kept(t)
<1>1. ASSUME NEW r \in Runs, Quiet(r) PROVE Kept(t)
  <2>1. released' = released
    BY <1>1, QuietKeepsReleases
  <2> QED
    BY <2>1 DEF Kept
<1>2. ASSUME NEW r \in Runs, PublishTag(r) \/ PublishDraft(r) \/ PublishAssets(r) PROVE Kept(t)
  <2>1. CASE t = TagOf(r)
    <3>1. /\ pc[r] \in {"draft", "assets"}
          /\ released'[t].package = package[r] /\ released[t].package = package[r]
          /\ released[t].state \in {"tag", "draft"}
          /\ DOMAIN released' = DOMAIN released \union {t}
      BY <1>2, <2>1, OwnReleases
    <3> QED
      BY <3>1 DEF Kept
  <2>2. CASE t # TagOf(r)
    <3>1. released'[t] = released[t] /\ t \in DOMAIN released'
      BY <1>2, <2>2, OwnReleases
    <3> QED
      BY <3>1 DEF Kept
  <2> QED
    BY <2>1, <2>2
<1>3. ASSUME NEW u \in DOMAIN released, DeleteRelease(u) PROVE Kept(t)
  <2>1. /\ DOMAIN released' = DOMAIN released
        /\ released[u].state = "public"
        /\ released'[u] = [state |-> "deleted", package |-> released[u].package]
        /\ \A v \in DOMAIN released \ {u} : released'[v] = released[v]
    BY <1>3, DeletedRelease
  <2>2. t \in DOMAIN released' /\ released'[t].package = released[t].package
    BY <2>1
  <2>3. released[t].state \in {"public", "deleted"} => released'[t].state \in {"public", "deleted"}
    BY <2>1
  <2> QED
    BY <2>2, <2>3 DEF Kept
<1>4. CASE UNCHANGED vars
  <2>1. released' = released
    BY <1>4 DEF vars
  <2> QED
    BY <2>1 DEF Kept
<1> QED
  BY <1>1, <1>2, <1>3, <1>4 DEF Next, RunStep, Quiet

(* What no step can take from a run that it is not a step of.              *)
LEMMA OthersSound ==
  ASSUME IInv, ReleasesSound, [Next]_vars, NEW q \in Runs,
         request'[q] = request[q], package'[q] = package[q], pc'[q] # "none" \/ pc'[q] = pc[q],
         ledger'.plans[q] = ledger.plans[q]
  PROVE  Origin(q)'
<1>1. Origin(q) /\ TypeOK
  BY DEF ReleasesSound, IInv
<1>2. Promotes(q)' = Promotes(q)
  BY DEF Promotes
<1>3. Shown(request[q].tag) => Shown(request[q].tag)' /\ Kept(request[q].tag)
  BY ReleasesKept DEF Shown, Kept
<1>4. pc'[q] = "none" => package'[q] = None
  BY <1>1 DEF Origin
<1>5. ledger'.plans[q] # None => ledger'.plans[q].tag.channel \in Builds
  BY <1>1 DEF Origin
<1>6. request'[q] # None /\ ~Promotes(q)' =>
          /\ request'[q].tag.channel \in Builds
          /\ package'[q] # None => package'[q].plan.tag.channel \in Builds
  BY <1>1, <1>2 DEF Origin
<1>7. request'[q] # None /\ Promotes(q)' =>
          /\ request'[q].tag.channel = "rc" /\ Shown(request[q].tag)'
          /\ package'[q] # None => package'[q] = released'[request'[q].tag].package
  BY <1>1, <1>2, <1>3 DEF Origin, Kept
<1> QED
  BY <1>4, <1>5, <1>6, <1>7 DEF Origin

(* A step that neither asks nor plans leaves the actor's origin as it was. *)
LEMMA SameOrigin ==
  ASSUME IInv, ReleasesSound, NEW r \in Runs,
         \/ Start(r) \/ Rerun(r) \/ Prepare(r) \/ CreateBranch(r) \/ Check(r) \/ BeginRead(r)
         \/ BeginWrite(r) \/ StoreEvidence(r) \/ PublishTag(r) \/ PublishDraft(r)
  PROVE  Origin(r)'
<1>1. request'[r] = request[r] /\ package'[r] = package[r]
  BY DEF Start, Rerun, Prepare, CreateBranch, Check, BeginRead, BeginWrite, StoreEvidence,
     PublishTag, PublishDraft
<1>2. pc'[r] # "none"
  BY DEF Start, Rerun, Prepare, CreateBranch, Check, BeginRead, BeginWrite, StoreEvidence,
     PublishTag, PublishDraft, Goto, Write, IInv, TypeOK
<1>3. ledger'.plans = ledger.plans
  <2>1. CASE BeginWrite(r)
    BY <2>1, BeginWriteStep
  <2>2. CASE ~BeginWrite(r)
    BY <2>2 DEF Start, Rerun, Prepare, CreateBranch, Check, BeginRead, StoreEvidence,
       PublishTag, PublishDraft
  <2> QED
    BY <2>1, <2>2
<1>4. [Next]_vars
  BY DEF Next, RunStep
<1> QED
  BY <1>1, <1>2, <1>3, <1>4, OthersSound

(* A run that forgets its package keeps its request.                       *)
LEMMA ForgottenOrigin ==
  ASSUME IInv, ReleasesSound, NEW r \in Runs, Fail(r) \/ PublishAssets(r)
  PROVE  Origin(r)'
<1>1. /\ request' = request /\ ledger' = ledger
      /\ package' = [package EXCEPT ![r] = None]
  BY DEF Fail, PublishAssets, Forget
<1>2. package'[r] = None
  BY <1>1 DEF IInv, TypeOK
<1>3. Origin(r) /\ [Next]_vars
  BY DEF ReleasesSound, Next, RunStep
<1>4. Promotes(r)' = Promotes(r)
  BY <1>1 DEF Promotes
<1>5. Shown(request[r].tag) => Shown(request[r].tag)'
  BY <1>1, <1>3, ReleasesKept DEF Shown, Kept
<1> QED
  BY <1>1, <1>2, <1>3, <1>4, <1>5 DEF Origin

LEMMA DispatchOrigin ==
  ASSUME IInv, ReleasesSound, NEW r \in Runs, Dispatch(r)
  PROVE  Origin(r)'
<1>1. TypeOK /\ Origin(r) /\ pc[r] = "none"
  BY DEF IInv, ReleasesSound, Dispatch
<1>2. package' = package /\ ledger' = ledger /\ released' = released /\ package[r] = None
  BY <1>1 DEF Dispatch, Origin
<1>3. CASE \E b \in Bases, c \in Builds :
            request' = [request EXCEPT ![r] =
                [promote |-> FALSE, tag |-> [base |-> b, channel |-> c, seq |-> 0]]]
  <2>1. ~request'[r].promote /\ request'[r].tag.channel \in Builds
    BY <1>1, <1>3 DEF TypeOK
  <2> QED
    BY <1>1, <1>2, <2>1 DEF Origin, Promotes
<1>4. CASE \E t \in Published : t.channel = "rc" /\
            request' = [request EXCEPT ![r] = [promote |-> TRUE, tag |-> t]]
  <2>1. /\ request'[r].promote /\ request'[r].tag.channel = "rc"
        /\ request'[r].tag \in Published
    BY <1>1, <1>4 DEF TypeOK
  <2>2. Shown(request[r].tag)'
    BY <1>2, <2>1 DEF Shown, Published
  <2> QED
    BY <1>1, <1>2, <2>1, <2>2 DEF Origin, Promotes
<1> QED
  BY <1>3, <1>4 DEF Dispatch

(* A build works on a plan of the ledger, or on one it makes of its        *)
(* request.                                                                *)
LEMMA BuildOrigin ==
  ASSUME IInv, ReleasesSound, NEW r \in Runs,
         Restart(r) \/ ReserveRead(r) \/ Allocate(r) \/ ReserveWrite(r)
  PROVE  Origin(r)'
<1>1. TypeOK /\ Decided(r) /\ Origin(r)
  BY DEF IInv, ReleasesSound
<1>2. request[r] # None /\ ~Promotes(r) /\ request' = request
  BY <1>1 DEF Restart, ReserveRead, Allocate, ReserveWrite, Decided
<1>3. ~Promotes(r)' /\ request'[r].tag.channel \in Builds
  BY <1>1, <1>2 DEF Origin, Promotes
<1>4. pc'[r] # "none"
  BY <1>1 DEF Restart, ReserveRead, Allocate, ReserveWrite, Write, Goto, TypeOK
<1>5. ASSUME package'[r] # None => package'[r].plan.tag.channel \in Builds,
             ledger'.plans[r] # None => ledger'.plans[r].tag.channel \in Builds
      PROVE  Origin(r)'
  BY <1>3, <1>4, <1>5 DEF Origin
<1>6. CASE Restart(r) \/ ReserveRead(r)
  <2>1. /\ ledger' = ledger
        /\ \/ package'[r] = package[r]
           \/ ledger.plans[r] # None /\ package'[r] = Built(r, ledger.plans[r])
    BY <1>1, <1>6 DEF Restart, ReserveRead, TypeOK, Decided
  <2>2. package'[r] # None => package'[r].plan.tag.channel \in Builds
    BY <1>1, <1>2, <2>1 DEF Origin, Built
  <2> QED
    BY <1>1, <1>5, <2>1, <2>2 DEF Origin
<1>7. CASE Allocate(r)
  <2>1. PICK n \in Sequences(r) :
          package' = [package EXCEPT ![r] =
              Built(r, [number |-> NextNumber(seen[r]), tag |-> [request[r].tag EXCEPT !.seq = n]])]
    BY <1>7 DEF Allocate
  <2>2. request[r].tag \in Tag
    BY <1>1, <1>2 DEF TypeOK, Request
  <2>3. [request[r].tag EXCEPT !.seq = n].channel = request[r].tag.channel
    BY <2>2 DEF Tag
  <2>4. package'[r].plan.tag.channel \in Builds
    BY <1>1, <1>2, <2>1, <2>3 DEF TypeOK, Built, Origin
  <2>5. ledger' = ledger
    BY <1>7 DEF Allocate
  <2> QED
    BY <1>1, <1>5, <2>4, <2>5 DEF Origin
<1>8. CASE ReserveWrite(r)
  <2>1. package' = package /\ package[r] # None
    BY <1>1, <1>8 DEF ReserveWrite, Decided
  <2>2. ledger'.plans = [ledger.plans EXCEPT ![r] = package[r].plan]
    BY <1>8, ReserveWriteStep
  <2>3. ledger'.plans[r] = package[r].plan
    BY <1>1, <2>2 DEF TypeOK, Ledger
  <2> QED
    BY <1>1, <1>2, <1>5, <2>1, <2>3 DEF Origin
<1> QED
  BY <1>6, <1>7, <1>8

LEMMA PromoteOrigin ==
  ASSUME IInv, ReleasesSound, NEW r \in Runs, PromoteCheck(r)
  PROVE  Origin(r)'
<1>1. TypeOK /\ Decided(r) /\ Origin(r) /\ request[r] # None /\ Promotes(r)
  BY DEF IInv, ReleasesSound, Decided, PromoteCheck
<1>2. /\ request' = request /\ ledger' = ledger /\ released' = released
      /\ package'[r] = released[request[r].tag].package /\ pc'[r] = "begin"
  BY <1>1 DEF PromoteCheck, TypeOK, Goto
<1>3. Promotes(r)' /\ (Shown(request[r].tag))'
  BY <1>1, <1>2 DEF Origin, Promotes, Shown
<1> QED
  BY <1>1, <1>2, <1>3 DEF Origin

LEMMA ActorOrigin ==
  ASSUME IInv, ReleasesSound, NEW r \in Runs, RunStep(r)
  PROVE  Origin(r)'
  BY SameOrigin, ForgottenOrigin, DispatchOrigin, BuildOrigin, PromoteOrigin DEF RunStep

(* The tag of a run is one as long as it does not take up another plan.    *)
LEMMA SameTag ==
  ASSUME NEW q \in Runs, request'[q] = request[q], package'[q] = package[q]
  PROVE  TagOf(q)' = TagOf(q)
  BY DEF TagOf, Promotes

LEMMA QuietSound ==
  ASSUME IInv, ReleasesSound, NEW r \in Runs, Quiet(r)
  PROVE  /\ \A q \in Runs : Owns(q)'
         /\ Exclusive' /\ UnderItsTag' /\ StableIsCandidate'
<1>1. TypeOK /\ RunStep(r) /\ released' = released
  BY QuietKeepsReleases DEF IInv, Quiet, RunStep
<1>2. ~Creates(r)'
  BY <1>1 DEF Quiet, Dispatch, Start, Restart, Fail, Rerun, Prepare, ReserveRead, Allocate,
     CreateBranch, ReserveWrite, Check, PromoteCheck, BeginRead, BeginWrite, StoreEvidence, Write,
     Goto, Creates, TypeOK
<1>3. ASSUME NEW q \in Runs, Creates(q)' PROVE Creates(q) /\ Untouched(q) /\ TagOf(q)' = TagOf(q)
  <2>1. q \in Runs \ {r}
    BY <1>2, <1>3
  <2>2. Untouched(q)
    BY <1>1, <2>1, OthersRest
  <2> QED
    BY <1>3, <2>2, SameTag DEF Untouched, Creates
<1>4. ASSUME NEW q \in Runs PROVE Owns(q)'
  BY <1>1, <1>3 DEF ReleasesSound, Owns, Untouched
<1>5. Exclusive'
  BY <1>3 DEF ReleasesSound, Exclusive
<1>6. UnderItsTag' /\ StableIsCandidate'
  BY <1>1 DEF ReleasesSound, UnderItsTag, StableIsCandidate
<1> QED
  BY <1>4, <1>5, <1>6

(* A new release is under the tag of its build, or is the stable release   *)
(* of a candidate that has been public.                                    *)
LEMMA WrittenSound ==
  ASSUME IInv, ReleasesSound, NEW r \in Runs,
         PublishTag(r) \/ PublishDraft(r) \/ PublishAssets(r)
  PROVE  UnderItsTag' /\ StableIsCandidate'
<1> DEFINE tag == TagOf(r)
<1>1. /\ package[r] # None /\ request[r] # None
      /\ DOMAIN released' = DOMAIN released \union {tag}
      /\ \A u \in DOMAIN released \ {tag} : released'[u] = released[u]
      /\ released'[tag].package = package[r]
  BY OwnReleases
<1>2. [Next]_vars /\ Origin(r)
  BY DEF Next, RunStep, ReleasesSound
<1>3. \A t \in DOMAIN released : Kept(t)
  BY <1>2, ReleasesKept
<1>4. tag.channel # "stable" => package[r].plan.tag = tag
  BY DEF TagOf, StableTag
<1>5. UnderItsTag'
  <2> SUFFICES ASSUME NEW t \in DOMAIN released', t.channel # "stable", released'[t].package # None
               PROVE  released'[t].package.plan.tag = t
    BY DEF UnderItsTag
  <2>1. CASE t = tag
    BY <1>1, <1>4, <2>1
  <2>2. CASE t # tag
    BY <1>1, <2>2 DEF ReleasesSound, UnderItsTag
  <2> QED
    BY <2>1, <2>2
<1>6. StableIsCandidate'
  <2> SUFFICES ASSUME NEW t \in DOMAIN released' \ Legacy, t.channel = "stable"
               PROVE  LET candidate == released'[t].package.plan.tag
                      IN  /\ candidate.channel = "rc" /\ candidate.base = t.base
                          /\ candidate \in DOMAIN released'
                          /\ released'[candidate].state \in {"public", "deleted"}
                          /\ released'[candidate].package = released'[t].package
    BY DEF StableIsCandidate
  <2>1. CASE t \in DOMAIN released
    <3> DEFINE candidate == released[t].package.plan.tag
    <3>1. /\ candidate.channel = "rc" /\ candidate.base = t.base
          /\ candidate \in DOMAIN released
          /\ released[candidate].state \in {"public", "deleted"}
          /\ released[candidate].package = released[t].package
      BY <2>1 DEF ReleasesSound, StableIsCandidate
    <3>2. Kept(t) /\ Kept(candidate)
      BY <1>3, <2>1, <3>1
    <3> QED
      BY <3>1, <3>2 DEF Kept
  <2>2. CASE t \notin DOMAIN released
    <3>1. t = tag
      BY <1>1, <2>2
    <3>2. Promotes(r)
      <4>1. SUFFICES ASSUME ~Promotes(r) PROVE FALSE
        OBVIOUS
      <4>2. package[r].plan.tag.channel \in Builds /\ t = package[r].plan.tag
        BY <1>1, <1>2, <3>1, <4>1 DEF Origin, TagOf
      <4> QED
        BY <4>2, ConstantsAssumption
    <3> DEFINE candidate == request[r].tag
    <3>3. /\ candidate.channel = "rc" /\ Shown(candidate)
          /\ package[r] = released[candidate].package
          /\ t.base = candidate.base
      BY <1>1, <1>2, <3>1, <3>2 DEF Origin, TagOf, StableTag
    <3>4. package[r].plan.tag = candidate
      BY <1>1, <3>3 DEF ReleasesSound, UnderItsTag, Shown
    <3>5. Kept(candidate)
      BY <1>3, <3>3 DEF Shown
    <3>6. /\ candidate \in DOMAIN released'
          /\ released'[candidate].state \in {"public", "deleted"}
          /\ released'[candidate].package = released'[t].package
      BY <1>1, <3>1, <3>3, <3>5 DEF Kept, Shown
    <3> QED
      BY <1>1, <3>1, <3>3, <3>4, <3>6
  <2> QED
    BY <2>1, <2>2
<1> QED
  BY <1>5, <1>6

LEMMA PublishSound ==
  ASSUME IInv, ReleasesSound, NEW r \in Runs,
         PublishTag(r) \/ PublishDraft(r) \/ PublishAssets(r)
  PROVE  (\A q \in Runs : Owns(q)') /\ Exclusive'
<1>1. /\ DOMAIN released' = DOMAIN released \union {TagOf(r)}
      /\ \A u \in DOMAIN released \ {TagOf(r)} : released'[u] = released[u]
      /\ \A q \in Runs \ {r} : Creates(q) => TagOf(q) # TagOf(r)
  BY OwnReleases
<1>2. TypeOK /\ RunStep(r)
  BY DEF IInv, RunStep
<1>3. ASSUME NEW q \in Runs \ {r}
      PROVE  Creates(q)' = Creates(q) /\ TagOf(q)' = TagOf(q) /\ Untouched(q)
  BY <1>2, OthersRest, SameTag DEF Untouched, Creates
<1>4. ASSUME NEW q \in Runs \ {r} PROVE Owns(q)'
  <2>1. SUFFICES ASSUME Creates(q) PROVE Owns(q)'
    BY <1>3 DEF Owns
  <2>2. /\ TagOf(q) \in DOMAIN released /\ TagOf(q) # TagOf(r)
        /\ released[TagOf(q)] = [state |-> IF pc[q] = "draft" THEN "tag" ELSE "draft",
                                 package |-> package[q]]
    BY <1>1, <2>1 DEF ReleasesSound, Owns
  <2>3. TagOf(q) \in DOMAIN released' /\ released'[TagOf(q)] = released[TagOf(q)]
    BY <1>1, <2>2
  <2> QED
    BY <1>3, <2>2, <2>3 DEF Owns, Untouched
<1>5. Creates(r)' => TagOf(r)' = TagOf(r)
  <2>1. CASE PublishTag(r) \/ PublishDraft(r)
    BY <2>1, SameTag DEF PublishTag, PublishDraft
  <2>2. CASE PublishAssets(r)
    BY <1>2, <2>2 DEF PublishAssets, Goto, Creates, TypeOK
  <2> QED
    BY <2>1, <2>2
<1>6. Owns(r)'
  <2>1. CASE PublishTag(r)
    <3>1. pc'[r] = "draft" /\ package'[r] = package[r] /\ TagOf(r)' = TagOf(r)
      BY <1>2, <2>1, SameTag DEF PublishTag, Goto, TypeOK
    <3>2. SetRelease(TagOf(r), "tag", package[r])
      BY <2>1 DEF PublishTag
    <3>3. /\ DOMAIN released' = DOMAIN released \union {TagOf(r)}
          /\ released'[TagOf(r)] = [state |-> "tag", package |-> package[r]]
      BY <3>2 DEF SetRelease
    <3> QED
      BY <3>1, <3>3 DEF Owns
  <2>2. CASE PublishDraft(r)
    <3>1. pc'[r] = "assets" /\ package'[r] = package[r] /\ TagOf(r)' = TagOf(r)
      BY <1>2, <2>2, SameTag DEF PublishDraft, Goto, TypeOK
    <3>2. SetRelease(TagOf(r), "draft", package[r])
      BY <2>2 DEF PublishDraft
    <3>3. /\ DOMAIN released' = DOMAIN released \union {TagOf(r)}
          /\ released'[TagOf(r)] = [state |-> "draft", package |-> package[r]]
      BY <3>2 DEF SetRelease
    <3> QED
      BY <3>1, <3>3 DEF Owns
  <2>3. CASE PublishAssets(r)
    BY <1>2, <2>3 DEF PublishAssets, Goto, Owns, Creates, TypeOK
  <2> QED
    BY <2>1, <2>2, <2>3
<1>7. Exclusive'
  <2> SUFFICES ASSUME NEW p \in Runs, NEW q \in Runs, Creates(p)', Creates(q)',
                      TagOf(p)' = TagOf(q)', p # q
               PROVE  FALSE
    BY DEF Exclusive
  <2>1. CASE p # r /\ q # r
    BY <1>3, <2>1 DEF ReleasesSound, Exclusive
  <2>2. CASE p = r \/ q = r
    BY <1>1, <1>3, <1>5, <2>2
  <2> QED
    BY <2>1, <2>2
<1> QED
  BY <1>4, <1>6, <1>7

(* A deleted release is nobody's work, and stays what a promotion saw.     *)
LEMMA DeleteSound ==
  ASSUME IInv, ReleasesSound, NEW t \in DOMAIN released, DeleteRelease(t)
  PROVE  ReleasesSound'
<1>1. /\ DOMAIN released' = DOMAIN released
      /\ released[t].state = "public"
      /\ released'[t] = [state |-> "deleted", package |-> released[t].package]
      /\ \A u \in DOMAIN released \ {t} : released'[u] = released[u]
      /\ request' = request /\ package' = package /\ pc' = pc /\ ledger' = ledger
  BY DeletedRelease DEF runVars
<1>2. [Next]_vars
  BY DEF Next
<1>3. \A q \in Runs : Origin(q)'
  BY <1>1, <1>2, OthersSound
<1>4. \A q \in Runs : TagOf(q)' = TagOf(q) /\ Creates(q)' = Creates(q)
  BY <1>1 DEF TagOf, Promotes, Creates
<1>5. ASSUME NEW q \in Runs PROVE Owns(q)'
  <2>1. SUFFICES ASSUME Creates(q) PROVE Owns(q)'
    BY <1>4 DEF Owns
  <2>2. /\ TagOf(q) \in DOMAIN released
        /\ released[TagOf(q)] = [state |-> IF pc[q] = "draft" THEN "tag" ELSE "draft",
                                 package |-> package[q]]
    BY <2>1 DEF ReleasesSound, Owns
  <2>3. released[TagOf(q)].state \in {"tag", "draft"}
    BY <2>2
  <2>4. TagOf(q) # t
    BY <1>1, <2>3
  <2> QED
    BY <1>1, <1>4, <2>2, <2>4 DEF Owns
<1>6. Exclusive'
  BY <1>4 DEF ReleasesSound, Exclusive
<1>7. \A u \in DOMAIN released : released'[u].package = released[u].package
  BY <1>1
<1>8. UnderItsTag'
  BY <1>1, <1>7 DEF ReleasesSound, UnderItsTag
<1>9. \A u \in DOMAIN released :
        released[u].state \in {"public", "deleted"} => released'[u].state \in {"public", "deleted"}
  BY <1>1
<1>10. StableIsCandidate'
  BY <1>1, <1>7, <1>9 DEF ReleasesSound, StableIsCandidate
<1> QED
  BY <1>3, <1>5, <1>6, <1>8, <1>10 DEF ReleasesSound

LEMMA StepReleasesSound == IInv /\ ReleasesSound /\ [Next]_vars => ReleasesSound'
<1> SUFFICES ASSUME IInv, ReleasesSound, [Next]_vars PROVE ReleasesSound'
  OBVIOUS
<1>1. ASSUME NEW r \in Runs, RunStep(r) PROVE ReleasesSound'
  <2>1. TypeOK
    BY DEF IInv
  <2>2. ASSUME NEW q \in Runs \ {r} PROVE Origin(q)'
    BY <1>1, <2>1, OthersRest, OthersSound DEF Untouched
  <2>3. Origin(r)'
    BY <1>1, ActorOrigin
  <2>4. Quiet(r) \/ PublishTag(r) \/ PublishDraft(r) \/ PublishAssets(r)
    BY <1>1 DEF RunStep, Quiet
  <2>5. (\A q \in Runs : Owns(q)') /\ Exclusive' /\ UnderItsTag' /\ StableIsCandidate'
    BY <2>4, QuietSound, PublishSound, WrittenSound
  <2> QED
    BY <2>2, <2>3, <2>5 DEF ReleasesSound
<1>2. ASSUME NEW t \in DOMAIN released, DeleteRelease(t) PROVE ReleasesSound'
  BY <1>2, DeleteSound
<1>3. CASE UNCHANGED vars
  BY <1>3 DEF vars, ReleasesSound, Origin, Owns, Exclusive, UnderItsTag, StableIsCandidate, Shown,
     Creates, TagOf, Promotes
<1> QED
  BY <1>1, <1>2, <1>3 DEF Next

LEMMA InitReleasesSound == Init => ReleasesSound
<1> SUFFICES ASSUME Init PROVE ReleasesSound
  OBVIOUS
<1>1. \A r \in Runs : Origin(r) /\ Owns(r) /\ ~Creates(r)
  BY DEF Init, NewLedger, Origin, Owns, Creates
<1>2. UnderItsTag /\ StableIsCandidate
  BY DEF Init, UnderItsTag, StableIsCandidate
<1> QED
  BY <1>1, <1>2 DEF ReleasesSound, Exclusive

(* Requests, plans, packages and releases come from where they should, in  *)
(* every state.                                                            *)
THEOREM ReleasesInvariance == Spec => [](IInv /\ ReleasesSound)
  BY InitIInv, StepIInv, InitReleasesSound, StepReleasesSound, PTL DEF Spec

(* A stable release of the time since the ledger is, byte for byte, what   *)
(* its release candidate was published with.                               *)
THEOREM StablesAreCandidates == Spec => []StableIsCandidate
<1>1. ReleasesSound => StableIsCandidate
  BY DEF ReleasesSound
<1> QED
  BY <1>1, ReleasesInvariance, PTL

(* No tag moves or goes away, and nothing that was published under it is   *)
(* replaced.                                                               *)
THEOREM TagsStay == Spec => TagsAreImmutable
<1> DEFINE Immutable ==
       \A t \in DOMAIN released :
         /\ t \in DOMAIN released'
         /\ released'[t].package = released[t].package
         /\ released[t].state \in {"public", "deleted"}
              => released'[t].state \in {"public", "deleted"}
<1>1. IInv /\ ReleasesSound /\ [Next]_vars => [Immutable]_vars
  BY ReleasesKept DEF Kept
<1> QED
  BY <1>1, ReleasesInvariance, PTL DEF Spec, TagsAreImmutable-------------------------------------------------------------------------------
(* One run at a time.                                                      *)

LEMMA OnlyStarts ==
  ASSUME IInv, NEW r \in Runs, RunStep(r), ~Active(r), Active(r)'
  PROVE  MayStart
<1>1. CASE Start(r) \/ Restart(r)
  BY <1>1 DEF Start, Restart
<1>2. CASE Dispatch(r) \/ Rerun(r)
  BY <1>2 DEF Dispatch, Rerun, Goto, Active, Ended, IInv, TypeOK
<1>3. CASE \/ Fail(r) \/ Prepare(r) \/ ReserveRead(r) \/ Allocate(r) \/ CreateBranch(r)
           \/ ReserveWrite(r) \/ Check(r) \/ PromoteCheck(r) \/ BeginRead(r) \/ BeginWrite(r)
           \/ PublishTag(r) \/ PublishDraft(r) \/ PublishAssets(r) \/ StoreEvidence(r)
  BY <1>3 DEF Fail, Prepare, ReserveRead, Allocate, CreateBranch, ReserveWrite, Check,
     PromoteCheck, BeginRead, BeginWrite, PublishTag, PublishDraft, PublishAssets, StoreEvidence,
     Active, Ended
<1> QED
  BY <1>1, <1>2, <1>3 DEF RunStep

(* A run may start alone only when no other is active.                     *)
LEMMA StartsAlone ==
  ASSUME parallel = 1, Alone, MayStart, NEW q \in Runs
  PROVE  ~Active(q)
<1> SUFFICES ASSUME Active(q) PROVE FALSE
  OBVIOUS
<1>1. {p \in Runs : Active(p)} = {q}
  BY DEF Alone
<1>2. Cardinality({q}) = 1
  BY FS_Singleton
<1> QED
  BY <1>1, <1>2 DEF MayStart

LEMMA StaysAlone ==
  ASSUME IInv, parallel = 1, Alone, NEW r \in Runs, RunStep(r)
  PROVE  /\ Alone'
         /\ \A q \in Runs \ {r} : Active(q) => Quiet(r)
<1>1. TypeOK
  BY DEF IInv
<1>2. \A q \in Runs \ {r} : Active(q)' = Active(q)
  BY <1>1, OthersRest DEF Untouched, Active
<1>3. Active(r) \/ ~Active(r)' \/ \A q \in Runs : ~Active(q)
  BY OnlyStarts, StartsAlone
<1>4. Alone'
  BY <1>2, <1>3 DEF Alone
<1>5. ~Active(r) => Quiet(r)
  BY DEF RunStep, Quiet, PublishTag, PublishDraft, PublishAssets, Active, Ended
<1> QED
  BY <1>4, <1>5 DEF Alone

(* The others keep what they know of the order of numbers and of the tags: *)
(* while one of them publishes, only it could change that.                 *)
LEMMA OthersAhead ==
  ASSUME IInv, parallel = 1, Alone, NEW r \in Runs, RunStep(r), NEW q \in Runs \ {r}, Ahead(q)
  PROVE  Ahead(q)'
<1>1. Untouched(q)
  BY OthersRest DEF IInv
<1>2. CASE Active(q)
  <2>1. released' = released /\ highest' = highest
    BY <1>2, StaysAlone, QuietKeepsReleases
  <2> QED
    BY <1>1, <2>1 DEF Ahead, Untouched, Number, Promotes
<1>3. CASE ~Active(q)
  BY <1>1, <1>3 DEF Ahead, Untouched, Active, Ended
<1> QED
  BY <1>2, <1>3

(* What a run has just checked is so: no stable tag of its base when it    *)
(* checks the tags, no larger number when it reads the floor.              *)
LEMMA ActorAhead ==
  ASSUME IInv, ReleasesSound, NEW r \in Runs, RunStep(r), Ahead(r)
  PROVE  Ahead(r)'
<1>0. TypeOK /\ Decided(r) /\ Origin(r) /\ PublishedConsumed
  BY DEF IInv, ReleasesSound
<1>1. CASE \/ Dispatch(r) \/ Start(r) \/ Restart(r) \/ Fail(r) \/ Rerun(r) \/ Prepare(r)
           \/ ReserveRead(r) \/ Allocate(r) \/ CreateBranch(r) \/ ReserveWrite(r)
           \/ PublishAssets(r) \/ StoreEvidence(r)
  <2>1. pc'[r] \notin {"begin", "consume", "tag", "draft", "assets"}
    BY <1>0, <1>1 DEF Dispatch, Start, Restart, Fail, Rerun, Prepare, ReserveRead, Allocate,
       CreateBranch, ReserveWrite, PublishAssets, StoreEvidence, Write, Goto, TypeOK
  <2> QED
    BY <2>1 DEF Ahead
<1>2. CASE Check(r)
  <2>1. /\ UNCHANGED <<released, package>> /\ pc'[r] = "begin"
        /\ LET tag == package[r].plan.tag
           IN  tag.channel # "nightly" => StableTag(tag.base) \notin DOMAIN released
    BY <1>0, <1>2 DEF Check, Goto, TypeOK, EnsureAbsent
  <2> QED
    BY <2>1 DEF Ahead
<1>3. CASE PromoteCheck(r)
  <2>1. request' = request /\ pc'[r] = "begin" /\ Promotes(r)
    BY <1>0, <1>3 DEF PromoteCheck, Goto, TypeOK, Decided
  <2> QED
    BY <2>1 DEF Ahead, Promotes
<1>4. CASE BeginRead(r)
  <2>1. /\ UNCHANGED <<released, package, request, highest>>
        /\ pc[r] = "begin" /\ pc'[r] = "consume"
    BY <1>0, <1>4 DEF BeginRead, Goto, TypeOK
  <2>2. Number(r) \in Nat /\ highest \in Nat /\ ledger.floor \in Nat /\ highest <= ledger.floor
    BY <1>0, <2>1, PlanIsSome DEF Decided, TypeOK, Ledger, PublishedConsumed
  <2>3. Number(r) > highest \/ (Promotes(r) /\ Number(r) = highest)
    <3>1. CASE Promotes(r)
      <4>1. Number(r) >= ledger.floor
        BY <1>4, <3>1 DEF BeginRead, PromotionInOrder, Number
      <4> QED
        BY <2>2, <3>1, <4>1
    <3>2. CASE ~Promotes(r)
      <4>1. Number(r) > ledger.floor
        BY <1>4, <3>2 DEF BeginRead, ReservationHolds
      <4> QED
        BY <2>2, <4>1
    <3> QED
      BY <3>1, <3>2
  <2>4. Number(r)' = Number(r) /\ Promotes(r)' = Promotes(r)
    BY <2>1 DEF Number, Promotes
  <2> QED
    BY <2>1, <2>3, <2>4 DEF Ahead
<1>5. CASE BeginWrite(r)
  <2>1. /\ UNCHANGED <<released, package, request, highest>>
        /\ pc[r] = "consume" /\ pc'[r] = "tag"
    BY <1>0, <1>5 DEF BeginWrite, Write, Goto, TypeOK
  <2>2. Number(r)' = Number(r) /\ Promotes(r)' = Promotes(r)
    BY <2>1 DEF Number, Promotes
  <2> QED
    BY <2>1, <2>2 DEF Ahead
<1>6. CASE PublishTag(r) \/ PublishDraft(r)
  <2>1. /\ UNCHANGED <<package, request, highest>>
        /\ pc[r] \in {"tag", "draft"} /\ pc'[r] \in {"draft", "assets"}
    BY <1>0, <1>6 DEF PublishTag, PublishDraft, Goto, TypeOK
  <2>2. Number(r)' = Number(r) /\ Promotes(r)' = Promotes(r)
    BY <2>1 DEF Number, Promotes
  <2>3. package[r] # None /\ request[r] # None /\ DOMAIN released' = DOMAIN released \union {TagOf(r)}
    BY <1>6, OwnReleases
  <2>4. ASSUME ~Promotes(r), package[r].plan.tag.channel # "nightly"
        PROVE  StableTag(package[r].plan.tag.base) \notin DOMAIN released'
    <3>1. TagOf(r).channel \in Builds
      BY <1>0, <2>3, <2>4 DEF Origin, TagOf
    <3>2. TagOf(r) # StableTag(package[r].plan.tag.base)
      BY <3>1, ConstantsAssumption DEF StableTag
    <3>3. StableTag(package[r].plan.tag.base) \notin DOMAIN released
      BY <2>1, <2>4 DEF Ahead
    <3> QED
      BY <2>3, <3>2, <3>3
  <2> QED
    BY <2>1, <2>2, <2>4 DEF Ahead
<1> QED
  BY <1>1, <1>2, <1>3, <1>4, <1>5, <1>6 DEF RunStep

LEMMA StepSerial == IInv /\ ReleasesSound /\ Serial /\ [Next]_vars => Serial'
<1> SUFFICES ASSUME IInv, ReleasesSound, Serial, [Next]_vars PROVE Serial'
  OBVIOUS
<1>1. parallel' = parallel
  <2>1. ASSUME NEW r \in Runs, RunStep(r) PROVE parallel' = parallel
    <3>1. CASE Quiet(r)
      BY <3>1, QuietKeepsReleases
    <3>2. CASE PublishTag(r) \/ PublishDraft(r) \/ PublishAssets(r)
      BY <3>2 DEF PublishTag, PublishDraft, PublishAssets
    <3> QED
      BY <2>1, <3>1, <3>2 DEF RunStep, Quiet
  <2>2. ASSUME NEW t, DeleteRelease(t) PROVE parallel' = parallel
    BY <2>2 DEF DeleteRelease
  <2> QED
    BY <2>1, <2>2 DEF Next, vars
<1>2. SUFFICES ASSUME parallel = 1 PROVE Alone' /\ \A r \in Runs : Ahead(r)'
  BY <1>1 DEF Serial
<1>3. Alone /\ \A r \in Runs : Ahead(r)
  BY <1>2 DEF Serial
<1>4. ASSUME NEW r \in Runs, RunStep(r) PROVE Alone' /\ \A q \in Runs : Ahead(q)'
  <2>1. Alone'
    BY <1>2, <1>3, <1>4, StaysAlone
  <2>2. \A q \in Runs \ {r} : Ahead(q)'
    BY <1>2, <1>3, <1>4, OthersAhead
  <2>3. Ahead(r)'
    BY <1>3, <1>4, ActorAhead
  <2> QED
    BY <2>1, <2>2, <2>3
<1>5. ASSUME NEW t \in DOMAIN released, DeleteRelease(t) PROVE Alone' /\ \A q \in Runs : Ahead(q)'
  <2>1. /\ DOMAIN released' = DOMAIN released
        /\ pc' = pc /\ request' = request /\ package' = package /\ highest' = highest
    BY <1>5, DeletedRelease DEF runVars
  <2> QED
    BY <1>3, <2>1 DEF Alone, Active, Ahead, Number, Promotes
<1>6. CASE UNCHANGED vars
  BY <1>3, <1>6 DEF vars, Alone, Active, Ahead, Number, Promotes
<1> QED
  BY <1>4, <1>5, <1>6 DEF Next

LEMMA InitSerial == Init => Serial
  BY DEF Init, Serial, Alone, Active, Ended, Ahead

LEMMA SerialInvariance == Spec => [](IInv /\ ReleasesSound /\ Serial)
  BY InitIInv, StepIInv, InitReleasesSound, StepReleasesSound, InitSerial, StepSerial, PTL DEF Spec

(* A release becomes public in one step only, and it is its run's.         *)
LEMMA BecomesPublic ==
  ASSUME IInv, ReleasesSound, [Next]_vars, NEW t \in DOMAIN released',
         released'[t].state = "public", t \in DOMAIN released => released[t].state # "public"
  PROVE  \E r \in Runs : /\ PublishAssets(r) /\ t = TagOf(r) /\ package[r] # None
                         /\ request[r] # None /\ released'[t].package = package[r]
<1>1. ASSUME NEW r \in Runs, Quiet(r) PROVE FALSE
  <2>1. released' = released
    BY <1>1, QuietKeepsReleases
  <2> QED
    BY <2>1
<1>2. ASSUME NEW u \in DOMAIN released, DeleteRelease(u) PROVE FALSE
  BY <1>2, DeletedRelease
<1>3. CASE UNCHANGED vars
  BY <1>3 DEF vars
<1>4. PICK r \in Runs : PublishTag(r) \/ PublishDraft(r) \/ PublishAssets(r)
  BY <1>1, <1>2, <1>3 DEF Next, RunStep, Quiet
<1>5. /\ package[r] # None /\ request[r] # None
      /\ DOMAIN released' = DOMAIN released \union {TagOf(r)}
      /\ \A u \in DOMAIN released \ {TagOf(r)} : released'[u] = released[u]
      /\ released'[TagOf(r)].package = package[r]
      /\ released'[TagOf(r)].state = IF pc[r] = "tag" THEN "tag"
                                     ELSE IF pc[r] = "draft" THEN "draft" ELSE "public"
  BY <1>4, OwnReleases
<1>6. t = TagOf(r)
  BY <1>5
<1>7. pc[r] \notin {"tag", "draft"}
  BY <1>5, <1>6
<1>8. PublishAssets(r)
  BY <1>4, <1>7 DEF PublishTag, PublishDraft
<1> QED
  BY <1>5, <1>6, <1>8

(* One run at a time, a smaller build number never becomes public after a  *)
(* larger one.                                                             *)
THEOREM NumbersAreInOrder == Spec => NoDowngrade
<1> DEFINE InOrder ==
       \A t \in DOMAIN released' :
         /\ parallel = 1 /\ released'[t].state = "public"
         /\ t \in DOMAIN released => released[t].state # "public"
         => \/ released'[t].package.plan.number > highest
            \/ t.channel = "stable" /\ released'[t].package.plan.number = highest
<1>1. ASSUME IInv, ReleasesSound, Serial, [Next]_vars PROVE InOrder
  <2> SUFFICES ASSUME NEW t \in DOMAIN released', parallel = 1, released'[t].state = "public",
                      t \in DOMAIN released => released[t].state # "public"
               PROVE  \/ released'[t].package.plan.number > highest
                      \/ t.channel = "stable" /\ released'[t].package.plan.number = highest
    OBVIOUS
  <2>1. PICK r \in Runs : PublishAssets(r) /\ t = TagOf(r) /\ released'[t].package = package[r]
    BY <1>1, BecomesPublic
  <2>2. Number(r) > highest \/ (Promotes(r) /\ Number(r) = highest)
    BY <1>1, <2>1 DEF Serial, Ahead, PublishAssets
  <2>3. released'[t].package.plan.number = Number(r)
    BY <2>1 DEF Number
  <2>4. Promotes(r) => t.channel = "stable"
    BY <2>1 DEF TagOf, StableTag
  <2> QED
    BY <2>2, <2>3, <2>4
<1>2. IInv /\ ReleasesSound /\ Serial /\ [Next]_vars => [InOrder]_vars
  BY <1>1
<1> QED
  BY <1>2, SerialInvariance, PTL DEF Spec, NoDowngrade

(* One run at a time, no beta or candidate is published beside the stable  *)
(* version it was to become.                                               *)
THEOREM StableEndsItsCandidates == Spec => NoCandidateAfterStable
<1> DEFINE Before ==
       \A t \in DOMAIN released' :
         /\ parallel = 1 /\ t.channel \in {"beta", "rc"} /\ released'[t].state = "public"
         /\ t \in DOMAIN released => released[t].state # "public"
         => StableTag(t.base) \notin DOMAIN released
<1>1. ASSUME IInv, ReleasesSound, Serial, [Next]_vars PROVE Before
  <2> SUFFICES ASSUME NEW t \in DOMAIN released', parallel = 1, t.channel \in {"beta", "rc"},
                      released'[t].state = "public",
                      t \in DOMAIN released => released[t].state # "public"
               PROVE  StableTag(t.base) \notin DOMAIN released
    OBVIOUS
  <2>1. PICK r \in Runs : PublishAssets(r) /\ t = TagOf(r)
    BY <1>1, BecomesPublic
  <2>2. ~Promotes(r) /\ t = package[r].plan.tag
    BY <2>1 DEF TagOf, StableTag
  <2> QED
    BY <1>1, <2>1, <2>2 DEF Serial, Ahead, PublishAssets
<1>2. IInv /\ ReleasesSound /\ Serial /\ [Next]_vars => [Before]_vars
  BY <1>1
<1> QED
  BY <1>2, SerialInvariance, PTL DEF Spec, NoCandidateAfterStable
=============================================================================
