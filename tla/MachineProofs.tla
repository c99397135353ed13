------------------------------ MODULE MachineProofs -----------------------------
(***************************************************************************)
(* Theorems about what the machine begins with and what is attached to it: *)
(* the big kernel lock (SpinLock) and the start of the processors (Boot),  *)
(* for every number of them, the free list of pages (PageList), for any    *)
(* number of pages, the ring, the line and the screen of the console       *)
(* (Console), of any size, and the keyboard (Keyboard).  What is proved of *)
(* the lock carries over to the start, because every step there is a step  *)
(* of the lock or leaves it alone; the others are apart.                   *)
(***************************************************************************)
EXTENDS Boot, PageList, Console, Keyboard, Integers, SequenceTheorems, TLAPS

-----------------------------------------------------------------------------
(* The lock *)


LEMMA InitIInv == Init => IInv
BY NoCpuAssumption
   DEF Init, IInv, TypeOK, MutualExclusion, LockWord, Record, NoFalsePanic,
       Owns, Points, Locking, Unlocking

(* Every step of every processor preserves the inductive invariant. *)
LEMMA StepIInv == IInv /\ [Next]_vars => IInv'
<1> SUFFICES ASSUME IInv, [Next]_vars
             PROVE  IInv'
  OBVIOUS
<1> USE NoCpuAssumption
    DEF IInv, TypeOK, MutualExclusion, LockWord, Record, NoFalsePanic,
        Owns, Points, Locking, Unlocking, Goto
<1>1. ASSUME NEW c \in CPUS, LockReadLocked(c)
      PROVE  IInv'
  BY <1>1 DEF LockReadLocked
<1>2. ASSUME NEW c \in CPUS, LockReadCpu(c)
      PROVE  IInv'
  BY <1>2 DEF LockReadCpu
<1>3. ASSUME NEW c \in CPUS, LockXchg(c)
      PROVE  IInv'
  BY <1>3 DEF LockXchg
<1>4. ASSUME NEW c \in CPUS, LockRecord(c)
      PROVE  IInv'
  BY <1>4 DEF LockRecord
<1>5. ASSUME NEW c \in CPUS, UnlockReadLocked(c)
      PROVE  IInv'
  BY <1>5 DEF UnlockReadLocked
<1>6. ASSUME NEW c \in CPUS, UnlockReadCpu(c)
      PROVE  IInv'
  BY <1>6 DEF UnlockReadCpu
<1>7. ASSUME NEW c \in CPUS, UnlockClear(c)
      PROVE  IInv'
  BY <1>7 DEF UnlockClear
<1>8. ASSUME NEW c \in CPUS, UnlockRelease(c)
      PROVE  IInv'
  BY <1>8 DEF UnlockRelease
<1>9. CASE UNCHANGED vars
  BY <1>9 DEF vars
<1> QED
  BY <1>1, <1>2, <1>3, <1>4, <1>5, <1>6, <1>7, <1>8, <1>9 DEF Next, Step

(* The lock word, the record of the owner and the owner agree except in    *)
(* the windows spin_lock and spin_unlock open (kern/spinlock.c).           *)
THEOREM Invariance == Spec => []IInv
BY InitIInv, StepIInv, PTL DEF Spec

(* Two processors are never both inside the big kernel lock. *)
THEOREM LockIsExclusive == Spec => []MutualExclusion
<1>1. IInv => MutualExclusion
  BY DEF IInv
<1> QED
  BY <1>1, Invariance, PTL

(* The "already holding" and "cannot release" panics are never reached. *)
THEOREM LockNeverPanics == Spec => []NoFalsePanic
<1>1. IInv => NoFalsePanic
  BY DEF IInv
<1> QED
  BY <1>1, Invariance, PTL

-----------------------------------------------------------------------------
(* The owner the refinement mapping chooses is the processor that owns.    *)
LEMMA OwnerOf ==
    ASSUME MutualExclusion, NEW c \in CPUS, Owns(c)
    PROVE  owner = c
BY DEF owner, MutualExclusion

LEMMA NoOwner ==
    ASSUME \A c \in CPUS : ~Owns(c)
    PROVE  owner = NoCpu
BY DEF owner

(* A step that changes no processor's ownership leaves the owner alone. *)
LEMMA SameOwner ==
    ASSUME MutualExclusion, MutualExclusion',
           \A c \in CPUS : Owns(c) <=> Owns(c)'
    PROVE  owner' = owner
<1>1. CASE \E c \in CPUS : Owns(c)
  <2>1. PICK c \in CPUS : Owns(c)
    BY <1>1
  <2>2. owner = c
    BY <2>1 DEF owner, MutualExclusion
  <2>3. owner' = c
    BY <2>1 DEF owner, MutualExclusion
  <2> QED
    BY <2>2, <2>3
<1>2. CASE \A c \in CPUS : ~Owns(c)
  BY <1>2 DEF owner
<1> QED
  BY <1>1, <1>2

(* Every step of the lock is a step of the abstract lock or a stutter. *)
LEMMA StepSimulates == IInv /\ IInv' /\ [Next]_vars => [Abstract!Next]_owner
<1> SUFFICES ASSUME IInv, IInv', [Next]_vars
             PROVE  Abstract!Next \/ owner' = owner
  OBVIOUS
<1>0. MutualExclusion /\ MutualExclusion'
  BY DEF IInv
<1> USE DEF Goto, Owns, Unlocking
<1>1. ASSUME NEW c \in CPUS, LockXchg(c), locked = 0
      PROVE  Abstract!Next
  <2>1. owner = NoCpu
    BY <1>1 DEF IInv, LockWord, owner
  <2>2. owner' = c
    BY <1>0, <1>1 DEF LockXchg, IInv, TypeOK, MutualExclusion, owner
  <2> QED
    BY <2>1, <2>2 DEF Abstract!Next, Abstract!Acquire
<1>2. ASSUME NEW c \in CPUS, UnlockRelease(c)
      PROVE  Abstract!Next
  <2>1. owner = c
    BY <1>0, <1>2, OwnerOf DEF UnlockRelease
  <2>2. \A d \in CPUS : ~Owns(d)'
    BY <1>0, <1>2 DEF UnlockRelease, IInv, TypeOK, MutualExclusion
  <2>3. owner' = NoCpu
    BY <2>2 DEF owner
  <2> QED
    BY <2>1, <2>3 DEF Abstract!Next, Abstract!Release
<1>3. ASSUME NEW c \in CPUS,
             \/ LockReadLocked(c) \/ LockReadCpu(c) \/ LockRecord(c)
             \/ LockXchg(c) /\ locked # 0
             \/ UnlockReadLocked(c) \/ UnlockReadCpu(c) \/ UnlockClear(c)
      PROVE  owner' = owner
  <2>1. \A d \in CPUS : Owns(d) <=> Owns(d)'
    BY <1>3, StepIInv
       DEF LockReadLocked, LockReadCpu, LockRecord, LockXchg, UnlockReadLocked,
           UnlockReadCpu, UnlockClear, IInv, TypeOK, NoFalsePanic, Record, LockWord
  <2> QED
    BY <1>0, <2>1, SameOwner
<1>4. CASE UNCHANGED vars
  BY <1>4 DEF vars, owner
<1> QED
  BY <1>1, <1>2, <1>3, <1>4 DEF Next, Step

(* The spin lock of the code implements the lock the kernel relies on. *)
THEOREM Implementation == Spec => ImplementsBigKernelLock
<1>1. Init => Abstract!Init
  BY DEF Init, Abstract!Init, owner, Owns, Unlocking
<1>2. IInv /\ IInv' /\ [Next]_vars => [Abstract!Next]_owner
  BY StepSimulates
<1> QED
  BY <1>1, <1>2, Invariance, PTL DEF Spec, ImplementsBigKernelLock, Abstract!Spec

-----------------------------------------------------------------------------
(* The start *)


(* The big kernel lock does what SpinLock says while processors start. *)
THEOREM UsesTheLock == BootSpec => Spec
<1>1. BootInit => Init
  BY DEF BootInit
<1>2. [BootNext]_allVars => [Next]_vars
  <2> SUFFICES ASSUME [BootNext]_allVars PROVE [Next]_vars
    OBVIOUS
  <2>1. CASE \E c \in CPUS : LockStep(c)
    BY <2>1 DEF LockStep, Next
  <2>2. CASE BootStep
    BY <2>2 DEF BootStep, BootAps, GiveStack, StartAp, Waited, CreateEnvs, lockVars, vars
  <2>3. CASE \E c \in CPUS : ApStep(c)
    BY <2>3 DEF ApStep, LoadStack, MapRead, MapStore, Report, Schedule, lockVars, vars
  <2>4. CASE UNCHANGED allVars
    BY <2>4 DEF allVars, lockVars, vars
  <2> QED
    BY <2>1, <2>2, <2>3, <2>4 DEF BootNext
<1> QED
  BY <1>1, <1>2, PTL DEF BootSpec, Spec

LEMMA BootInitIInv == BootInit => BootingIInv
<1> SUFFICES ASSUME BootInit PROVE BootingIInv
  OBVIOUS
<1> USE BootAssumption DEF Setup
<1>1. /\ \A c \in CPUS : at[c] = IF c = BootCpu THEN "lock" ELSE "off"
      /\ \A c \in CPUS : pc[c] = "out"
      /\ up = {BootCpu} /\ created = FALSE
      /\ \A c \in CPUS : stack[c] = IF c = BootCpu THEN c ELSE NoCpu
  BY DEF BootInit, Init
<1>2. BootTypeOK
  BY DEF BootInit, BootTypeOK, Phases
<1>3. OneStarts
  BY <1>1 DEF OneStarts
<1>4. Started
  BY <1>1 DEF Started
<1>5. OwnStack /\ SetupAlone /\ SchedulesCreated
  BY <1>1 DEF OwnStack, SetupAlone, SchedulesCreated
<1> QED
  BY <1>2, <1>3, <1>4, <1>5 DEF BootingIInv

(* A processor that takes a step of the lock is past boot_aps(), or is     *)
(* waiting for the lock: the start does not go on.                         *)
LEMMA LockStepIInv ==
    ASSUME BootingIInv, IInv, NEW c \in CPUS, LockStep(c)
    PROVE  BootingIInv'
<1>1. /\ UNCHANGED bootVars
      /\ \A d \in CPUS \ {c} : pc'[d] = pc[d]
      /\ at[c] \in {"running", "lock"}
  BY DEF LockStep, Step, LockReadLocked, LockReadCpu, LockXchg, LockRecord, UnlockReadLocked,
         UnlockReadCpu, UnlockClear, UnlockRelease, Goto, IInv, TypeOK
<1> QED
  BY <1>1, BootAssumption
     DEF BootingIInv, BootTypeOK, OneStarts, Started, OwnStack, SetupAlone, SchedulesCreated,
         Phases, Setup, bootVars

LEMMA BootStepIInv ==
    ASSUME BootingIInv, IInv, BootStep
    PROVE  BootingIInv'
<1> USE BootAssumption, NoCpuAssumption
    DEF BootingIInv, BootTypeOK, OneStarts, Started, OwnStack, SetupAlone, SchedulesCreated,
        Phases, Setup, Enter, lockVars
<1>1. CASE BootAps
  BY <1>1 DEF BootAps, Locks
<1>2. ASSUME NEW c \in CPUS, GiveStack(c) PROVE BootingIInv'
  BY <1>2 DEF GiveStack
<1>3. CASE StartAp
  BY <1>3 DEF StartAp
<1>4. CASE Waited
  BY <1>4 DEF Waited, Answered
<1>5. CASE CreateEnvs
  BY <1>5 DEF CreateEnvs
<1> QED
  BY <1>1, <1>2, <1>3, <1>4, <1>5 DEF BootStep

LEMMA ApStepIInv ==
    ASSUME BootingIInv, IInv, NEW c \in CPUS, ApStep(c)
    PROVE  BootingIInv'
<1> USE BootAssumption, NoCpuAssumption
    DEF BootingIInv, BootTypeOK, OneStarts, Started, OwnStack, SetupAlone, SchedulesCreated,
        Phases, Setup, Enter, lockVars
<1>1. CASE LoadStack(c)
  BY <1>1 DEF LoadStack
<1>2. CASE MapRead(c)
  BY <1>2 DEF MapRead
<1>3. CASE MapStore(c)
  BY <1>3 DEF MapStore
<1>4. CASE Report(c)
  BY <1>4 DEF Report
(* The processor has the lock, so the boot processor has given it back and *)
(* is past the creation of the environments.                               *)
<1>5. CASE Schedule(c)
  <2>1. at[BootCpu] = "running"
    <3>1. at[BootCpu] \notin {"loop", "send", "wait"}
      BY <1>5 DEF Schedule, IInv, MutualExclusion, Owns
    <3>2. at[BootCpu] # "lock"
      BY <1>5 DEF Schedule
    <3> QED
      BY <3>1, <3>2
  <2> QED
    BY <1>5, <2>1 DEF Schedule
<1> QED
  BY <1>1, <1>2, <1>3, <1>4, <1>5 DEF ApStep

(* The start of the processors keeps the lock and what boot_aps() and      *)
(* mp_main() share in order, for any number of processors.                 *)
THEOREM BootInvariance == BootSpec => []BootIInv
<1>1. BootingIInv /\ IInv /\ [BootNext]_allVars => BootingIInv'
  <2> SUFFICES ASSUME BootingIInv, IInv, [BootNext]_allVars PROVE BootingIInv'
    OBVIOUS
  <2>1. CASE UNCHANGED allVars
    BY <2>1 DEF allVars, lockVars, bootVars, BootingIInv, BootTypeOK, OneStarts, Started,
                OwnStack, SetupAlone, SchedulesCreated
  <2> QED
    BY <2>1, BootStepIInv, ApStepIInv, LockStepIInv DEF BootNext
<1>2. Spec => []IInv
  BY Invariance
<1>3. BootIInv <=> IInv /\ BootingIInv
  BY DEF BootIInv
<1> QED
  BY <1>1, <1>2, <1>3, UsesTheLock, BootInitIInv, PTL DEF BootSpec

(* Every processor has a stack of its own, although mpentry_kstack is one  *)
(* variable.                                                               *)
THEOREM StacksAreOwn == BootSpec => []OwnStack
<1>1. BootIInv => OwnStack
  BY DEF BootIInv, BootingIInv
<1> QED
  BY <1>1, BootInvariance, PTL

(* The work of mp_main() without the lock is done by one processor. *)
THEOREM SetupIsAlone == BootSpec => []SetupAlone
<1>1. BootIInv => SetupAlone
  BY DEF BootIInv, BootingIInv
<1> QED
  BY <1>1, BootInvariance, PTL

(* sched_yield() is first called when there is something to run. *)
THEOREM NobodyTooEarly == BootSpec => []SchedulesCreated
<1>1. BootIInv => SchedulesCreated
  BY DEF BootIInv, BootingIInv
<1> QED
  BY <1>1, BootInvariance, PTL

(* The lock is exclusive while processors start and ever after. *)
THEOREM BootIsExclusive == BootSpec => []MutualExclusion
BY UsesTheLock, LockIsExclusive, PTL

-----------------------------------------------------------------------------
(* The free list *)

LEMMA Joined ==
    ASSUME NEW S, NEW a \in Seq(S), NEW b \in Seq(S), NEW p \in S
    PROVE  /\ (a \o <<p>>) \o b \in Seq(S)
           /\ Len((a \o <<p>>) \o b) = Len(a) + Len(b) + 1
           /\ \A j \in 1..Len(a) : ((a \o <<p>>) \o b)[j] = a[j]
           /\ ((a \o <<p>>) \o b)[Len(a) + 1] = p
           /\ \A j \in 1..Len(b) : ((a \o <<p>>) \o b)[Len(a) + 1 + j] = b[j]
<1> DEFINE ap == a \o <<p>>
           t  == ap \o b
<1>1. Len(a) \in Nat /\ Len(b) \in Nat
  BY LenProperties
<1>2. <<p>> \in Seq(S) /\ Len(<<p>>) = 1 /\ <<p>>[1] = p
  OBVIOUS
<1>3. /\ ap \in Seq(S) /\ Len(ap) = Len(a) + 1
      /\ \A j \in 1..Len(a) + 1 : ap[j] = IF j <= Len(a) THEN a[j] ELSE <<p>>[j - Len(a)]
  BY <1>2, ConcatProperties, ZenonT(60)
<1> HIDE DEF ap
<1>4. /\ t \in Seq(S) /\ Len(t) = Len(ap) + Len(b)
      /\ \A j \in 1..Len(ap) + Len(b) :
             t[j] = IF j <= Len(ap) THEN ap[j] ELSE b[j - Len(ap)]
  <2>1. ap \in Seq(S)
    BY <1>3
  <2> QED
    BY <2>1, ConcatProperties, ZenonT(60)
<1> HIDE DEF t
<1>5. ASSUME NEW j \in 1..Len(a) PROVE t[j] = a[j]
  BY <1>1, <1>3, <1>4
<1>6. t[Len(a) + 1] = p
  <2>1. t[Len(a) + 1] = ap[Len(a) + 1]
    BY <1>1, <1>3, <1>4
  <2>2. ap[Len(a) + 1] = <<p>>[(Len(a) + 1) - Len(a)]
    BY <1>1, <1>3
  <2>3. (Len(a) + 1) - Len(a) = 1
    BY <1>1
  <2> QED
    BY <1>2, <2>1, <2>2, <2>3
<1>7. ASSUME NEW j \in 1..Len(b) PROVE t[Len(a) + 1 + j] = b[j]
  <2>1. t[Len(a) + 1 + j] = b[(Len(a) + 1 + j) - Len(ap)]
    BY <1>1, <1>3, <1>4
  <2>2. (Len(a) + 1 + j) - Len(ap) = j
    BY <1>1, <1>3
  <2> QED
    BY <2>1, <2>2
<1>8. t \in Seq(S) /\ Len(t) = Len(a) + Len(b) + 1
  BY <1>1, <1>3, <1>4
<1> QED
  BY <1>5, <1>6, <1>7, <1>8 DEF t, ap

(* s with p inserted after its first i elements, as page_free() links it in. *)
Inserted(s, p, i) == SubSeq(s, 1, i) \o <<p>> \o SubSeq(s, i + 1, Len(s))

LEMMA Insertion ==
    ASSUME NEW s \in Seq(Pages), NEW p \in Pages, NEW i \in 0..Len(s)
    PROVE  /\ Inserted(s, p, i) \in Seq(Pages)
           /\ Len(Inserted(s, p, i)) = Len(s) + 1
           /\ \A j \in 1..i : Inserted(s, p, i)[j] = s[j]
           /\ Inserted(s, p, i)[i + 1] = p
           /\ \A j \in (i + 2)..(Len(s) + 1) : Inserted(s, p, i)[j] = s[j - 1]
<1> DEFINE a == SubSeq(s, 1, i)
           b == SubSeq(s, i + 1, Len(s))
           t == (a \o <<p>>) \o b
<1>1. Len(s) \in Nat /\ i \in Nat /\ i <= Len(s)
  BY LenProperties
<1>3. a \in Seq(Pages) /\ Len(a) = i /\ \A j \in 1..i : a[j] = s[j]
  BY <1>1
<1>4. /\ b \in Seq(Pages) /\ Len(b) = Len(s) - i
      /\ \A j \in 1..Len(s) - i : b[j] = s[i + j]
  BY <1>1
<1> HIDE DEF a, b
<1>5. /\ t \in Seq(Pages)
      /\ Len(t) = Len(a) + Len(b) + 1
      /\ \A j \in 1..Len(a) : t[j] = a[j]
      /\ t[Len(a) + 1] = p
      /\ \A j \in 1..Len(b) : t[Len(a) + 1 + j] = b[j]
  <2>1. a \in Seq(Pages) /\ b \in Seq(Pages) /\ p \in Pages
    BY <1>3, <1>4
  <2> QED
    BY ONLY <2>1, Joined
<1>6. Inserted(s, p, i) = t
  BY DEF Inserted, a, b
<1> HIDE DEF t
<1>7. \A j \in 1..i : t[j] = s[j]
  BY <1>3, <1>5
<1>8. ASSUME NEW j \in (i + 2)..(Len(s) + 1) PROVE t[j] = s[j - 1]
  <2>1. j - (i + 1) \in 1..Len(s) - i /\ i + 1 + (j - (i + 1)) = j /\ i + (j - (i + 1)) = j - 1
    BY <1>1
  <2>2. t[i + 1 + (j - (i + 1))] = b[j - (i + 1)]
    BY <1>3, <1>4, <1>5, <2>1
  <2>3. b[j - (i + 1)] = s[i + (j - (i + 1))]
    BY <1>4, <2>1
  <2> QED
    BY <2>1, <2>2, <2>3
<1>9. Len(t) = Len(s) + 1
  BY <1>1, <1>3, <1>4, <1>5
<1> QED
  BY <1>3, <1>5, <1>6, <1>7, <1>8, <1>9

(* What page_free() does to the list. *)
LEMMA FreeInserts ==
    ASSUME ListTypeOK, NEW p \in Pages, PageFree(p)
    PROVE  \E i \in 0..Len(page_free_list) :
              /\ Stops(p, i)
              /\ page_free_list' \in Seq(Pages)
              /\ Len(page_free_list') = Len(page_free_list) + 1
              /\ \A j \in 1..i : page_free_list'[j] = page_free_list[j]
              /\ page_free_list'[i + 1] = p
              /\ \A j \in (i + 2)..(Len(page_free_list) + 1) :
                     page_free_list'[j] = page_free_list[j - 1]
<1>1. PICK i \in 0..Len(page_free_list) :
        Stops(p, i) /\ page_free_list' = Inserted(page_free_list, p, i)
  BY Zenon DEF PageFree, Inserted, Linked, Before, After
<1>2. page_free_list \in Seq(Pages)
  BY DEF ListTypeOK
<1> QED
  BY <1>1, <1>2, Insertion, Zenon

(* The list that mem_init() leaves. *)
LEMMA InitList ==
    ASSUME ListInit
    PROVE  /\ page_free_list \in Seq(Pages) /\ Len(page_free_list) = NPAGES - 1
           /\ \A i \in Pages :
                 page_free_list[i] = IF i < NLOW THEN NLOW - i ELSE NPAGES + NLOW - 1 - i
<1>1. \A i \in Pages : (IF i < NLOW THEN NLOW - i ELSE NPAGES + NLOW - 1 - i) \in Pages
  BY NpagesAssumption DEF Pages
<1>2. NPAGES - 1 \in Nat /\ page_free_list \in [1..NPAGES-1 -> Pages]
  BY <1>1, NpagesAssumption DEF ListInit, Pages
<1>3. page_free_list \in Seq(Pages) /\ Len(page_free_list) = NPAGES - 1
  BY <1>2, NpagesAssumption
<1> QED
  BY <1>3 DEF ListInit

LEMMA ListInitInv == ListInit => ListIInv
<1> SUFFICES ASSUME ListInit PROVE ListIInv
  OBVIOUS
<1>1. ListTypeOK
  BY InitList DEF ListTypeOK
<1>2. NoTwice
  <2> DEFINE page(i) == IF i < NLOW THEN NLOW - i ELSE NPAGES + NLOW - 1 - i
  <2>1. Len(page_free_list) = NPAGES - 1 /\ \A i \in 1..NPAGES-1 : page_free_list[i] = page(i)
    BY InitList DEF Pages
  <2>2. ASSUME NEW i \in 1..NPAGES-1, NEW j \in 1..NPAGES-1, i # j PROVE page(i) # page(j)
    BY <2>2, NpagesAssumption
  <2> QED
    BY <2>1, <2>2 DEF NoTwice
<1> QED
  BY <1>1, <1>2 DEF ListIInv

LEMMA ListNextInv == ListIInv /\ [ListNext]_page_free_list => ListIInv'
<1> SUFFICES ASSUME ListIInv, [ListNext]_page_free_list PROVE ListIInv'
  OBVIOUS
<1> USE DEF ListIInv, ListTypeOK
<1>1. CASE PageAlloc
  <2>1. /\ page_free_list' \in Seq(Pages)
        /\ Len(page_free_list') = Len(page_free_list) - 1
        /\ \A j \in 1..Len(page_free_list') : page_free_list'[j] = page_free_list[j + 1]
    BY <1>1 DEF PageAlloc
  <2> QED
    BY <2>1 DEF NoTwice
<1>2. ASSUME NEW p \in Pages, PageFree(p) PROVE ListIInv'
  <2> DEFINE s == page_free_list
             t == page_free_list'
  <2>1. PICK i \in 0..Len(s) :
          /\ Stops(p, i)
          /\ t \in Seq(Pages)
          /\ Len(t) = Len(s) + 1
          /\ \A j \in 1..i : t[j] = s[j]
          /\ t[i + 1] = p
          /\ \A j \in (i + 2)..(Len(s) + 1) : t[j] = s[j - 1]
    BY <1>2, FreeInserts, Zenon
  <2>2. Len(s) \in Nat /\ i \in Nat /\ i <= Len(s)
    BY LenProperties
  <2>3. \A j \in 1..Len(s) : s[j] # p
    BY <1>2 DEF PageFree
  <2>4. NoTwice'
    <3> DEFINE old(j) == IF j <= i THEN j ELSE j - 1
    <3> SUFFICES ASSUME NEW j \in 1..Len(t), NEW k \in 1..Len(t), j < k
                 PROVE  t[j] # t[k]
      BY <2>1, <2>2 DEF NoTwice
    <3>1. \A n \in 1..Len(t) : n # i + 1 => t[n] = s[old(n)] /\ old(n) \in 1..Len(s)
      BY <2>1, <2>2
    <3>2. CASE j = i + 1
      <4>1. t[k] = s[old(k)] /\ old(k) \in 1..Len(s)
        BY <2>2, <3>1, <3>2
      <4> QED
        BY <2>1, <2>3, <3>2, <4>1
    <3>3. CASE k = i + 1
      <4>1. t[j] = s[old(j)] /\ old(j) \in 1..Len(s)
        BY <2>2, <3>1, <3>3
      <4> QED
        BY <2>1, <2>3, <3>3, <4>1
    <3>4. CASE j # i + 1 /\ k # i + 1
      <4>1. old(j) # old(k)
        BY <2>1, <2>2, <3>4
      <4>2. t[j] = s[old(j)] /\ old(j) \in 1..Len(s) /\ t[k] = s[old(k)] /\ old(k) \in 1..Len(s)
        BY <3>1, <3>4
      <4> QED
        BY <4>1, <4>2 DEF NoTwice
    <3> QED
      BY <3>2, <3>3, <3>4
  <2> QED
    BY <2>1, <2>2, <2>4
<1>3. CASE UNCHANGED page_free_list
  BY <1>3 DEF NoTwice
<1> QED
  BY <1>1, <1>2, <1>3 DEF ListNext

(* No page is in the list twice, whatever the order in which pages come    *)
(* back and wherever the walk of page_free() stops.                        *)
THEOREM ListInvariance == ListSpec => []ListIInv
BY ListInitInv, ListNextInv, PTL DEF ListSpec

-----------------------------------------------------------------------------
(* The refinement *)

LEMMA InitFree == ListInit => Pool!Init
<1> SUFFICES ASSUME ListInit PROVE free = 1..NPAGES-1
  BY DEF Pool!Init
<1>1. ASSUME NEW p \in 1..NPAGES-1 PROVE p \in free
  <2> DEFINE i == IF p < NLOW THEN NLOW - p ELSE NPAGES + NLOW - 1 - p
  <2>1. i \in Pages
    BY NpagesAssumption DEF Pages
  <2>2. i \in 1..Len(page_free_list)
    BY <2>1, InitList DEF Pages
  <2>3. page_free_list[i] = IF i < NLOW THEN NLOW - i ELSE NPAGES + NLOW - 1 - i
    BY <2>1, InitList
  <2>4. page_free_list[i] = p
    BY <2>3, NpagesAssumption
  <2> QED
    BY <2>2, <2>4 DEF free
<1>2. ASSUME NEW p \in free PROVE p \in 1..NPAGES-1
  <2>1. PICK i \in 1..Len(page_free_list) : p = page_free_list[i]
    BY DEF free
  <2> QED
    BY <2>1, InitList DEF Pages
<1> QED
  BY <1>1, <1>2

LEMMA StepFree ==
    ListIInv /\ [ListNext]_page_free_list => [Pool!Next]_free
<1> SUFFICES ASSUME ListIInv, [ListNext]_page_free_list PROVE [Pool!Next]_free
  OBVIOUS
<1> DEFINE s == page_free_list
           t == page_free_list'
<1>1. CASE PageAlloc
  <2>1. /\ t \in Seq(Pages) /\ s \in Seq(Pages)
        /\ Len(t) = Len(s) - 1 /\ 1 \in 1..Len(s)
        /\ \A j \in 1..Len(t) : t[j] = s[j + 1]
    BY <1>1 DEF PageAlloc, ListIInv, ListTypeOK
  <2>2. \A j \in 2..Len(s) : s[1] # s[j]
    BY <2>1 DEF ListIInv, NoTwice
  <2>3. s[1] \in free
    BY <2>1 DEF free
  <2>4. ASSUME NEW q \in free' PROVE q \in free /\ q # s[1]
    <3>1. PICK j \in 1..Len(t) : q = t[j]
      BY DEF free
    <3>2. j + 1 \in 2..Len(s) /\ q = s[j + 1]
      BY <2>1, <3>1
    <3> QED
      BY <2>1, <2>2, <3>2 DEF free
  <2>5. ASSUME NEW q \in free, q # s[1] PROVE q \in free'
    <3>1. PICK j \in 1..Len(s) : q = s[j]
      BY DEF free
    <3>2. j - 1 \in 1..Len(t) /\ q = t[j - 1]
      BY <2>1, <2>5, <3>1
    <3> QED
      BY <3>2 DEF free
  <2>6. free' = free \ {s[1]}
    BY <2>4, <2>5
  <2> QED
    BY <2>3, <2>6 DEF Pool!Next, Pool!Alloc
<1>2. ASSUME NEW p \in Pages, PageFree(p) PROVE [Pool!Next]_free
  <2>1. PICK i \in 0..Len(s) :
          /\ Stops(p, i)
          /\ t \in Seq(Pages)
          /\ Len(t) = Len(s) + 1
          /\ \A j \in 1..i : t[j] = s[j]
          /\ t[i + 1] = p
          /\ \A j \in (i + 2)..(Len(s) + 1) : t[j] = s[j - 1]
    BY <1>2, FreeInserts, Zenon DEF ListIInv
  <2>2. Len(s) \in Nat /\ i \in Nat /\ i <= Len(s)
    BY LenProperties DEF ListIInv, ListTypeOK
  <2>3. p \notin free
    BY <1>2 DEF PageFree, free
  <2>4. ASSUME NEW q \in free' PROVE q \in free \/ q = p
    <3>1. PICK j \in 1..Len(t) : q = t[j]
      BY DEF free
    <3>2. CASE j <= i
      BY <2>1, <2>2, <3>1, <3>2 DEF free
    <3>3. CASE j = i + 1
      BY <2>1, <2>2, <3>1, <3>3
    <3>4. CASE j >= i + 2
      <4>1. j - 1 \in 1..Len(s) /\ q = s[j - 1]
        BY <2>1, <2>2, <3>1, <3>4
      <4> QED
        BY <4>1 DEF free
    <3> QED
      BY <3>2, <3>3, <3>4
  <2>5. ASSUME NEW q \in free PROVE q \in free'
    <3>1. PICK j \in 1..Len(s) : q = s[j]
      BY DEF free
    <3>2. CASE j <= i
      <4>1. j \in 1..Len(t) /\ q = t[j]
        BY <2>1, <2>2, <3>1, <3>2
      <4> QED
        BY <4>1 DEF free
    <3>3. CASE j > i
      <4>1. j + 1 \in 1..Len(t) /\ j + 1 \in i+2..Len(t) /\ q = t[j + 1]
        BY <2>1, <2>2, <3>1, <3>3
      <4> QED
        BY <4>1 DEF free
    <3> QED
      BY <3>2, <3>3
  <2>6. p \in free'
    BY <2>1, <2>2 DEF free
  <2>7. free' = free \cup {p}
    BY <2>4, <2>5, <2>6
  <2> QED
    BY <2>3, <2>7 DEF Pool!Next, Pool!Free, Pages
<1>3. CASE UNCHANGED page_free_list
  BY <1>3 DEF free
<1> QED
  BY <1>1, <1>2, <1>3 DEF ListNext

(* The list is a set of pages: page_alloc() and page_free() never lose or  *)
(* duplicate a page.                                                       *)
THEOREM ListImplementation == ListSpec => ImplementsPagePool
BY InitFree, ListInvariance, StepFree, PTL DEF ListSpec, ImplementsPagePool, Pool!Spec

-----------------------------------------------------------------------------
(* The console *)

Cells == Chars \cup {None}
Glyphs == Chars \cup {Prompt, Blank}

BlankAfter == \A k \in crt.pos..CRT_SIZE-1 : crt.buf[k] = Blank

(* The prompt and then the line are before the cursor. *)
Shows(s, n, l) ==
    /\ s.pos >= n + 1 /\ s.buf[s.pos - n - 1] = Prompt
    /\ \A k \in 1..n : s.buf[s.pos - n - 1 + k] = l[k]
Echo == asked => Shows(crt, Len(line), line)

(* The invariant that is inductive. *)
KInv == ConsoleTypeOK /\ Asking /\ RingChars /\ BlankAfter /\ Echo

LEMMA Sizes ==
    /\ CONSBUFSIZE \in Nat /\ CONSBUFSIZE > 1 /\ BUFLEN \in Nat \ {0}
    /\ CRT_COLS \in Nat \ {0} /\ CRT_SIZE \in Nat /\ CRT_SIZE > BUFLEN + CRT_COLS
    /\ Shell \in Readers /\ Nothing \notin Readers /\ Others \subseteq Readers /\ Shell \notin Others
<1>1. CRT_SIZE \in Nat
  <2>1. CRT_ROWS \in Nat /\ CRT_COLS \in Nat
    BY ConsoleAssumption
  <2> QED
    BY <2>1 DEF CRT_SIZE
<1> QED
  BY <1>1, ConsoleAssumption DEF Readers

LEMMA Symbols ==
    /\ BS \in Chars /\ DEL \in Chars /\ NL \in Chars /\ EOT \in Chars /\ Letters \subseteq Chars
    /\ None \notin Chars /\ Nothing \notin Chars /\ Nothing # None
    /\ \A c \in Letters \cup {DEL} : c # BS /\ c # NL
    /\ Prompt # BS /\ Prompt # NL /\ NL # BS
<1>1. Letters \cap {Nothing, None, BS, DEL, NL, EOT} = {}
  BY ConsoleAssumption
<1> QED
  BY <1>1 DEF Chars, Nothing, None, BS, DEL, NL, EOT, Prompt

-----------------------------------------------------------------------------
(* Places of the ring *)

LEMMA Once ==
    ASSUME NEW N \in Nat \ {0}, NEW x \in Nat, x < 2 * N
    PROVE  x % N = IF x < N THEN x ELSE x - N
<1> DEFINE q == x \div N
           r == x % N
<1>1. r \in 0..N-1 /\ q \in Int /\ x = N * q + r
  OBVIOUS
<1> HIDE DEF q, r
<1>2. CASE q >= 2
  <2>1. N * (q - 2) >= 0
    BY <1>1, <1>2
  <2>2. N * q = N * (q - 2) + 2 * N
    BY <1>1
  <2> QED
    BY <1>1, <2>1, <2>2
<1>3. CASE q <= -1
  <2>1. N * (-1 - q) >= 0
    BY <1>1, <1>3
  <2>2. N * q = -N - N * (-1 - q)
    BY <1>1
  <2> QED
    BY <1>1, <2>1, <2>2
<1>4. CASE q = 0
  BY <1>1, <1>4 DEF r
<1>5. CASE q = 1
  BY <1>1, <1>5 DEF r
<1> QED
  BY <1>1, <1>2, <1>3, <1>4, <1>5

Places == 0..CONSBUFSIZE-1
At(n)  == IF n < CONSBUFSIZE THEN n ELSE n - CONSBUFSIZE

Between(r, w) == IF r <= w THEN w - r ELSE w + CONSBUFSIZE - r

(* Counting around the ring. *)
LEMMA Around ==
    ASSUME NEW r \in Places, NEW w \in Places
    PROVE  /\ Between(r, w) \in 0..CONSBUFSIZE-1 /\ At(r + 1) \in Places /\ At(w + 1) \in Places
           /\ Between(r, At(w + 1)) = IF Between(r, w) = CONSBUFSIZE - 1 THEN 0
                                      ELSE Between(r, w) + 1
           /\ r # w => Between(r, w) >= 1 /\ Between(At(r + 1), w) = Between(r, w) - 1
           /\ At(r + Between(r, w)) = w
<1>1. CONSBUFSIZE \in Nat /\ CONSBUFSIZE > 1
  BY Sizes
<1> QED
  BY <1>1 DEF Between, At, Places

LEMMA Along ==
    ASSUME NEW r \in Places, NEW w \in Places, NEW k \in 1..Between(r, w)
    PROVE  At(r + k - 1) \in Places /\ At(r + k - 1) # w
<1>1. CONSBUFSIZE \in Nat /\ CONSBUFSIZE > 1
  BY Sizes
<1> QED
  BY <1>1 DEF Between, At, Places

LEMMA OneOn ==
    ASSUME NEW r \in Places, NEW k \in 1..CONSBUFSIZE-1
    PROVE  At(At(r + 1) + k - 1) = At(r + (k + 1) - 1)
<1>1. CONSBUFSIZE \in Nat /\ CONSBUFSIZE > 1
  BY Sizes
<1> QED
  BY <1>1 DEF At, Places

(* A sequence is a function on its places. *)
LEMMA SeqIsMap ==
    ASSUME NEW S, NEW s \in Seq(S)
    PROVE  s = [k \in 1..Len(s) |-> s[k]]
BY LenProperties, Zenon

RingFacts ==
    /\ cons.rpos \in Places /\ cons.wpos \in Places /\ cons.buf \in [Places -> Cells]
    /\ Wrap(cons.wpos) = At(cons.wpos + 1) /\ Wrap(cons.rpos) = At(cons.rpos + 1)
    /\ Waiting = Between(cons.rpos, cons.wpos)
    /\ Ring = [k \in 1..Waiting |-> cons.buf[At(cons.rpos + k - 1)]]

LEMMA RingIs == ConsoleTypeOK => RingFacts
<1> SUFFICES ASSUME ConsoleTypeOK PROVE RingFacts
  OBVIOUS
<1>1. cons.rpos \in Places /\ cons.wpos \in Places /\ cons.buf \in [Places -> Cells]
  BY DEF ConsoleTypeOK, Places, Cells
<1>2. ASSUME NEW n \in Nat, n < 2 * CONSBUFSIZE
      PROVE  n % CONSBUFSIZE = At(n)
  <2>1. CONSBUFSIZE \in Nat \ {0}
    BY Sizes
  <2>2. n % CONSBUFSIZE = IF n < CONSBUFSIZE THEN n ELSE n - CONSBUFSIZE
    BY <1>2, <2>1, Once, Zenon
  <2> QED
    BY ONLY <2>2 DEF At
<1>3. Wrap(cons.wpos) = At(cons.wpos + 1) /\ Wrap(cons.rpos) = At(cons.rpos + 1)
  BY Sizes, <1>1, <1>2 DEF Wrap, Places
<1>4. Waiting = Between(cons.rpos, cons.wpos) /\ Waiting \in 0..CONSBUFSIZE-1
  <2> DEFINE n == cons.wpos + CONSBUFSIZE - cons.rpos
  <2>1. n \in Nat /\ n < 2 * CONSBUFSIZE
    BY Sizes, <1>1 DEF Places
  <2>2. Waiting = At(n)
    BY <1>2, <2>1 DEF Waiting
  <2> QED
    BY Sizes, <1>1, <2>1, <2>2 DEF At, Places, Between
<1>5. ASSUME NEW k \in 1..Waiting
      PROVE  (cons.rpos + k - 1) % CONSBUFSIZE = At(cons.rpos + k - 1)
  <2>1. PICK n \in Nat : n = cons.rpos + k - 1
    BY <1>1, <1>4 DEF Places
  <2>2. n < 2 * CONSBUFSIZE
    BY Sizes, <1>1, <1>4, <2>1 DEF Places
  <2> QED
    BY <1>2, <2>1, <2>2, Zenon
<1>6. Ring = [k \in 1..Waiting |-> cons.buf[At(cons.rpos + k - 1)]]
  BY <1>5 DEF Ring
<1> QED
  BY <1>1, <1>3, <1>4, <1>6 DEF RingFacts

LEMMA InitKInv == ConsoleInit => KInv
<1> SUFFICES ASSUME ConsoleInit PROVE KInv
  OBVIOUS
<1> USE DEF ConsoleInit
<1>1. ConsoleTypeOK
  <2>1. cons \in [buf : [0..CONSBUFSIZE-1 -> Chars \cup {None}],
                  rpos : 0..CONSBUFSIZE-1, wpos : 0..CONSBUFSIZE-1]
    BY Sizes
  <2>2. crt \in [buf : [0..CRT_SIZE-1 -> Chars \cup {Prompt, Blank}], pos : 0..CRT_SIZE-1]
    BY ConsoleAssumption
  <2>3. dev \in [Devices -> Seq(Chars \cup {None})] /\ \A d \in Devices : Len(dev[d]) <= FIFO
    BY ConsoleAssumption
  <2>4. has \in [Readers -> Chars \cup {Nothing}] /\ asked \in BOOLEAN
        /\ poller \in Readers \cup {Nothing} /\ todo \subseteq Devices
    OBVIOUS
  <2>5. line \in Seq(Letters \cup {DEL}) /\ Len(line) < BUFLEN
    BY Sizes
  <2> QED
    BY <2>1, <2>2, <2>3, <2>4, <2>5 DEF ConsoleTypeOK
<1>2. Asking /\ BlankAfter /\ Echo
  <2>1. PICK p \in Cursors : crt = [buf |-> [k \in 0..CRT_SIZE-1 |-> Blank], pos |-> p]
    OBVIOUS
  <2>2. p \in 0..CRT_SIZE-1
    BY ConsoleAssumption
  <2> QED
    BY <2>1, <2>2, Sizes DEF Asking, BlankAfter, Echo
<1>3. RingChars
  <2>1. Waiting = 0
    BY <1>1, RingIs, Sizes DEF RingFacts, Between
  <2>2. Ring = << >>
    BY <2>1 DEF Ring
  <2> QED
    BY <2>1, <2>2 DEF RingChars
<1> QED
  BY <1>1, <1>2, <1>3 DEF KInv

-----------------------------------------------------------------------------
(* What comes into the ring, and what goes out *)

(* The ring as a sequence, by its places. *)
LEMMA RingAt ==
    ASSUME ConsoleTypeOK, RingChars
    PROVE  \A k \in 1..Waiting : /\ Ring[k] = cons.buf[At(cons.rpos + k - 1)]
                                 /\ cons.buf[At(cons.rpos + k - 1)] \in Chars
<1>1. Ring = [k \in 1..Waiting |-> cons.buf[At(cons.rpos + k - 1)]] /\ Waiting \in Nat
  <2>1. RingFacts
    BY RingIs
  <2>2. Between(cons.rpos, cons.wpos) \in 0..CONSBUFSIZE-1
    BY <2>1, Around DEF RingFacts
  <2> QED
    BY <2>1, <2>2, Sizes DEF RingFacts
<1>2. Ring \in Seq(Chars) /\ Len(Ring) = Waiting
  BY DEF RingChars
<1> QED
  BY <1>1, <1>2

LEMMA StoreIsPut ==
    ASSUME ConsoleTypeOK, RingChars, ConsoleTypeOK', NEW c \in Chars, cons' = Stored(c)
    PROVE  /\ RingChars'
           /\ Ring' = IF Len(Ring) = CONSBUFSIZE - 1 THEN << >> ELSE Append(Ring, c)
<1> DEFINE R == cons.rpos
           W == cons.wpos
           n == Waiting
<1>1. /\ R \in Places /\ W \in Places /\ cons.buf \in [Places -> Cells]
      /\ Wrap(W) = At(W + 1) /\ n = Between(R, W)
  BY RingIs DEF RingFacts
<1>2. cons'.rpos = R /\ cons'.wpos = At(W + 1) /\ cons'.buf = [cons.buf EXCEPT ![W] = c]
  BY <1>1 DEF Stored, ConsoleTypeOK
<1>3. /\ Waiting' = IF n = CONSBUFSIZE - 1 THEN 0 ELSE n + 1
      /\ Ring' = [k \in 1..Waiting' |-> cons'.buf[At(R + k - 1)]]
  <2>1. RingFacts'
    BY RingIs, PTL
  <2>2. Waiting' = Between(R, At(W + 1)) /\ Ring' = [k \in 1..Waiting' |-> cons'.buf[At(R + k - 1)]]
    BY <1>2, <2>1 DEF RingFacts, At, Between
  <2> QED
    BY <1>1, <2>2, Around
<1>4. Len(Ring) = n /\ Ring \in Seq(Chars) /\ n \in Nat
  BY DEF RingChars
<1> HIDE DEF n
<1>5. CASE n = CONSBUFSIZE - 1
  <2>1. Ring' = << >> /\ Waiting' = 0
    BY <1>3, <1>5
  <2> QED
    BY <1>4, <1>5, <2>1 DEF RingChars
<1>6. CASE n # CONSBUFSIZE - 1
  <2>1. Waiting' = n + 1
    BY <1>3, <1>6
  <2>2. Append(Ring, c) \in Seq(Chars) /\ Len(Append(Ring, c)) = n + 1
    BY <1>4
  <2>3. ASSUME NEW k \in 1..n + 1
        PROVE  cons'.buf[At(R + k - 1)] = Append(Ring, c)[k]
    <3>1. CASE k = n + 1
      <4>1. At(R + Between(R, W)) = W
        BY <1>1, Around
      <4>3. R + k - 1 = R + Between(R, W)
        BY <1>1, <1>4, <3>1 DEF Places
      <4>2. Append(Ring, c)[k] = c
        BY <1>4, <3>1
      <4> QED
        BY <1>1, <1>2, <4>1, <4>2, <4>3
    <3>2. CASE k \in 1..n
      <4>1. At(R + k - 1) # W /\ At(R + k - 1) \in Places
        BY <1>1, <3>2, Along
      <4>2. Append(Ring, c)[k] = Ring[k]
        BY <1>4, <3>2
      <4>3. Ring[k] = cons.buf[At(R + k - 1)]
        BY <3>2, RingAt DEF n
      <4> QED
        BY <1>1, <1>2, <4>1, <4>2, <4>3
    <3> QED
      BY <1>4, <3>1, <3>2
  <2>4. Ring' = Append(Ring, c)
    <3>1. Append(Ring, c) = [k \in 1..n + 1 |-> Append(Ring, c)[k]]
      BY <2>2, SeqIsMap
    <3>2. Ring' = [k \in 1..n + 1 |-> cons'.buf[At(R + k - 1)]]
      BY <1>3, <2>1
    <3> QED
      BY <2>3, <3>1, <3>2, Zenon
  <2>5. RingChars'
    BY <2>1, <2>2, <2>4 DEF RingChars
  <2> QED
    BY <1>4, <1>6, <2>4, <2>5
<1> QED
  BY <1>5, <1>6

LEMMA TakeIsGet ==
    ASSUME ConsoleTypeOK, RingChars, ConsoleTypeOK', cons.rpos # cons.wpos,
           cons' = [cons EXCEPT !.rpos = Wrap(@)]
    PROVE  /\ RingChars' /\ Ring # << >>
           /\ Ring' = Tail(Ring) /\ Head(Ring) = cons.buf[cons.rpos]
           /\ cons.buf[cons.rpos] \in Chars
<1> DEFINE R == cons.rpos
           W == cons.wpos
           n == Waiting
<1>1. /\ R \in Places /\ W \in Places /\ cons.buf \in [Places -> Cells]
      /\ Wrap(R) = At(R + 1) /\ n = Between(R, W)
  BY RingIs DEF RingFacts
<1>2. cons'.rpos = At(R + 1) /\ cons'.wpos = W /\ cons'.buf = cons.buf
  BY <1>1 DEF ConsoleTypeOK
<1>3. /\ n >= 1 /\ n \in 1..CONSBUFSIZE-1 /\ Waiting' = n - 1
      /\ Ring' = [k \in 1..Waiting' |-> cons.buf[At(At(R + 1) + k - 1)]]
  <2>1. RingFacts'
    BY RingIs, PTL
  <2>2. /\ Waiting' = Between(At(R + 1), W)
        /\ Ring' = [k \in 1..Waiting' |-> cons.buf[At(At(R + 1) + k - 1)]]
    BY <1>2, <2>1 DEF RingFacts, At, Between
  <2>3. n \in 0..CONSBUFSIZE-1 /\ n >= 1 /\ Between(At(R + 1), W) = n - 1
    BY <1>1, Around
  <2> QED
    BY <2>2, <2>3, Sizes
<1>4. Len(Ring) = n /\ Ring \in Seq(Chars)
  BY DEF RingChars
<1>5. Head(Ring) = cons.buf[R] /\ cons.buf[R] \in Chars
  <2>1. At(R + 1 - 1) = R /\ 1 \in 1..n
    BY Sizes, <1>1, <1>3 DEF At, Places
  <2>2. Ring[1] = cons.buf[R] /\ cons.buf[R] \in Chars
    BY <2>1, RingAt
  <2> QED
    BY <1>3, <1>4, <2>2
<1> HIDE DEF n
<1>6. Ring # << >> /\ Tail(Ring) \in Seq(Chars) /\ Len(Tail(Ring)) = n - 1
  BY <1>3, <1>4
<1>7. ASSUME NEW k \in 1..n - 1
      PROVE  cons.buf[At(At(R + 1) + k - 1)] = Tail(Ring)[k]
  <2>1. k \in 1..CONSBUFSIZE-1 /\ k + 1 \in 1..n
    BY <1>3, Sizes
  <2>2. Ring[k + 1] = cons.buf[At(R + (k + 1) - 1)]
    BY <2>1, RingAt DEF n
  <2>3. Tail(Ring)[k] = Ring[k + 1]
    BY <1>3, <1>4, <1>6
  <2> QED
    BY <1>1, <2>1, <2>2, <2>3, OneOn
<1>8. Ring' = Tail(Ring)
  <2>1. Tail(Ring) = [k \in 1..n - 1 |-> Tail(Ring)[k]]
    BY <1>6, SeqIsMap
  <2>2. Ring' = [k \in 1..n - 1 |-> cons.buf[At(At(R + 1) + k - 1)]]
    BY <1>3
  <2> QED
    BY <1>7, <2>1, <2>2, Zenon
<1>9. RingChars'
  BY <1>3, <1>6, <1>8 DEF RingChars
<1> QED
  BY <1>5, <1>6, <1>8, <1>9

-----------------------------------------------------------------------------
(* The screen *)

Screen(s) == s \in [buf : [0..CRT_SIZE-1 -> Glyphs], pos : 0..CRT_SIZE-1]
Blanks(s) == \A k \in s.pos..CRT_SIZE-1 : s.buf[k] = Blank

LEMMA ScrolledIs ==
    ASSUME NEW b, NEW p \in Nat, p >= CRT_SIZE
    PROVE  LET t == Scrolled([buf |-> b, pos |-> p])
           IN  /\ t = [buf |-> t.buf, pos |-> t.pos] /\ t.pos = p - CRT_COLS
               /\ t.buf = [k \in 0..CRT_SIZE-1 |-> IF k < CRT_SIZE - CRT_COLS
                                                   THEN b[k + CRT_COLS] ELSE Blank]
<1> DEFINE B == [k \in 0..CRT_SIZE-1 |-> IF k < CRT_SIZE - CRT_COLS THEN b[k + CRT_COLS] ELSE Blank]
           t == Scrolled([buf |-> b, pos |-> p])
<1>1. ~(p < CRT_SIZE)
  BY Sizes
<1>2. t = [buf |-> B, pos |-> p - CRT_COLS]
  BY <1>1 DEF Scrolled
<1> HIDE DEF B, t
<1>3. t.buf = B /\ t.pos = p - CRT_COLS /\ t = [buf |-> t.buf, pos |-> t.pos]
  BY <1>2
<1> QED
  BY <1>3 DEF B, t

(* What a character other than a backspace and the end of a line does. *)
LEMMA PutIs ==
    ASSUME NEW s, Screen(s), Blanks(s), NEW c \in Glyphs, c # BS, c # NL,
           NEW n \in 0..BUFLEN-1, n <= s.pos
    PROVE  LET t == cga_putc(s, c)
           IN  /\ Screen(t) /\ Blanks(t) /\ t.pos >= n + 1 /\ t.buf[t.pos - 1] = c
               /\ \A k \in 1..n : t.buf[t.pos - 1 - k] = s.buf[s.pos - k]
<1> USE Sizes
<1> DEFINE u == [buf |-> [s.buf EXCEPT ![s.pos] = c], pos |-> s.pos + 1]
           t == cga_putc(s, c)
<1>1. /\ s.pos \in 0..CRT_SIZE-1 /\ s.buf \in [0..CRT_SIZE-1 -> Glyphs]
      /\ u.pos = s.pos + 1 /\ u.buf = [s.buf EXCEPT ![s.pos] = c]
      /\ Blank \in Glyphs
  BY DEF Screen, Glyphs
<1>2. u.buf \in [0..CRT_SIZE-1 -> Glyphs] /\ u.buf[s.pos] = c
      /\ \A k \in 0..CRT_SIZE-1 : k # s.pos => u.buf[k] = s.buf[k]
  BY <1>1
<1>3. t = Scrolled(u)
  BY DEF cga_putc
<1> HIDE DEF u, t
<1>4. CASE u.pos < CRT_SIZE
  <2>1. t = u
    BY <1>3, <1>4 DEF Scrolled
  <2>2. Screen(t)
    BY <1>1, <1>2, <1>4, <2>1 DEF Screen, u
  <2>3. Blanks(t)
    <3>1. ASSUME NEW k \in u.pos..CRT_SIZE-1 PROVE u.buf[k] = Blank
      <4>1. k \in s.pos..CRT_SIZE-1 /\ k \in 0..CRT_SIZE-1 /\ k # s.pos
        BY <1>1
      <4>2. s.buf[k] = Blank
        BY <4>1 DEF Blanks
      <4> QED
        BY <1>2, <4>1, <4>2, Zenon
    <3> QED
      BY <2>1, <3>1, Zenon DEF Blanks
  <2>4. ASSUME NEW k \in 1..n PROVE t.buf[t.pos - 1 - k] = s.buf[s.pos - k]
    <3>1. s.pos - k \in 0..CRT_SIZE-1 /\ s.pos - k # s.pos /\ t.pos - 1 - k = s.pos - k
      BY <1>1, <2>1
    <3> QED
      BY <1>2, <2>1, <3>1
  <2> QED
    BY <1>1, <1>2, <2>1, <2>2, <2>3, <2>4 DEF t
<1>5. CASE u.pos >= CRT_SIZE
  <2>1. /\ t.buf = [k \in 0..CRT_SIZE-1 |-> IF k < CRT_SIZE - CRT_COLS THEN u.buf[k + CRT_COLS] ELSE Blank]
        /\ t.pos = u.pos - CRT_COLS
        /\ t = [buf |-> t.buf, pos |-> t.pos]
    <3>1. u = [buf |-> u.buf, pos |-> u.pos] /\ u.pos \in Nat
      BY <1>1 DEF u
    <3>2. t = Scrolled([buf |-> u.buf, pos |-> u.pos])
      BY <1>3, <3>1, Zenon
    <3> QED
      BY <1>5, <3>1, <3>2, ScrolledIs, Zenon
  <2>2. t.pos = CRT_SIZE - CRT_COLS /\ s.pos = CRT_SIZE - 1
    <3>1. s.pos \in 0..CRT_SIZE-1 /\ s.pos + 1 >= CRT_SIZE
      BY <1>1, <1>5
    <3>2. s.pos = CRT_SIZE - 1
      BY <3>1
    <3>3. u.pos = s.pos + 1
      BY <1>1
    <3>4. t.pos = (s.pos + 1) - CRT_COLS
      BY <2>1, <3>3, Zenon
    <3> QED
      BY <3>2, <3>4
  <2>3. t.buf \in [0..CRT_SIZE-1 -> Glyphs]
    <3>1. ASSUME NEW k \in 0..CRT_SIZE-1
          PROVE  (IF k < CRT_SIZE - CRT_COLS THEN u.buf[k + CRT_COLS] ELSE Blank) \in Glyphs
      BY <1>1, <1>2
    <3> QED
      BY <2>1, <3>1
  <2>4. Screen(t) /\ Blanks(t)
    <3>1. t.pos \in 0..CRT_SIZE-1
      BY <2>2
    <3>2. ASSUME NEW k \in t.pos..CRT_SIZE-1 PROVE t.buf[k] = Blank
      <4>1. k \in 0..CRT_SIZE-1 /\ ~(k < CRT_SIZE - CRT_COLS)
        BY <2>2
      <4> QED
        BY <2>1, <4>1, Zenon
    <3> QED
      BY <2>1, <2>3, <3>1, <3>2, Zenon DEF Screen, Blanks
  <2>5. ASSUME NEW k \in 1..n + 1 PROVE t.buf[t.pos - k] = u.buf[CRT_SIZE - k]
    <3>1. /\ t.pos - k \in 0..CRT_SIZE-1 /\ t.pos - k < CRT_SIZE - CRT_COLS
          /\ (t.pos - k) + CRT_COLS = CRT_SIZE - k
      BY <2>2
    <3>2. t.buf[t.pos - k] = u.buf[(t.pos - k) + CRT_COLS]
      BY <2>1, <3>1, Zenon
    <3> QED
      BY <3>1, <3>2, Zenon
  <2>6. ASSUME NEW k \in 1..n PROVE t.buf[t.pos - 1 - k] = s.buf[s.pos - k]
    <3>1. t.buf[t.pos - (k + 1)] = u.buf[CRT_SIZE - (k + 1)]
      BY <2>5
    <3>2. /\ s.pos - k \in 0..CRT_SIZE-1 /\ s.pos - k # s.pos
          /\ CRT_SIZE - (k + 1) = s.pos - k /\ t.pos - (k + 1) = t.pos - 1 - k
      BY <1>1, <2>2
    <3>3. u.buf[s.pos - k] = s.buf[s.pos - k]
      BY <1>2, <3>2
    <3> QED
      BY <3>1, <3>2, <3>3, Zenon
  <2>7. t.buf[t.pos - 1] = c
    <3>1. 1 \in 1..n + 1 /\ CRT_SIZE - 1 = s.pos
      BY <2>2
    <3> QED
      BY <1>2, <2>5, <3>1, Zenon
  <2>8. t.pos >= n + 1
    BY <2>2
  <2> QED
    BY <2>4, <2>6, <2>7, <2>8, Zenon DEF t
<1>6. u.pos < CRT_SIZE \/ u.pos >= CRT_SIZE
  BY <1>1
<1> QED
  BY <1>4, <1>5, <1>6, Zenon

(* The end of a line. *)
LEMMA NewlineIs ==
    ASSUME NEW s, Screen(s), Blanks(s)
    PROVE  Screen(cga_putc(s, NL)) /\ Blanks(cga_putc(s, NL))
<1> USE Sizes
<1> DEFINE p == s.pos + CRT_COLS - (s.pos % CRT_COLS)
           u == [s EXCEPT !.pos = p]
           t == cga_putc(s, NL)
<1>1. s.pos \in 0..CRT_SIZE-1 /\ s.buf \in [0..CRT_SIZE-1 -> Glyphs] /\ Blank \in Glyphs
      /\ s = [buf |-> s.buf, pos |-> s.pos]
  BY DEF Screen, Glyphs
<1>2. p \in Nat /\ p > s.pos /\ p <= s.pos + CRT_COLS
  <2>1. s.pos % CRT_COLS \in 0..CRT_COLS-1
    BY <1>1
  <2> QED
    BY <1>1, <2>1
<1>3. u.pos = p /\ u.buf = s.buf /\ u = [buf |-> s.buf, pos |-> p] /\ t = Scrolled(u)
  BY <1>1, Symbols DEF cga_putc
<1> HIDE DEF p, u, t
<1>4. CASE p < CRT_SIZE
  <2>1. t = u
    BY <1>3, <1>4 DEF Scrolled
  <2> QED
    BY <1>1, <1>2, <1>3, <1>4, <2>1 DEF Screen, Blanks, t
<1>5. CASE p >= CRT_SIZE
  <2>1. /\ t.buf = [k \in 0..CRT_SIZE-1 |-> IF k < CRT_SIZE - CRT_COLS THEN s.buf[k + CRT_COLS] ELSE Blank]
        /\ t.pos = p - CRT_COLS
        /\ t = [buf |-> t.buf, pos |-> t.pos]
    BY <1>2, <1>3, <1>5, ScrolledIs
  <2>2. t.buf \in [0..CRT_SIZE-1 -> Glyphs]
    <3>1. ASSUME NEW k \in 0..CRT_SIZE-1
          PROVE  (IF k < CRT_SIZE - CRT_COLS THEN s.buf[k + CRT_COLS] ELSE Blank) \in Glyphs
      BY <1>1
    <3> QED
      BY <2>1, <3>1
  <2>3. t.pos \in 0..CRT_SIZE-1
    BY <1>1, <1>2, <1>5, <2>1
  <2>4. ASSUME NEW k \in t.pos..CRT_SIZE-1 PROVE t.buf[k] = Blank
    <3>1. k < CRT_SIZE - CRT_COLS => k + CRT_COLS \in s.pos..CRT_SIZE-1
      BY <1>1, <1>2, <2>1, <2>3
    <3> QED
      BY <2>1, <2>3, <3>1 DEF Blanks
  <2> QED
    BY <2>1, <2>2, <2>3, <2>4 DEF Screen, Blanks, t
<1> QED
  BY <1>2, <1>4, <1>5

LEMMA BackIs ==
    ASSUME NEW s, Screen(s), Blanks(s), s.pos >= 1
    PROVE  LET t == cga_putc(s, BS)
           IN  /\ Screen(t) /\ Blanks(t) /\ t.pos = s.pos - 1
               /\ \A k \in 0..s.pos - 2 : t.buf[k] = s.buf[k]
<1> USE Sizes
<1>1. /\ s.pos \in 0..CRT_SIZE-1 /\ s.buf \in [0..CRT_SIZE-1 -> Glyphs] /\ Blank \in Glyphs
  BY DEF Screen, Glyphs
<1>2. cga_putc(s, BS) = [buf |-> [s.buf EXCEPT ![s.pos - 1] = Blank], pos |-> s.pos - 1]
  BY <1>1 DEF cga_putc, Back
<1> QED
  BY <1>1, <1>2 DEF Screen, Blanks

-----------------------------------------------------------------------------
(* The steps *)

(* What is on the screen, when the line is what was echoed. *)
Picture == Screen(crt) /\ Blanks(crt)

LEMMA Drawn ==
    ASSUME KInv
    PROVE  Picture /\ Len(line) \in 0..BUFLEN-1 /\ line \in Seq(Letters \cup {DEL})
BY Sizes DEF KInv, ConsoleTypeOK, Picture, Screen, Blanks, BlankAfter, Glyphs

(* The state after a step, by its parts. *)
DevOK  == dev \in [Devices -> Seq(Chars \cup {None})] /\ (\A d \in Devices : Len(dev[d]) <= FIFO)
          /\ irq \subseteq Devices /\ gone \subseteq Readers /\ stopped \in BOOLEAN
ConsOK == cons \in [buf : [0..CONSBUFSIZE-1 -> Chars \cup {None}],
                    rpos : 0..CONSBUFSIZE-1, wpos : 0..CONSBUFSIZE-1]
CallOK == poller \in Readers \cup {Nothing} /\ todo \subseteq Devices
          /\ has \in [Readers -> Chars \cup {Nothing}]
LineOK == line \in Seq(Letters \cup {DEL}) /\ Len(line) < BUFLEN /\ asked \in BOOLEAN

Living == poller \notin gone /\ \A r \in gone : has[r] = Nothing /\ (r = Shell => ~asked)

LEMMA PartsOf ==
    KInv <=> DevOK /\ ConsOK /\ CallOK /\ LineOK /\ Picture /\ RingChars /\ Asking /\ Echo
<1>1. crt \in [buf : [0..CRT_SIZE-1 -> Chars \cup {Prompt, Blank}], pos : 0..CRT_SIZE-1] <=> Screen(crt)
  BY DEF Screen, Glyphs
<1> QED
  BY <1>1 DEF KInv, ConsoleTypeOK, DevOK, ConsOK, CallOK, LineOK, Picture, Blanks, BlankAfter

LEMMA PartsOfNext ==
    KInv' <=> DevOK' /\ ConsOK' /\ CallOK' /\ LineOK' /\ Picture' /\ RingChars' /\ Asking' /\ Echo'
BY PartsOf, PTL

RingSame == UNCHANGED cons => (RingChars => RingChars') /\ Ring' = Ring

LEMMA RingKept == RingSame
BY DEF RingSame, RingChars, Ring, Waiting

(* Nothing of the screen and the line changes. *)
LEMMA LineKept ==
    ASSUME KInv, UNCHANGED <<line, asked, crt>>
    PROVE  LineOK' /\ Picture' /\ Echo'
BY PartsOf DEF LineOK, Picture, Screen, Blanks, Echo, Shows

(* As ConsoleInput sees it, nothing happens. *)
Quiet == Ring' = Ring /\ has' = has

LEMMA TypeStep ==
    ASSUME KInv, NEW d \in Devices, NEW c \in Chars \cup {None}, Type(d, c)
    PROVE  KInv' /\ Quiet
<1>1. /\ Len(dev[d]) < FIFO /\ dev' = [dev EXCEPT ![d] = Append(@, c)]
      /\ irq' = irq \cup {d}
      /\ UNCHANGED <<cons, poller, todo, has, line, asked, crt, gone, stopped>>
  BY DEF Type, programVars, machineVars
<1>2. DevOK'
  <2>1. dev \in [Devices -> Seq(Chars \cup {None})] /\ \A x \in Devices : Len(dev[x]) <= FIFO
    BY PartsOf DEF DevOK
  <2>2. Append(dev[d], c) \in Seq(Chars \cup {None}) /\ Len(Append(dev[d], c)) <= FIFO
    BY <1>1, <2>1, ConsoleAssumption
  <2> QED
    BY <1>1, <2>1, <2>2, PartsOf DEF DevOK
<1>3. LineOK' /\ Picture' /\ Echo'
  BY <1>1, LineKept
<1>4. ConsOK' /\ CallOK' /\ Asking' /\ RingChars' /\ Ring' = Ring
  BY <1>1, PartsOf, RingKept DEF ConsOK, CallOK, Asking, RingSame
<1> QED
  BY <1>1, <1>2, <1>3, <1>4, PartsOfNext DEF Quiet

LEMMA CallGetcStep ==
    ASSUME KInv, NEW r \in Readers, CallGetc(r)
    PROVE  KInv' /\ Quiet
<1>1. /\ poller = Nothing /\ has[r] = Nothing /\ (r = Shell => asked)
      /\ poller' = r /\ todo' = Devices /\ r \notin gone
      /\ UNCHANGED <<dev, cons, has, line, asked, crt, irq, gone, stopped>>
  BY DEF CallGetc, programVars, machineVars
<1>2. LineOK' /\ Picture' /\ Echo'
  BY <1>1, LineKept
<1>3. DevOK' /\ ConsOK' /\ CallOK' /\ Asking' /\ RingChars' /\ Ring' = Ring
  BY <1>1, PartsOf, RingKept, Sizes DEF DevOK, ConsOK, CallOK, Asking, RingSame
<1> QED
  BY <1>1, <1>2, <1>3, PartsOfNext DEF Quiet

(* A key without a character leaves the ring alone, any other is put there. *)
LEMMA IntrStep ==
    ASSUME KInv, NEW d \in Devices, Intr(d)
    PROVE  KInv' /\ (Quiet \/ \E c \in Chars : Input!Put(c))
<1> DEFINE c == Head(dev[d])
<1>1. /\ dev[d] # << >> /\ dev' = [dev EXCEPT ![d] = Tail(@)]
      /\ cons' = IF c = None THEN cons ELSE Stored(c)
      /\ UNCHANGED <<poller, todo, has, line, asked, crt, irq, gone, stopped>>
  BY DEF Intr, programVars, machineVars
<1>2. DevOK' /\ c \in Chars \cup {None}
  <2>1. dev \in [Devices -> Seq(Chars \cup {None})] /\ \A x \in Devices : Len(dev[x]) <= FIFO
    BY PartsOf DEF DevOK
  <2>2. /\ Tail(dev[d]) \in Seq(Chars \cup {None}) /\ Len(Tail(dev[d])) <= FIFO
        /\ c \in Chars \cup {None}
    BY <1>1, <2>1, ConsoleAssumption
  <2> QED
    BY <1>1, <2>1, <2>2, PartsOf DEF DevOK
<1>3. LineOK' /\ Picture' /\ Echo'
  BY <1>1, LineKept
<1>4. CallOK' /\ Asking'
  BY <1>1, PartsOf DEF CallOK, Asking
<1> HIDE DEF c
<1>5. CASE c = None
  <2>1. ConsOK' /\ RingChars' /\ Ring' = Ring
    BY <1>1, <1>5, PartsOf, RingKept DEF ConsOK, RingSame
  <2> QED
    BY <1>1, <1>2, <1>3, <1>4, <2>1, PartsOfNext DEF Quiet
<1>6. CASE c # None
  <2>1. c \in Chars /\ cons' = Stored(c) /\ ConsoleTypeOK /\ RingChars
    BY <1>1, <1>2, <1>6 DEF KInv
  <2>2. ConsOK'
    <3>1. RingFacts /\ ConsOK
      BY <2>1, PartsOf, RingIs
    <3>2. At(cons.wpos + 1) \in Places
      BY <3>1, Around DEF RingFacts
    <3>3. Wrap(cons.wpos) \in 0..CONSBUFSIZE-1
      BY <3>1, <3>2 DEF RingFacts, Places
    <3> QED
      BY <2>1, <3>1, <3>3 DEF ConsOK, Stored
  <2>3. ConsoleTypeOK'
    <3>1. Screen(crt)'
      BY <1>3 DEF Picture
    <3> QED
      BY <1>2, <1>3, <1>4, <2>2, <3>1 DEF ConsoleTypeOK, DevOK, ConsOK, CallOK, LineOK, Screen, Glyphs
  <2>4. /\ RingChars'
        /\ Ring' = IF Len(Ring) = CONSBUFSIZE - 1 THEN << >> ELSE Append(Ring, c)
    BY <2>1, <2>3, StoreIsPut
  <2>5. Input!Put(c)
    BY <1>1, <2>4 DEF Input!Put
  <2> QED
    BY <1>2, <1>3, <1>4, <2>1, <2>2, <2>4, <2>5, PartsOfNext
<1> QED
  BY <1>5, <1>6

LEMMA IntrEndStep ==
    ASSUME KInv, NEW d \in Devices, poller # Nothing, IntrEnd(d)
    PROVE  KInv' /\ Quiet
<1>1. todo' = todo \ {d} /\ UNCHANGED <<dev, cons, poller, has, line, asked, crt, irq, gone, stopped>>
  BY DEF IntrEnd, Left, programVars, machineVars
<1>2. LineOK' /\ Picture' /\ Echo'
  BY <1>1, LineKept
<1>3. DevOK' /\ ConsOK' /\ CallOK' /\ Asking' /\ RingChars' /\ Ring' = Ring
  BY <1>1, PartsOf, RingKept DEF DevOK, ConsOK, CallOK, Asking, RingSame
<1> QED
  BY <1>1, <1>2, <1>3, PartsOfNext DEF Quiet

LEMMA GetcStep ==
    ASSUME KInv, NEW r \in Readers, Getc(r)
    PROVE  KInv' /\ (Quiet \/ Input!Get(r))
<1>1. /\ poller = r /\ todo = {} /\ poller' = Nothing
      /\ UNCHANGED <<dev, todo, line, asked, crt, irq, gone, stopped>>
  BY DEF Getc, programVars, machineVars
<1>2. LineOK' /\ Picture' /\ Echo' /\ DevOK'
  BY <1>1, LineKept, PartsOf DEF DevOK
<1>3. /\ ConsoleTypeOK /\ RingChars /\ CallOK /\ ConsOK /\ Asking
      /\ has[r] = Nothing /\ (r = Shell => asked) /\ r # Nothing
      /\ r \notin gone /\ Nothing \notin gone
  BY <1>1, Sizes, PartsOf DEF KInv, Asking, DevOK
<1>4. CASE cons.rpos = cons.wpos
  <2>1. UNCHANGED <<cons, has>>
    BY <1>4 DEF Getc, programVars, machineVars
  <2>2. ConsOK' /\ CallOK' /\ Asking' /\ RingChars' /\ Ring' = Ring
    BY <1>1, <1>3, <2>1, RingKept DEF ConsOK, CallOK, Asking, RingSame
  <2> QED
    BY <1>2, <2>1, <2>2, PartsOfNext DEF Quiet
<1>5. CASE cons.rpos # cons.wpos
  <2>1. has' = [has EXCEPT ![r] = cons.buf[cons.rpos]] /\ cons' = [cons EXCEPT !.rpos = Wrap(@)]
    BY <1>5 DEF Getc, programVars, machineVars
  <2>2. ConsOK'
    <3>1. RingFacts
      BY <1>3, RingIs
    <3>2. At(cons.rpos + 1) \in Places
      BY <3>1, Around DEF RingFacts
    <3>3. Wrap(cons.rpos) \in 0..CONSBUFSIZE-1
      BY <3>1, <3>2 DEF RingFacts, Places
    <3> QED
      BY <1>3, <2>1, <3>3 DEF ConsOK
  <2>3. cons.buf[cons.rpos] \in Cells
    BY <1>3, RingIs DEF RingFacts
  <2>4. RingChars /\ cons.buf[cons.rpos] \in Chars
    <3>1. RingFacts /\ cons.rpos # cons.wpos
      BY <1>3, <1>5, RingIs
    <3>2. 1 \in 1..Waiting /\ At(cons.rpos + 1 - 1) = cons.rpos
      <4>1. Waiting \in 0..CONSBUFSIZE-1 /\ Waiting >= 1
        BY <3>1, Around DEF RingFacts
      <4> QED
        BY <3>1, <4>1, Sizes DEF RingFacts, At, Places
    <3> QED
      BY <1>3, <3>2, RingAt
  <2>5. CallOK' /\ Asking'
    BY <1>1, <1>3, <2>1, <2>4 DEF CallOK, Asking
  <2>6. ConsoleTypeOK'
    <3>1. Screen(crt)'
      BY <1>2 DEF Picture
    <3> QED
      BY <1>2, <2>2, <2>5, <3>1 DEF ConsoleTypeOK, DevOK, ConsOK, CallOK, LineOK, Screen, Glyphs
  <2>7. /\ RingChars' /\ Ring # << >>
        /\ Ring' = Tail(Ring) /\ Head(Ring) = cons.buf[cons.rpos]
    BY <1>3, <1>5, <2>1, <2>6, TakeIsGet
  <2>8. Input!Get(r)
    BY <1>3, <2>1, <2>7 DEF Input!Get
  <2> QED
    BY <1>2, <2>2, <2>5, <2>7, <2>8, PartsOfNext
<1> QED
  BY <1>4, <1>5

(* A step of readline() takes the character the shell had. *)
LEMMA TakenByShell ==
    ASSUME KInv, has[Shell] # Nothing, has' = [has EXCEPT ![Shell] = Nothing],
           UNCHANGED <<dev, cons, poller, todo, irq, gone, stopped>>
    PROVE  /\ DevOK' /\ ConsOK' /\ CallOK' /\ RingChars' /\ Input!Use(Shell)
           /\ asked /\ poller # Shell /\ has'[Shell] = Nothing
           /\ poller # Nothing => has'[poller] = Nothing
           /\ poller = Nothing => todo = {}
           /\ Living' /\ Shell \notin gone
<1>1. DevOK /\ ConsOK /\ CallOK /\ RingChars /\ Asking
  BY PartsOf
<1>2. DevOK' /\ ConsOK' /\ CallOK' /\ RingChars' /\ Ring' = Ring
  BY <1>1, RingKept, Sizes DEF DevOK, ConsOK, CallOK, RingSame
<1>3. asked /\ poller # Shell /\ has'[Shell] = Nothing
  BY <1>1, Sizes DEF Asking, CallOK
<1>5. Living' /\ Shell \notin gone
  BY <1>1, <1>3 DEF Asking, CallOK, DevOK, Living
<1>4. (poller # Nothing => has'[poller] = Nothing) /\ (poller = Nothing => todo = {})
  BY <1>1, <1>3, Sizes DEF Asking, CallOK
<1> QED
  BY <1>2, <1>3, <1>4, <1>5 DEF Input!Use

LEMMA EraseStep ==
    ASSUME KInv, Erase
    PROVE  KInv' /\ Input!Use(Shell)
<1>1. /\ has[Shell] # Nothing /\ has' = [has EXCEPT ![Shell] = Nothing] /\ line # << >>
      /\ line' = Front(line) /\ crt' = cga_putc(crt, BS)
      /\ UNCHANGED <<dev, cons, poller, todo, asked, irq, gone, stopped>>
  BY Symbols DEF Erase, Got, programVars, machineVars
<1> DEFINE n == Len(line)
<1>2. Picture /\ n \in 0..BUFLEN-1 /\ line \in Seq(Letters \cup {DEL})
  BY Drawn
<1>3. /\ DevOK' /\ ConsOK' /\ CallOK' /\ RingChars' /\ Input!Use(Shell)
      /\ asked /\ poller # Shell /\ has'[Shell] = Nothing
      /\ poller # Nothing => has'[poller] = Nothing
      /\ poller = Nothing => todo = {}
      /\ Living' /\ Shell \notin gone
  BY <1>1, TakenByShell
<1>4. n >= 1 /\ line' \in Seq(Letters \cup {DEL}) /\ Len(line') = n - 1
      /\ \A k \in 1..n - 1 : line'[k] = line[k]
  <2>1. n >= 1
    BY <1>1, <1>2
  <2>2. \A k \in 1..n - 1 : line[k] \in Letters \cup {DEL}
    BY <1>2
  <2>3. line' = SubSeq(line, 1, n - 1)
    BY <1>1 DEF Front
  <2>4. PICK m \in Int : m = n - 1
    BY <1>2
  <2>5. /\ SubSeq(line, 1, m) \in Seq(Letters \cup {DEL})
        /\ Len(SubSeq(line, 1, m)) = IF 1 <= m THEN m - 1 + 1 ELSE 0
        /\ \A i \in 1..m - 1 + 1 : SubSeq(line, 1, m)[i] = line[1 + i - 1]
    BY <2>2, <2>4, SubSeqProperties
  <2>6. m >= 0 /\ m - 1 + 1 = m /\ \A i \in 1..m : 1 + i - 1 = i
    BY <2>1, <2>4, <1>2
  <2>7. Len(SubSeq(line, 1, m)) = m
    BY <2>4, <2>5, <2>6
  <2>8. ASSUME NEW k \in 1..m PROVE SubSeq(line, 1, m)[k] = line[k]
    BY <2>5, <2>6, Zenon
  <2> HIDE DEF n
  <2> QED
    BY <2>1, <2>3, <2>4, <2>5, <2>7, <2>8, Zenon
<1> HIDE DEF n
<1>5. /\ crt.pos >= n + 1 /\ crt.buf[crt.pos - n - 1] = Prompt
      /\ \A k \in 1..n : crt.buf[crt.pos - n - 1 + k] = line[k]
  BY <1>3, PartsOf DEF Echo, Shows, n
<1>6. crt.pos \in Nat /\ n \in Nat /\ n >= 1 /\ crt.pos >= n + 1
  BY <1>2, <1>4, <1>5, Sizes DEF Picture, Screen
<1>7. /\ Picture' /\ crt'.pos = crt.pos - 1
      /\ \A k \in 0..crt.pos - 2 : crt'.buf[k] = crt.buf[k]
  <2>1. crt.pos >= 1
    BY <1>6
  <2>2. /\ Screen(crt') /\ Blanks(crt') /\ crt'.pos = crt.pos - 1
        /\ \A k \in 0..crt.pos - 2 : crt'.buf[k] = crt.buf[k]
    BY <1>1, <1>2, <2>1, BackIs DEF Picture
  <2> QED
    BY <2>2 DEF Picture, Screen, Blanks
<1>8. Shows(crt', Len(line'), line')
  <2>1. crt'.buf[crt'.pos - (n - 1) - 1] = Prompt
    <3>1. crt'.pos - (n - 1) - 1 = crt.pos - n - 1 /\ crt.pos - n - 1 \in 0..crt.pos - 2
      BY <1>6, <1>7
    <3> QED
      BY <1>5, <1>7, <3>1
  <2>2. ASSUME NEW k \in 1..n - 1
        PROVE  crt'.buf[crt'.pos - (n - 1) - 1 + k] = line'[k]
    <3>1. /\ crt'.pos - (n - 1) - 1 + k = crt.pos - n - 1 + k /\ crt.pos - n - 1 + k \in 0..crt.pos - 2
          /\ k \in 1..n
      BY <1>6, <1>7
    <3> QED
      BY <1>4, <1>5, <1>7, <3>1
  <2> QED
    BY <1>4, <1>6, <1>7, <2>1, <2>2 DEF Shows
<1>9. LineOK' /\ Asking' /\ Echo'
  BY <1>1, <1>2, <1>3, <1>4, <1>8, PartsOf, Sizes DEF LineOK, Asking, Living, Echo
<1> QED
  BY <1>3, <1>7, <1>9, PartsOfNext

LEMMA InsertStep ==
    ASSUME KInv, Insert
    PROVE  KInv' /\ Input!Use(Shell)
<1>1. PICK c \in Letters \cup {DEL} :
         /\ has[Shell] = c /\ has' = [has EXCEPT ![Shell] = Nothing] /\ Len(line) < BUFLEN - 1
         /\ line' = Append(line, c) /\ crt' = cga_putc(crt, c)
  BY DEF Insert, Got, Room
<1>2. UNCHANGED <<dev, cons, poller, todo, asked, irq, gone, stopped>>
  BY DEF Insert, programVars, machineVars
<1>3. c \in Glyphs /\ c # BS /\ c # NL /\ c # Nothing
  BY Symbols DEF Glyphs
<1> DEFINE n == Len(line)
<1>4. Picture /\ n \in 0..BUFLEN-1 /\ line \in Seq(Letters \cup {DEL})
  BY Drawn
<1>5. /\ DevOK' /\ ConsOK' /\ CallOK' /\ RingChars' /\ Input!Use(Shell)
      /\ asked /\ poller # Shell /\ has'[Shell] = Nothing
      /\ poller # Nothing => has'[poller] = Nothing
      /\ poller = Nothing => todo = {}
      /\ Living' /\ Shell \notin gone
  BY <1>1, <1>2, <1>3, TakenByShell
<1>6. /\ line' \in Seq(Letters \cup {DEL}) /\ Len(line') = n + 1 /\ line'[n + 1] = c
      /\ \A k \in 1..n : line'[k] = line[k]
  BY <1>1, <1>4
<1> HIDE DEF n
<1>7. /\ crt.pos >= n + 1 /\ crt.buf[crt.pos - n - 1] = Prompt
      /\ \A k \in 1..n : crt.buf[crt.pos - n - 1 + k] = line[k]
  BY <1>5, PartsOf DEF Echo, Shows, n
<1>8. crt.pos \in Nat /\ n \in Nat /\ n + 1 \in 0..BUFLEN-1 /\ n + 1 <= crt.pos
  BY <1>1, <1>4, <1>7, Sizes DEF Picture, Screen, n
<1>9. /\ Picture' /\ crt'.pos >= n + 2 /\ crt'.buf[crt'.pos - 1] = c
      /\ \A k \in 1..n + 1 : crt'.buf[crt'.pos - 1 - k] = crt.buf[crt.pos - k]
  <2>1. /\ Screen(crt') /\ Blanks(crt') /\ crt'.pos >= (n + 1) + 1 /\ crt'.buf[crt'.pos - 1] = c
        /\ \A k \in 1..n + 1 : crt'.buf[crt'.pos - 1 - k] = crt.buf[crt.pos - k]
    BY <1>1, <1>3, <1>4, <1>8, PutIs DEF Picture
  <2>2. crt'.pos \in Nat
    BY <2>1, Sizes DEF Screen
  <2>3. crt'.pos >= n + 2
    BY <1>8, <2>1, <2>2
  <2>4. Picture'
    BY <2>1 DEF Picture, Screen, Blanks
  <2> QED
    BY <2>1, <2>3, <2>4
<1>10. crt'.pos \in Nat
  BY <1>9, Sizes DEF Picture, Screen
<1>11. Shows(crt', Len(line'), line')
  <2>1. crt'.buf[crt'.pos - (n + 1) - 1] = Prompt
    <3>1. crt'.pos - (n + 1) - 1 = crt'.pos - 1 - (n + 1) /\ crt.pos - n - 1 = crt.pos - (n + 1)
          /\ n + 1 \in 1..n + 1
      BY <1>8, <1>10
    <3> QED
      BY <1>7, <1>9, <3>1
  <2>2. ASSUME NEW k \in 1..n
        PROVE  crt'.buf[crt'.pos - (n + 1) - 1 + k] = line'[k]
    <3>1. /\ crt'.pos - (n + 1) - 1 + k = crt'.pos - 1 - (n + 1 - k)
          /\ crt.pos - n - 1 + k = crt.pos - (n + 1 - k) /\ n + 1 - k \in 1..n + 1
      BY <1>8, <1>10
    <3> QED
      BY <1>6, <1>7, <1>9, <3>1
  <2>3. crt'.pos - (n + 1) - 1 + (n + 1) = crt'.pos - 1
    BY <1>8, <1>10
  <2>4. \A k \in 1..n + 1 : k # n + 1 => k \in 1..n
    BY <1>8
  <2>5. ASSUME NEW k \in 1..n + 1
        PROVE  crt'.buf[crt'.pos - (n + 1) - 1 + k] = line'[k]
    BY <1>6, <1>9, <2>2, <2>3, <2>4
  <2> QED
    BY <1>6, <1>8, <1>9, <1>10, <2>1, <2>5 DEF Shows
<1>12. LineOK' /\ Asking' /\ Echo'
  BY <1>2, <1>5, <1>6, <1>8, <1>11, PartsOf, Sizes DEF LineOK, Asking, Living, Echo
<1> QED
  BY <1>5, <1>9, <1>12, PartsOfNext

LEMMA IgnoreStep ==
    ASSUME KInv, Ignore
    PROVE  KInv' /\ Input!Use(Shell)
<1>1. /\ has[Shell] # Nothing /\ has' = [has EXCEPT ![Shell] = Nothing]
      /\ UNCHANGED <<dev, cons, poller, todo, line, asked, crt, irq, gone, stopped>>
  BY Symbols DEF Ignore, Got, programVars, machineVars
<1>2. /\ DevOK' /\ ConsOK' /\ CallOK' /\ RingChars' /\ Input!Use(Shell)
      /\ asked /\ poller # Shell /\ has'[Shell] = Nothing
      /\ poller # Nothing => has'[poller] = Nothing
      /\ poller = Nothing => todo = {}
      /\ Living' /\ Shell \notin gone
  BY <1>1, TakenByShell
<1>3. LineOK' /\ Picture' /\ Echo'
  BY <1>1, LineKept
<1>4. Asking'
  BY <1>1, <1>2 DEF Asking, Living
<1> QED
  BY <1>2, <1>3, <1>4, PartsOfNext

(* The prompt is still to be printed after a line has ended. *)
LEMMA EndsLine ==
    ASSUME KInv, has[Shell] # Nothing, has' = [has EXCEPT ![Shell] = Nothing],
           line' = << >>, asked' = FALSE, Picture', UNCHANGED <<dev, cons, poller, todo, irq, gone, stopped>>
    PROVE  KInv' /\ Input!Use(Shell)
<1>1. /\ DevOK' /\ ConsOK' /\ CallOK' /\ RingChars' /\ Input!Use(Shell)
      /\ asked /\ poller # Shell /\ has'[Shell] = Nothing
      /\ poller # Nothing => has'[poller] = Nothing
      /\ poller = Nothing => todo = {}
      /\ Living' /\ Shell \notin gone
  BY TakenByShell
<1>2. LineOK'
  <2>1. line' \in Seq(Letters \cup {DEL}) /\ Len(line') = 0
    OBVIOUS
  <2>2. Len(line') < BUFLEN
    BY <2>1, Sizes
  <2> QED
    BY <2>1, <2>2 DEF LineOK
<1>3. Asking'
  BY <1>1 DEF Asking, Living
<1>4. Echo'
  BY DEF Echo
<1> QED
  BY <1>1, <1>2, <1>3, <1>4, PartsOfNext

LEMMA EndLineStep ==
    ASSUME KInv, EndLine
    PROVE  KInv' /\ Input!Use(Shell)
<1>1. /\ has[Shell] # Nothing /\ has' = [has EXCEPT ![Shell] = Nothing]
      /\ line' = << >> /\ asked' = FALSE /\ crt' = cga_putc(crt, NL)
      /\ UNCHANGED <<dev, cons, poller, todo, irq, gone, stopped>>
  BY Symbols DEF EndLine, Got, programVars, machineVars
<1>2. Picture'
  <2>1. Screen(crt) /\ Blanks(crt)
    BY Drawn DEF Picture
  <2>2. Screen(crt') /\ Blanks(crt')
    BY <1>1, <2>1, NewlineIs
  <2> QED
    BY <2>2 DEF Picture, Screen, Blanks
<1> QED
  BY <1>1, <1>2, EndsLine

LEMMA EofStep ==
    ASSUME KInv, Eof
    PROVE  KInv' /\ Input!Use(Shell)
<1>1. /\ has[Shell] # Nothing /\ has' = [has EXCEPT ![Shell] = Nothing]
      /\ line' = << >> /\ asked' = FALSE
      /\ UNCHANGED <<dev, cons, poller, todo, crt, irq, gone, stopped>>
  BY Symbols DEF Eof, Got, programVars, machineVars
<1>2. Picture'
  BY <1>1, Drawn DEF Picture, Screen, Blanks
<1> QED
  BY <1>1, <1>2, EndsLine

LEMMA PromptStep ==
    ASSUME KInv, AskPrompt
    PROVE  KInv' /\ Quiet
<1>1. /\ ~asked /\ asked' = TRUE /\ Shell \notin gone /\ crt' = cga_putc(crt, Prompt)
      /\ UNCHANGED <<dev, cons, poller, todo, has, line, irq, gone, stopped>>
  BY DEF AskPrompt, programVars, machineVars
<1>2. line = << >> /\ Screen(crt) /\ Blanks(crt) /\ crt.pos \in Nat
  BY <1>1, PartsOf, Sizes DEF Asking, Picture, Screen
<1>3. Prompt \in Glyphs /\ Prompt # BS /\ Prompt # NL /\ 0 \in 0..BUFLEN-1 /\ 0 <= crt.pos
  BY <1>2, Symbols, Sizes DEF Glyphs
<1>4. Screen(crt') /\ Blanks(crt') /\ crt'.pos >= 1 /\ crt'.buf[crt'.pos - 1] = Prompt
  BY <1>1, <1>2, <1>3, PutIs
<1>5. crt'.pos \in Nat
  BY <1>4, Sizes DEF Screen
<1>6. Picture' /\ Echo'
  <2>1. line' = << >> /\ Len(line') = 0
    BY <1>1, <1>2
  <2>2. crt'.pos - 0 - 1 = crt'.pos - 1
    BY <1>5
  <2>3. Shows(crt', 0, line')
    BY <1>4, <1>5, <2>2 DEF Shows
  <2>4. Picture'
    BY <1>4 DEF Picture, Screen, Blanks
  <2> QED
    BY <2>1, <2>3, <2>4 DEF Echo
<1>7. DevOK' /\ ConsOK' /\ CallOK' /\ LineOK' /\ Asking' /\ RingChars' /\ Ring' = Ring
  BY <1>1, PartsOf, RingKept DEF DevOK, ConsOK, CallOK, LineOK, Asking, RingSame
<1> QED
  BY <1>1, <1>6, <1>7, PartsOfNext DEF Quiet

LEMMA UseStep ==
    ASSUME KInv, NEW r \in Others, Use(r)
    PROVE  KInv' /\ Input!Use(r)
<1>1. /\ has[r] # Nothing /\ has' = [has EXCEPT ![r] = Nothing]
      /\ UNCHANGED <<dev, cons, poller, todo, line, asked, crt, irq, gone, stopped>>
  BY DEF Use, programVars, machineVars
<1>2. LineOK' /\ Picture' /\ Echo'
  BY <1>1, LineKept
<1>3. r \in Readers /\ r # Shell
  BY Sizes
<1>4. DevOK' /\ ConsOK' /\ CallOK' /\ Asking' /\ RingChars' /\ Ring' = Ring
  BY <1>1, <1>3, PartsOf, RingKept, Sizes DEF DevOK, ConsOK, CallOK, Asking, RingSame
<1> QED
  BY <1>1, <1>2, <1>4, PartsOfNext DEF Input!Use

(* Who is destroyed loses what it has, which is all that the others see.   *)
LEMMA InterruptStep ==
    ASSUME KInv, NEW d \in Devices, Interrupt(d)
    PROVE  KInv' /\ (Quiet \/ \E r \in Readers : Input!Use(r))
<1>1. /\ poller = Nothing /\ irq' = irq \ {d} /\ UNCHANGED <<dev, cons, poller, todo>>
      /\ UNCHANGED crt
  BY DEF Interrupt, programVars
<1>2. RingChars' /\ Ring' = Ring /\ ConsOK'
  BY <1>1, PartsOf, RingKept DEF ConsOK, RingSame
<1>3. CASE UNCHANGED <<has, line, asked, gone>> /\ stopped' \in BOOLEAN
  <2>1. LineOK' /\ Picture' /\ Echo'
    BY <1>1, <1>3, LineKept
  <2>2. DevOK' /\ CallOK' /\ Asking'
    BY <1>1, <1>3, PartsOf DEF DevOK, CallOK, Asking
  <2> QED
    BY <1>2, <1>3, <2>1, <2>2, PartsOfNext DEF Quiet
<1>4. ASSUME NEW r \in Readers,
             gone' = gone \cup {r} /\ has' = [has EXCEPT ![r] = Nothing] /\ UNCHANGED stopped,
             IF r = Shell THEN line' = << >> /\ asked' = FALSE ELSE UNCHANGED <<line, asked>>
      PROVE  KInv' /\ (Quiet \/ Input!Use(r))
  <2>1. DevOK' /\ CallOK'
    BY <1>1, <1>4, PartsOf, Sizes DEF DevOK, CallOK
  <2>2. Asking'
    BY <1>1, <1>4, PartsOf, Sizes DEF Asking, CallOK
  <2>3. LineOK' /\ Picture' /\ Echo'
    <3>1. CASE r = Shell
      <4>1. line' \in Seq(Letters \cup {DEL}) /\ Len(line') = 0 /\ 0 < BUFLEN
        BY <1>4, <3>1, Sizes
      <4> QED
        BY <1>1, <1>4, <3>1, <4>1, PartsOf DEF LineOK, Picture, Screen, Blanks, Echo
    <3>2. CASE r # Shell
      BY <1>1, <1>4, <3>2, LineKept
    <3> QED
      BY <3>1, <3>2
  <2>4. Quiet \/ Input!Use(r)
    <3>1. has \in [Readers -> Chars \cup {Nothing}]
      BY PartsOf DEF CallOK
    <3>2. has[r] = Nothing => has' = has
      BY <1>4, <3>1
    <3> QED
      BY <1>2, <1>4, <3>2 DEF Quiet, Input!Use
  <2> QED
    BY <1>2, <2>1, <2>2, <2>3, <2>4, PartsOfNext
<1> QED
  BY <1>3, <1>4, PartsOf DEF Interrupt, programVars, DevOK

LEMMA NewShellStep ==
    ASSUME KInv, NewShell
    PROVE  KInv' /\ Quiet
<1>1. /\ gone' = gone \ {Shell}
      /\ UNCHANGED <<dev, cons, poller, todo, has, line, asked, crt, irq, stopped>>
  BY DEF NewShell, programVars
<1>2. LineOK' /\ Picture' /\ Echo'
  BY <1>1, LineKept
<1>3. DevOK' /\ ConsOK' /\ CallOK' /\ Asking' /\ RingChars' /\ Ring' = Ring
  BY <1>1, PartsOf, RingKept DEF DevOK, ConsOK, CallOK, Asking, RingSame
<1> QED
  BY <1>1, <1>2, <1>3, PartsOfNext DEF Quiet

LEMMA StillStep ==
    ASSUME KInv, UNCHANGED consoleVars
    PROVE  KInv' /\ Quiet
<1>1. UNCHANGED <<dev, cons, poller, todo, has, line, asked, crt, irq, gone, stopped>>
  BY DEF consoleVars, programVars, machineVars
<1>2. LineOK' /\ Picture' /\ Echo'
  BY <1>1, LineKept
<1>3. DevOK' /\ ConsOK' /\ CallOK' /\ Asking' /\ RingChars' /\ Ring' = Ring
  BY <1>1, PartsOf, RingKept DEF DevOK, ConsOK, CallOK, Asking, RingSame
<1> QED
  BY <1>1, <1>2, <1>3, PartsOfNext DEF Quiet

LEMMA NextKInv ==
    ASSUME KInv, [ConsoleNext]_consoleVars
    PROVE  KInv' /\ [Input!Next]_(Input!vars)
<1>1. ASSUME Quiet PROVE UNCHANGED Input!vars
  BY <1>1 DEF Quiet, Input!vars
<1>2. ASSUME NEW r \in Readers, Poll(r)
      PROVE  KInv' /\ [Input!Next]_(Input!vars)
  <2>1. r # Nothing
    BY Sizes
  <2> QED
    BY <1>1, <1>2, <2>1, CallGetcStep, IntrStep, IntrEndStep, GetcStep DEF Poll, Input!Next
<1>3. ASSUME Readline
      PROVE  KInv' /\ [Input!Next]_(Input!vars)
  BY <1>1, <1>3, Sizes, PromptStep, EraseStep, InsertStep, IgnoreStep, EndLineStep, EofStep
     DEF Readline, Input!Next
<1>4. ASSUME NEW r \in Others, Use(r)
      PROVE  KInv' /\ [Input!Next]_(Input!vars)
  BY <1>4, Sizes, UseStep DEF Input!Next
<1>5. ASSUME NEW d \in Devices, Interrupt(d)
      PROVE  KInv' /\ [Input!Next]_(Input!vars)
  BY <1>1, <1>5, InterruptStep DEF Input!Next
<1> QED
  BY <1>1, <1>2, <1>3, <1>4, <1>5, TypeStep, NewShellStep, StillStep
     DEF ConsoleNext, Reads, Echoes, Uses

LEMMA KInvariance == ConsoleSpec => []KInv
BY InitKInv, NextKInv, PTL DEF ConsoleSpec

(* What the screen shows, said as EchoExact says it. *)
LEMMA KInvIsIInv == KInv => ConsoleIInv
<1> SUFFICES ASSUME KInv PROVE ConsoleIInv
  OBVIOUS
<1>1. ConsoleTypeOK /\ Asking /\ Echo /\ Picture
  BY PartsOf DEF KInv
<1>2. Len(line) \in Nat /\ line \in Seq(Letters \cup {DEL})
  BY Drawn, Sizes
<1>3. crt.pos \in Nat
  BY <1>1, Sizes DEF Picture, Screen
<1>4. ASSUME asked
      PROVE  LET shown == <<Prompt>> \o line
                 start == crt.pos - Len(shown)
             IN  /\ start >= 0
                 /\ \A k \in DOMAIN shown : crt.buf[start + k - 1] = shown[k]
                 /\ \A k \in crt.pos..CRT_SIZE-1 : crt.buf[k] = Blank
  <2> DEFINE n == Len(line)
             shown == <<Prompt>> \o line
  <2>1. Shows(crt, n, line)
    BY <1>1, <1>4 DEF Echo
  <2>2. Len(shown) = n + 1 /\ DOMAIN shown = 1..n + 1 /\ shown[1] = Prompt
        /\ \A k \in 1..n : shown[k + 1] = line[k]
    <3>1. <<Prompt>> \in Seq(Letters \cup {DEL, Prompt}) /\ line \in Seq(Letters \cup {DEL, Prompt})
          /\ Len(<<Prompt>>) = 1 /\ <<Prompt>>[1] = Prompt
      BY <1>2, SeqMonotonic
    <3>2. /\ shown \in Seq(Letters \cup {DEL, Prompt}) /\ Len(shown) = 1 + n
          /\ \A i \in 1..1 + n : shown[i] = IF i <= 1 THEN <<Prompt>>[i] ELSE line[i - 1]
      BY <3>1, ConcatProperties
    <3> QED
      BY <1>2, <3>1, <3>2
  <2> HIDE DEF n, shown
  <2>3. n \in Nat /\ crt.pos - (n + 1) >= 0
    BY <1>2, <1>3, <2>1 DEF Shows, n
  <2>4. ASSUME NEW k \in 1..n + 1
        PROVE  crt.buf[crt.pos - (n + 1) + k - 1] = shown[k]
    <3>1. CASE k = 1
      <4>1. crt.pos - (n + 1) + k - 1 = crt.pos - n - 1
        BY <1>3, <2>3, <3>1
      <4> QED
        BY <2>1, <2>2, <3>1, <4>1 DEF Shows
    <3>2. CASE k # 1
      <4>1. /\ crt.pos - (n + 1) + k - 1 = crt.pos - n - 1 + (k - 1)
            /\ k - 1 \in 1..n /\ (k - 1) + 1 = k
        BY <1>3, <2>3, <3>2
      <4> QED
        BY <2>1, <2>2, <4>1 DEF Shows
    <3> QED
      BY <3>1, <3>2
  <2>5. \A k \in crt.pos..CRT_SIZE-1 : crt.buf[k] = Blank
    BY <1>1 DEF Picture, Blanks
  <2> QED
    BY <2>2, <2>3, <2>4, <2>5 DEF shown
<1> QED
  BY <1>1, <1>4 DEF KInv, ConsoleIInv, EchoExact

(* The screen shows the line that readline() will return, wherever it      *)
(* scrolls and whatever is deleted, and nothing is stored past an end.     *)
THEOREM ConsoleInvariance == ConsoleSpec => []ConsoleIInv
BY KInvariance, KInvIsIInv, PTL

(* cons_intr() and cons_getc() make a queue of the devices and the ring:   *)
(* each character goes to one reader, in order, while the ring is not full. *)
THEOREM ConsoleImplementation == ConsoleSpec => ImplementsInput
<1>1. ConsoleInit => Input!Init
  <2>1. ASSUME ConsoleInit PROVE Ring = << >>
    <3>1. ConsoleTypeOK /\ Waiting = 0
      BY <2>1, InitKInv, RingIs, Sizes DEF KInv, RingFacts, Between, ConsoleInit
    <3> QED
      BY <3>1 DEF Ring
  <2> QED
    BY <2>1 DEF ConsoleInit, Input!Init
<1> QED
  BY <1>1, KInvariance, NextKInv, PTL DEF ConsoleSpec, ImplementsInput, Input!Spec

-----------------------------------------------------------------------------
(* The keyboard *)

(* What one byte does to the bits, and the character that comes out.       *)
Escaped(s, d) == IF "E0ESC" \in s THEN d ELSE d % 128
Data(s, d)    == IF "E0ESC" \in s THEN d + 128 ELSE d
Lit(s, d)     == SymDiff((s \ {"E0ESC"}) \cup shiftcode[Data(s, d)], togglecode[Data(s, d)])

Shifted(s, d) == IF d = E0 THEN s \cup {"E0ESC"}
               ELSE IF d >= 128 THEN s \ (shiftcode[Escaped(s, d)] \cup {"E0ESC"})
               ELSE Lit(s, d)

Printed(t, c) == IF "CAPSLOCK" \in t THEN Swapped(c) ELSE c
Char(s, d)    == IF d = E0 \/ d >= 128 THEN NO
                 ELSE Printed(Lit(s, d), charcode(Lit(s, d))[Data(s, d)])

(* A byte that is taken when the bits are s leaves them t, and gives what  *)
(* was meant.                                                              *)
Taken(b, s, t) ==
    /\ b.code \in 0..255 /\ s \in SUBSET Flags /\ t \in SUBSET Flags
    /\ t = Shifted(s, b.code)
    /\ b.sure => /\ Char(s, b.code) = b.meant
                 /\ Char(s, b.code) = KEY_DEL /\ {"CTL", "ALT"} \subseteq t
                        => {"CTL", "ALT"} \subseteq b.mods

(* The bytes that wait make the bits t of what is now s. *)
Leads(q, s, t) ==
    \E S \in [1..Len(q) + 1 -> SUBSET Flags] :
        /\ S[1] = s /\ S[Len(q) + 1] = t
        /\ \A i \in 1..Len(q) : Taken(q[i], S[i], S[i + 1])

(* Bits that say what is down. *)
Agree(t) ==
    /\ "E0ESC" \notin t /\ ("CAPSLOCK" \in t <=> capslock)
    /\ \A m \in Modifiers \ mixed : m \in t <=> m \in Held(down)

Records == [code : 0..255, meant : {NO, KEY_DEL, "a", "A", "ctl-A", "."},
            mods : SUBSET Modifiers, sure : BOOLEAN]

KbdInv ==
    /\ KeyboardTypeOK /\ AsMeant /\ OnlyCtrlAltDel
    /\ bytes \in Seq(Records) /\ Twice(down) \subseteq mixed /\ mixed \subseteq Held(down)
    /\ \E t \in SUBSET Flags : Leads(bytes, shift, t) /\ Agree(t)

LEMMA Numbers ==
    /\ E0 = 224 /\ \h1E = 30 /\ \h53 = 83 /\ \h2A = 42 /\ \h36 = 54 /\ \h3A = 58 /\ \h1D = 29
    /\ \h38 = 56 /\ \hD3 = 211 /\ \h9D = 157 /\ \hB8 = 184
BY DEF E0

(* The tables. *)
LEMMA Shifts ==
    ASSUME NEW d \in 0..255
    PROVE  /\ d \in {29, 157} => shiftcode[d] = {"CTL"}
           /\ d \in {42, 54} => shiftcode[d] = {"SHIFT"}
           /\ d \in {56, 184} => shiftcode[d] = {"ALT"}
           /\ d \notin {29, 157, 42, 54, 56, 184} => shiftcode[d] = {}
<1>1. shiftcode[d] = CASE d \in {29, 157} -> {"CTL"}
                       [] d \in {42, 54}  -> {"SHIFT"}
                       [] d \in {56, 184} -> {"ALT"}
                       [] OTHER           -> {}
  BY Zenon DEF shiftcode
<1>2. d \in {29, 157} => shiftcode[d] = {"CTL"}
  BY <1>1
<1>3. d \in {42, 54} => shiftcode[d] = {"SHIFT"}
  BY <1>1
<1>4. d \in {56, 184} => shiftcode[d] = {"ALT"}
  BY <1>1
<1>5. d \notin {29, 157, 42, 54, 56, 184} => shiftcode[d] = {}
  BY <1>1
<1> QED
  BY <1>2, <1>3, <1>4, <1>5, Zenon

LEMMA Tables ==
    ASSUME NEW d \in 0..255
    PROVE  /\ togglecode[d] = IF d = 58 THEN {"CAPSLOCK"} ELSE {}
           /\ normalmap[d] = IF d = 30 THEN "a" ELSE IF d = 83 THEN "."
                             ELSE IF d = 211 THEN KEY_DEL ELSE NO
           /\ shiftmap[d] = IF d = 30 THEN "A" ELSE normalmap[d]
           /\ ctlmap[d] = IF d = 30 THEN "ctl-A" ELSE IF d = 83 THEN NO ELSE normalmap[d]
<1>1. togglecode[d] = IF d = 58 THEN {"CAPSLOCK"} ELSE {}
  BY Numbers DEF togglecode
<1>2. normalmap[d] = IF d = 30 THEN "a" ELSE IF d = 83 THEN "."
                     ELSE IF d = 211 THEN KEY_DEL ELSE NO
  BY Numbers DEF normalmap
<1>3. shiftmap[d] = IF d = 30 THEN "A" ELSE normalmap[d]
  BY Numbers DEF shiftmap, normalmap
<1>4. ctlmap[d] = IF d = 30 THEN "ctl-A" ELSE IF d = 83 THEN NO ELSE normalmap[d]
  BY Numbers DEF ctlmap, normalmap
<1> QED
  BY <1>1, <1>2, <1>3, <1>4

(* A byte more at the end, and one fewer at the front. *)
LEMMA LeadsAppend ==
    ASSUME NEW q \in Seq(Records), NEW b \in Records, NEW s, NEW t, NEW u,
           Leads(q, s, t), Taken(b, t, u)
    PROVE  Leads(Append(q, b), s, u)
<1> DEFINE n == Len(q)
           p == Append(q, b)
<1>1. n \in Nat /\ Len(p) = n + 1 /\ p[n + 1] = b /\ \A i \in 1..n : p[i] = q[i]
  OBVIOUS
<1>2. PICK S \in [1..n + 1 -> SUBSET Flags] :
        S[1] = s /\ S[n + 1] = t /\ \A i \in 1..n : Taken(q[i], S[i], S[i + 1])
  BY Zenon DEF Leads
<1> DEFINE T == [i \in 1..n + 2 |-> IF i = n + 2 THEN u ELSE S[i]]
<1>3. u \in SUBSET Flags
  BY DEF Taken
<1> HIDE DEF p, n
<1>4. T \in [1..(n + 1) + 1 -> SUBSET Flags]
  <2>1. ASSUME NEW i \in 1..n + 2 PROVE (IF i = n + 2 THEN u ELSE S[i]) \in SUBSET Flags
    <3>1. i # n + 2 => i \in 1..n + 1
      BY <1>1
    <3> QED
      BY <1>2, <1>3, <3>1, Zenon
  <2>2. (n + 1) + 1 = n + 2
    BY <1>1
  <2> QED
    BY <2>1, <2>2, Zenon
<1>5. T[1] = s /\ T[(n + 1) + 1] = u /\ T[n + 1] = t
  BY <1>1, <1>2
<1>6. ASSUME NEW i \in 1..n + 1 PROVE Taken(p[i], T[i], T[i + 1])
  <2>1. CASE i = n + 1
    BY <1>1, <1>5, <2>1, Zenon
  <2>2. CASE i # n + 1
    <3>1. i \in 1..n /\ i \in 1..n + 2 /\ i + 1 \in 1..n + 2 /\ i # n + 2 /\ i + 1 # n + 2
      BY <1>1, <2>2
    <3>2. T[i] = S[i] /\ T[i + 1] = S[i + 1] /\ p[i] = q[i]
      BY <1>1, <3>1, Zenon
    <3> QED
      BY <1>2, <3>1, <3>2, Zenon
  <2> QED
    BY <2>1, <2>2
<1> HIDE DEF T
<1> QED
  BY <1>1, <1>4, <1>5, <1>6, Zenon DEF Leads, p

LEMMA LeadsTail ==
    ASSUME NEW q \in Seq(Records), q # << >>, NEW s, NEW t, Leads(q, s, t)
    PROVE  \E u \in SUBSET Flags : Taken(Head(q), s, u) /\ Leads(Tail(q), u, t)
<1> DEFINE n == Len(q)
           p == Tail(q)
<1>1. /\ n \in Nat /\ n >= 1 /\ Len(p) = n - 1 /\ Head(q) = q[1]
      /\ \A i \in 1..n - 1 : p[i] = q[i + 1]
  OBVIOUS
<1>2. PICK S \in [1..n + 1 -> SUBSET Flags] :
        S[1] = s /\ S[n + 1] = t /\ \A i \in 1..n : Taken(q[i], S[i], S[i + 1])
  BY Zenon DEF Leads
<1> DEFINE T == [i \in 1..n |-> S[i + 1]]
<1> HIDE DEF p, n
<1>3. \A i \in 1..n : i + 1 \in 1..n + 1
  BY <1>1
<1>4. (n - 1) + 1 = n /\ 1 \in 1..n /\ n \in 1..n /\ 1 + 1 = 2
  BY <1>1
<1>5. T \in [1..(n - 1) + 1 -> SUBSET Flags]
  BY <1>2, <1>3, <1>4, Zenon
<1>6. T[1] = S[1 + 1] /\ T[(n - 1) + 1] = t
  BY <1>2, <1>4, Zenon
<1>7. ASSUME NEW i \in 1..n - 1 PROVE Taken(p[i], T[i], T[i + 1])
  <2>1. i \in 1..n /\ i + 1 \in 1..n
    BY <1>1
  <2>2. T[i] = S[i + 1] /\ T[i + 1] = S[(i + 1) + 1] /\ p[i] = q[i + 1]
    BY <1>1, <2>1, Zenon
  <2> QED
    BY <1>2, <2>1, <2>2, Zenon
<1>8. Taken(Head(q), s, S[1 + 1]) /\ S[1 + 1] \in SUBSET Flags
  BY <1>1, <1>2, <1>3, <1>4, Zenon
<1> HIDE DEF T
<1>9. Leads(p, S[1 + 1], t)
  BY <1>1, <1>5, <1>6, <1>7, Zenon DEF Leads
<1> QED
  BY <1>8, <1>9, Zenon DEF p

LEMMA LeadsNow ==
    ASSUME NEW s, NEW t, Leads(<< >>, s, t)
    PROVE  s = t
<1>1. Len(<< >>) = 0 /\ 0 + 1 = 1
  OBVIOUS
<1> QED
  BY <1>1, Zenon DEF Leads

LEMMA NothingWaits ==
    ASSUME NEW s \in SUBSET Flags
    PROVE  Leads(<< >>, s, s)
<1> DEFINE S == [i \in 1..1 |-> s]
<1>1. S \in [1..1 -> SUBSET Flags] /\ S[1] = s /\ Len(<< >>) = 0 /\ 0 + 1 = 1 /\ 1..0 = {}
  OBVIOUS
<1> QED
  BY <1>1 DEF Leads
(* What a key sends, and where it is in the tables. *)
Ext(k)   == k \in {"del", "rctl", "ralt"}
Code(k)  == CASE k = "a" -> 30 [] k \in {"dot", "del"} -> 83 [] k = "shift" -> 42 [] k = "rshift" -> 54
              [] k = "caps" -> 58 [] k \in {"ctl", "rctl"} -> 29 [] k \in {"alt", "ralt"} -> 56
Place(k) == IF Ext(k) THEN Code(k) + 128 ELSE Code(k)
Bits(k)  == IF k \in DOMAIN ModifierOf THEN {ModifierOf[k]} ELSE {}

AllKeys == {"a", "dot", "del", "shift", "rshift", "caps", "ctl", "rctl", "alt", "ralt"}

LEMMA KeysAre == Keys \subseteq AllKeys
<1>1. DOMAIN Codes = AllKeys
  BY Zenon DEF Codes, AllKeys
<1> QED
  BY <1>1, KeyboardAssumption

LEMMA CodesAre ==
    ASSUME NEW k \in AllKeys
    PROVE  /\ Code(k) \in 0..127
           /\ Codes[k] = IF Ext(k) THEN <<224, Code(k)>> ELSE <<Code(k)>>
<1>1. Codes.a = <<30>> /\ Codes.dot = <<83>> /\ Codes.del = <<224, 83>> /\ Codes.shift = <<42>>
      /\ Codes.rshift = <<54>> /\ Codes.caps = <<58>> /\ Codes.ctl = <<29>> /\ Codes.rctl = <<224, 29>>
      /\ Codes.alt = <<56>> /\ Codes.ralt = <<224, 56>>
  BY Numbers DEF Codes
<1>2. CASE k = "a"
  BY <1>1, <1>2 DEF Code, Ext
<1>3. CASE k = "dot"
  BY <1>1, <1>3 DEF Code, Ext
<1>4. CASE k = "del"
  BY <1>1, <1>4 DEF Code, Ext
<1>5. CASE k = "shift"
  BY <1>1, <1>5 DEF Code, Ext
<1>6. CASE k = "rshift"
  BY <1>1, <1>6 DEF Code, Ext
<1>7. CASE k = "caps"
  BY <1>1, <1>7 DEF Code, Ext
<1>8. CASE k = "ctl"
  BY <1>1, <1>8 DEF Code, Ext
<1>9. CASE k = "rctl"
  BY <1>1, <1>9 DEF Code, Ext
<1>10. CASE k = "alt"
  BY <1>1, <1>10 DEF Code, Ext
<1>11. CASE k = "ralt"
  BY <1>1, <1>11 DEF Code, Ext
<1> QED
  BY <1>2, <1>3, <1>4, <1>5, <1>6, <1>7, <1>8, <1>9, <1>10, <1>11 DEF AllKeys

(* The entry of the tables is that of the key. *)
LEMMA PlaceIs ==
    ASSUME NEW k \in AllKeys
    PROVE  /\ Place(k) \in 0..255
           /\ shiftcode[Place(k)] = Bits(k)
           /\ togglecode[Place(k)] = IF k = "caps" THEN {"CAPSLOCK"} ELSE {}
           /\ normalmap[Place(k)] = IF k = "a" THEN "a" ELSE IF k = "dot" THEN "."
                                    ELSE IF k = "del" THEN KEY_DEL ELSE NO
           /\ shiftmap[Place(k)] = IF k = "a" THEN "A" ELSE normalmap[Place(k)]
           /\ ctlmap[Place(k)] = IF k = "a" THEN "ctl-A" ELSE IF k = "dot" THEN NO
                                 ELSE normalmap[Place(k)]
<1> DEFINE p == Place(k)
<1>1. /\ k = "a" => p = 30
      /\ k = "dot" => p = 83
      /\ k = "del" => p = 211
      /\ k = "shift" => p = 42
      /\ k = "rshift" => p = 54
      /\ k = "caps" => p = 58
      /\ k = "ctl" => p = 29
      /\ k = "rctl" => p = 157
      /\ k = "alt" => p = 56
      /\ k = "ralt" => p = 184
  BY DEF Place, Code, Ext
<1>2. /\ k \in {"shift", "rshift"} => Bits(k) = {"SHIFT"}
      /\ k \in {"ctl", "rctl"} => Bits(k) = {"CTL"}
      /\ k \in {"alt", "ralt"} => Bits(k) = {"ALT"}
      /\ k \in {"a", "dot", "del", "caps"} => Bits(k) = {}
  BY DEF Bits, ModifierOf
<1> HIDE DEF p
<1>3. p \in 0..255
  BY <1>1 DEF AllKeys
<1>4. shiftcode[p] = Bits(k)
  <2>1. /\ k \in {"ctl", "rctl"} => p \in {29, 157}
        /\ k \in {"shift", "rshift"} => p \in {42, 54}
        /\ k \in {"alt", "ralt"} => p \in {56, 184}
        /\ k \in {"a", "dot", "del", "caps"} => p \notin {29, 157, 42, 54, 56, 184}
    BY <1>1
  <2>2. CASE k \in {"ctl", "rctl"}
    <3>1. p \in {29, 157}
      BY <2>1, <2>2, Zenon
    <3>2. Bits(k) = {"CTL"}
      BY <1>2, <2>2, Zenon
    <3>3. shiftcode[p] = {"CTL"}
      BY <1>3, <3>1, Shifts, Zenon
    <3> QED
      BY <3>2, <3>3, Zenon
  <2>3. CASE k \in {"shift", "rshift"}
    <3>1. p \in {42, 54}
      BY <2>1, <2>3, Zenon
    <3>2. Bits(k) = {"SHIFT"}
      BY <1>2, <2>3, Zenon
    <3>3. shiftcode[p] = {"SHIFT"}
      BY <1>3, <3>1, Shifts, Zenon
    <3> QED
      BY <3>2, <3>3, Zenon
  <2>4. CASE k \in {"alt", "ralt"}
    <3>1. p \in {56, 184}
      BY <2>1, <2>4, Zenon
    <3>2. Bits(k) = {"ALT"}
      BY <1>2, <2>4, Zenon
    <3>3. shiftcode[p] = {"ALT"}
      BY <1>3, <3>1, Shifts, Zenon
    <3> QED
      BY <3>2, <3>3, Zenon
  <2>5. CASE k \in {"a", "dot", "del", "caps"}
    <3>1. p \notin {29, 157, 42, 54, 56, 184}
      BY <2>1, <2>5, Zenon
    <3>2. Bits(k) = {}
      BY <1>2, <2>5, Zenon
    <3>3. shiftcode[p] = {}
      BY <1>3, <3>1, Shifts
    <3> QED
      BY <3>2, <3>3, Zenon
  <2> QED
    BY <2>2, <2>3, <2>4, <2>5 DEF AllKeys
<1>6. togglecode[p] = IF k = "caps" THEN {"CAPSLOCK"} ELSE {}
  <2>1. k = "caps" <=> p = 58
    BY <1>1 DEF AllKeys
  <2>2. togglecode[p] = IF p = 58 THEN {"CAPSLOCK"} ELSE {}
    BY <1>3, Tables
  <2> QED
    BY <2>1, <2>2, Zenon
<1>5. /\ normalmap[p] = IF k = "a" THEN "a" ELSE IF k = "dot" THEN "."
                        ELSE IF k = "del" THEN KEY_DEL ELSE NO
      /\ shiftmap[p] = IF k = "a" THEN "A" ELSE normalmap[p]
      /\ ctlmap[p] = IF k = "a" THEN "ctl-A" ELSE IF k = "dot" THEN NO ELSE normalmap[p]
  <2>1. k = "a" <=> p = 30
    BY <1>1 DEF AllKeys
  <2>2. k = "dot" <=> p = 83
    BY <1>1 DEF AllKeys
  <2>3. k = "del" <=> p = 211
    BY <1>1 DEF AllKeys
  <2>4. /\ normalmap[p] = IF p = 30 THEN "a" ELSE IF p = 83 THEN "." ELSE IF p = 211 THEN KEY_DEL ELSE NO
        /\ shiftmap[p] = IF p = 30 THEN "A" ELSE normalmap[p]
        /\ ctlmap[p] = IF p = 30 THEN "ctl-A" ELSE IF p = 83 THEN NO ELSE normalmap[p]
    BY <1>3, Tables
  <2> QED
    BY <2>1, <2>2, <2>3, <2>4, Zenon
<1> QED
  BY <1>3, <1>4, <1>5, <1>6 DEF p

(* The bits after a key has gone down, whatever they were. *)
LEMMA DownBits ==
    ASSUME NEW k \in AllKeys, NEW s \in SUBSET Flags, "E0ESC" \in s <=> Ext(k)
    PROVE  LET t == Shifted(s, Code(k))
           IN  /\ Data(s, Code(k)) = Place(k) /\ t = Lit(s, Code(k))
               /\ t \in SUBSET Flags /\ "E0ESC" \notin t
               /\ "CAPSLOCK" \in t <=> ("CAPSLOCK" \in s) # (k = "caps")
               /\ \A m \in Modifiers : m \in t <=> m \in s \/ m \in Bits(k)
<1> DEFINE t == Shifted(s, Code(k))
           tog == IF k = "caps" THEN {"CAPSLOCK"} ELSE {}
<1>1. Data(s, Code(k)) = Place(k)
  BY DEF Data, Place
<1>2. t = Lit(s, Code(k))
  <2>1. Code(k) # E0 /\ ~(Code(k) >= 128)
    <3>1. Code(k) \in 0..127 /\ E0 = 224
      BY CodesAre, Numbers
    <3> QED
      BY <3>1
  <2> QED
    BY <2>1, Zenon DEF Shifted
<1>3. t = SymDiff((s \ {"E0ESC"}) \cup Bits(k), tog)
  BY <1>1, <1>2, PlaceIs, Zenon DEF Lit
<1>4. Bits(k) \subseteq Modifiers /\ (k = "caps" => Bits(k) = {})
  BY DEF Bits, ModifierOf, Modifiers
<1>5. \A x : x \in t <=> ((x \in s /\ x # "E0ESC") \/ x \in Bits(k)) # (x = "CAPSLOCK" /\ k = "caps")
  BY <1>3 DEF SymDiff
<1> HIDE DEF t
<1>6. t \in SUBSET Flags
  BY <1>4, <1>5 DEF Flags
<1>7. "E0ESC" \notin t /\ ("CAPSLOCK" \in t <=> ("CAPSLOCK" \in s) # (k = "caps"))
  BY <1>4, <1>5 DEF Modifiers
<1>8. \A m \in Modifiers : m \in t <=> m \in s \/ m \in Bits(k)
  BY <1>5 DEF Modifiers
<1> QED
  BY <1>1, <1>2, <1>6, <1>7, <1>8 DEF t

(* And after it has gone up. *)
LEMMA UpBits ==
    ASSUME NEW k \in AllKeys, NEW s \in SUBSET Flags, "E0ESC" \in s <=> Ext(k)
    PROVE  LET t == Shifted(s, Code(k) + 128)
           IN  /\ t \in SUBSET Flags /\ "E0ESC" \notin t
               /\ "CAPSLOCK" \in t <=> "CAPSLOCK" \in s
               /\ \A m \in Modifiers : m \in t <=> m \in s /\ m \notin Bits(k)
<1> DEFINE t == Shifted(s, Code(k) + 128)
<1>1. Escaped(s, Code(k) + 128) = Place(k)
  <2>1. ASSUME NEW c \in 0..127 PROVE (c + 128) % 128 = c
    OBVIOUS
  <2>2. (Code(k) + 128) % 128 = Code(k)
    BY <2>1, CodesAre
  <2> QED
    BY <2>2, Zenon DEF Escaped, Place
<1>2. Code(k) + 128 # E0 /\ Code(k) + 128 >= 128
  BY CodesAre DEF Code, E0, AllKeys
<1>3. t = s \ (Bits(k) \cup {"E0ESC"})
  BY <1>1, <1>2, PlaceIs, Zenon DEF Shifted
<1>4. Bits(k) \subseteq Modifiers
  BY DEF Bits, ModifierOf, Modifiers
<1> QED
  BY <1>3, <1>4 DEF Modifiers, Flags

-----------------------------------------------------------------------------
(* The keys that are down *)

LEMMA BitsAre ==
    ASSUME NEW k
    PROVE  /\ Bits(k) \subseteq Modifiers
           /\ \A m : m \in Bits(k) <=> k \in DOMAIN ModifierOf /\ ModifierOf[k] = m
<1>1. k \in DOMAIN ModifierOf => ModifierOf[k] \in Modifiers
  BY DEF ModifierOf, Modifiers
<1> QED
  BY <1>1 DEF Bits

LEMMA HeldIs ==
    ASSUME NEW d, NEW m
    PROVE  m \in Held(d) <=> \E j \in d : m \in Bits(j)
BY BitsAre, Zenon DEF Held

LEMMA TwiceIs ==
    ASSUME NEW d, NEW m
    PROVE  m \in Twice(d) <=> \E j, k \in d : j # k /\ m \in Bits(j) /\ m \in Bits(k)
<1>1. \A j : m \in Bits(j) <=> j \in DOMAIN ModifierOf /\ ModifierOf[j] = m
  BY BitsAre
<1>2. \A j : m \in Bits(j) => m \in Modifiers
  BY BitsAre
<1>3. ASSUME m \in Twice(d)
      PROVE  \E j, k \in d : j # k /\ m \in Bits(j) /\ m \in Bits(k)
  BY <1>1, <1>3 DEF Twice
<1>4. ASSUME NEW j \in d, NEW k \in d, j # k, m \in Bits(j), m \in Bits(k)
      PROVE  m \in Twice(d)
  BY <1>1, <1>2, <1>4 DEF Twice
<1> QED
  BY <1>3, <1>4

(* Bits of which no key is confused are right after a key has gone down... *)
LEMMA AgreeDown ==
    ASSUME Twice(down) \subseteq mixed, mixed \subseteq Held(down),
           NEW k, down' = down \cup {k}, mixed' = MixedIn(down'),
           NEW t, \A m \in Modifiers \ mixed : m \in t <=> m \in Held(down),
           NEW u, \A m \in Modifiers : m \in u <=> m \in t \/ m \in Bits(k)
    PROVE  /\ \A m \in Modifiers \ mixed' : m \in u <=> m \in Held(down')
           /\ Twice(down') \subseteq mixed' /\ mixed' \subseteq Held(down')
<1>1. \A m : m \in Held(down') <=> m \in Held(down) \/ m \in Bits(k)
  BY HeldIs, Zenon
<1>2. Twice(down') \subseteq Held(down')
  BY HeldIs, TwiceIs
<1>3. Twice(down') \subseteq mixed' /\ mixed' \subseteq Held(down')
  BY <1>2 DEF MixedIn
<1>4. ASSUME NEW m \in Modifiers, m \notin mixed'
      PROVE  m \in u <=> m \in Held(down')
  <2>1. m \notin mixed
    BY <1>1, <1>4 DEF MixedIn
  <2> QED
    BY <1>1, <2>1
<1> QED
  BY <1>3, <1>4

(* ... and after one has gone up. *)
LEMMA AgreeUp ==
    ASSUME Twice(down) \subseteq mixed, mixed \subseteq Held(down),
           NEW k \in down, down' = down \ {k}, mixed' = MixedIn(down'),
           NEW t, \A m \in Modifiers \ mixed : m \in t <=> m \in Held(down),
           NEW u, \A m \in Modifiers : m \in u <=> m \in t /\ m \notin Bits(k)
    PROVE  /\ \A m \in Modifiers \ mixed' : m \in u <=> m \in Held(down')
           /\ Twice(down') \subseteq mixed' /\ mixed' \subseteq Held(down')
<1>1. ASSUME NEW m
      PROVE  m \in Held(down) <=> m \in Held(down') \/ m \in Bits(k)
  <2>1. m \in Held(down) <=> \E j \in down : m \in Bits(j)
    BY HeldIs, Zenon
  <2>2. m \in Held(down') <=> \E j \in down' : m \in Bits(j)
    BY HeldIs, Zenon
  <2> QED
    BY <2>1, <2>2
<1>2. Twice(down') \subseteq Held(down')
  BY HeldIs, TwiceIs
<1>3. Twice(down') \subseteq mixed' /\ mixed' \subseteq Held(down')
  BY <1>2 DEF MixedIn
<1>4. ASSUME NEW m \in Modifiers, m \notin mixed'
      PROVE  m \in u <=> m \in Held(down')
  <2>1. CASE m \in mixed
    <3>1. m \notin Held(down') /\ m \in Held(down)
      BY <1>4, <2>1 DEF MixedIn
    <3> QED
      BY <1>1, <3>1
  <2>2. CASE m \notin mixed
    <3>1. ASSUME m \in Bits(k), m \in Held(down') PROVE FALSE
      <4>1. PICK j \in down' : m \in Bits(j)
        BY <3>1, HeldIs
      <4>2. m \in Twice(down)
        BY <3>1, <4>1, TwiceIs
      <4> QED
        BY <2>2, <4>2
    <3> QED
      BY <1>1, <2>2, <3>1
  <2> QED
    BY <2>1, <2>2
<1> QED
  BY <1>3, <1>4

-----------------------------------------------------------------------------
(* What is sent *)

Tagged(c, m) == [code |-> c, meant |-> m, mods |-> Held(down'), sure |-> mixed' = {}]

LEMMA SendsOne ==
    ASSUME NEW c, NEW m, bytes \in Seq(Records), Sends(<<c>>, m)
    PROVE  bytes' = Append(bytes, Tagged(c, m)) /\ Len(bytes') <= KBDFIFO
<1>1. Len(<<c>>) = 1 /\ <<c>>[1] = c /\ Len(bytes) \in Nat
  OBVIOUS
<1>2. /\ bytes' = bytes \o [i \in 1..1 |-> [code |-> <<c>>[i], meant |-> IF i = 1 THEN m ELSE NO,
                                            mods |-> Held(down'), sure |-> mixed' = {}]]
      /\ Len(bytes) + 1 <= KBDFIFO
  BY <1>1 DEF Sends
<1>3. [i \in 1..1 |-> [code |-> <<c>>[i], meant |-> IF i = 1 THEN m ELSE NO,
                       mods |-> Held(down'), sure |-> mixed' = {}]] = <<Tagged(c, m)>>
  BY <1>1 DEF Tagged
<1> QED
  BY <1>1, <1>2, <1>3

LEMMA SendsTwo ==
    ASSUME NEW c, NEW m, bytes \in Seq(Records), Sends(<<224, c>>, m),
           Tagged(224, NO) \in Records, Tagged(c, m) \in Records
    PROVE  bytes' = Append(Append(bytes, Tagged(224, NO)), Tagged(c, m)) /\ Len(bytes') <= KBDFIFO
<1>1. Len(<<224, c>>) = 2 /\ <<224, c>>[1] = 224 /\ <<224, c>>[2] = c /\ Len(bytes) \in Nat
  OBVIOUS
<1> DEFINE p == [i \in 1..2 |-> [code |-> <<224, c>>[i], meant |-> IF i = 2 THEN m ELSE NO,
                                 mods |-> Held(down'), sure |-> mixed' = {}]]
<1>2. bytes' = bytes \o p /\ Len(bytes) + 2 <= KBDFIFO
  BY <1>1 DEF Sends
<1>3. p[1] = Tagged(224, NO) /\ p[2] = Tagged(c, m)
  BY <1>1 DEF Tagged
<1>4. p = <<Tagged(224, NO), Tagged(c, m)>>
  BY <1>3
<1> HIDE DEF p
<1>5. bytes \o <<Tagged(224, NO), Tagged(c, m)>> = Append(Append(bytes, Tagged(224, NO)), Tagged(c, m))
  OBVIOUS
<1> QED
  BY <1>1, <1>2, <1>4, <1>5

(* The bytes of a key lead on from where those before them have led. *)
LEMMA Added ==
    ASSUME bytes \in Seq(Records), NEW t \in SUBSET Flags, Leads(bytes, shift, t), shift' = shift,
           NEW x \in BOOLEAN, NEW c, NEW m,
           Sends(IF x THEN <<224, c>> ELSE <<c>>, m),
           Tagged(224, NO) \in Records, Tagged(c, m) \in Records,
           NEW u, Taken(Tagged(c, m), IF x THEN t \cup {"E0ESC"} ELSE t, u)
    PROVE  bytes' \in Seq(Records) /\ Leads(bytes', shift', u) /\ Len(bytes') <= KBDFIFO
<1>1. CASE ~x
  <2>1. bytes' = Append(bytes, Tagged(c, m)) /\ Len(bytes') <= KBDFIFO
    BY <1>1, SendsOne
  <2>2. Leads(bytes', shift, u)
    BY <1>1, <2>1, LeadsAppend
  <2> QED
    BY <2>1, <2>2
<1>2. CASE x
  <2> DEFINE q == Append(bytes, Tagged(224, NO))
             v == t \cup {"E0ESC"}
  <2>1. bytes' = Append(q, Tagged(c, m)) /\ Len(bytes') <= KBDFIFO
    BY <1>2, SendsTwo
  <2>2. Taken(Tagged(224, NO), t, v)
    <3>1. Tagged(224, NO).code = 224 /\ Tagged(224, NO).meant = NO
      BY DEF Tagged
    <3>2. Shifted(t, 224) = v /\ Char(t, 224) = NO /\ v \in SUBSET Flags
      BY Numbers DEF Shifted, Char, Flags
    <3> QED
      BY <3>1, <3>2, KeyboardAssumption DEF Taken
  <2>3. q \in Seq(Records) /\ Leads(q, shift, v)
    BY <2>2, LeadsAppend
  <2> HIDE DEF q, v
  <2>4. Leads(bytes', shift, u)
    BY <1>2, <2>1, <2>3, LeadsAppend DEF v
  <2> QED
    BY <2>1, <2>3, <2>4
<1> QED
  BY <1>1, <1>2

-----------------------------------------------------------------------------
(* Steps *)

(* The character that comes out is the one that was meant, if the bits     *)
(* are those of the keys that are held down.                               *)
LEMMA Prints ==
    ASSUME NEW k \in AllKeys, NEW s \in SUBSET Flags, "E0ESC" \in s <=> Ext(k),
           NEW t, t = Shifted(s, Code(k)), NEW mods, NEW lock \in BOOLEAN,
           \A m \in Modifiers : m \in t <=> m \in mods, "CAPSLOCK" \in t <=> lock
    PROVE  Char(s, Code(k)) = Meant(k, mods, lock)
<1> DEFINE p == Place(k)
           c == charcode(t)[p]
<1>1. Char(s, Code(k)) = Printed(t, c)
  <2>1. Code(k) \in 0..127 /\ E0 = 224
    BY CodesAre, Numbers
  <2>2. ~(Code(k) = E0 \/ Code(k) >= 128)
    BY <2>1
  <2>3. Data(s, Code(k)) = p /\ t = Lit(s, Code(k))
    BY DownBits
  <2> QED
    BY <2>2, <2>3, Zenon DEF Char
<1>2. /\ "CTL" \in t <=> "CTL" \in mods
      /\ "SHIFT" \in t <=> "SHIFT" \in mods
  BY DEF Modifiers
<1>3. c = IF "CTL" \in t THEN ctlmap[p] ELSE IF "SHIFT" \in t THEN shiftmap[p] ELSE normalmap[p]
  BY DEF charcode
<1>4. /\ normalmap[p] = IF k = "a" THEN "a" ELSE IF k = "dot" THEN "." ELSE IF k = "del" THEN KEY_DEL ELSE NO
      /\ shiftmap[p] = IF k = "a" THEN "A" ELSE normalmap[p]
      /\ ctlmap[p] = IF k = "a" THEN "ctl-A" ELSE IF k = "dot" THEN NO ELSE normalmap[p]
  BY PlaceIs
<1> HIDE DEF p, c
<1>5. KEY_DEL \notin {"a", "A"} /\ NO \notin {"a", "A"}
  BY KeyboardAssumption
<1>6. CASE k = "a"
  <2>1. c = IF "CTL" \in mods THEN "ctl-A" ELSE IF "SHIFT" \in mods THEN "A" ELSE "a"
    BY <1>2, <1>3, <1>4, <1>6
  <2>2. Meant(k, mods, lock) = IF "CTL" \in mods THEN "ctl-A"
                               ELSE IF ("SHIFT" \in mods) # lock THEN "A" ELSE "a"
    BY <1>6 DEF Meant
  <2>3. Printed(t, c) = IF lock THEN Swapped(c) ELSE c
    BY DEF Printed
  <2> QED
    BY <1>1, <2>1, <2>2, <2>3 DEF Swapped
<1>7. CASE k = "dot"
  <2>1. c = IF "CTL" \in mods THEN NO ELSE "."
    BY <1>2, <1>3, <1>4, <1>7
  <2>2. Meant(k, mods, lock) = IF "CTL" \in mods THEN NO ELSE "."
    BY <1>7 DEF Meant
  <2> QED
    BY <1>1, <1>5, <2>1, <2>2 DEF Printed, Swapped
<1>8. CASE k = "del"
  <2>1. c = KEY_DEL
    BY <1>3, <1>4, <1>8
  <2>2. Meant(k, mods, lock) = KEY_DEL
    BY <1>8 DEF Meant
  <2> QED
    BY <1>1, <1>5, <2>1, <2>2 DEF Printed, Swapped
<1>9. CASE k \notin {"a", "dot", "del"}
  <2>1. c = NO
    BY <1>3, <1>4, <1>9
  <2>2. Meant(k, mods, lock) = NO
    BY <1>9 DEF Meant
  <2> QED
    BY <1>1, <1>5, <2>1, <2>2 DEF Printed, Swapped
<1> QED
  BY <1>6, <1>7, <1>8, <1>9

LEMMA MeantIs ==
    ASSUME NEW k, NEW mods, NEW lock
    PROVE  Meant(k, mods, lock) \in {NO, KEY_DEL, "a", "A", "ctl-A", "."}
BY DEF Meant

LEMMA TaggedIs ==
    ASSUME NEW c \in 0..255, NEW m \in {NO, KEY_DEL, "a", "A", "ctl-A", "."}, Held(down') \subseteq Modifiers
    PROVE  Tagged(c, m) \in Records
BY DEF Tagged, Records

LEMMA HeldModifiers ==
    ASSUME NEW d
    PROVE  Held(d) \subseteq Modifiers
BY HeldIs, BitsAre, Zenon

LEMMA PressStep ==
    ASSUME KbdInv, NEW k \in Keys, Press(k)
    PROVE  KbdInv'
<1>1. k \in AllKeys /\ Code(k) \in 0..127 /\ Codes[k] = IF Ext(k) THEN <<224, Code(k)>> ELSE <<Code(k)>>
  BY KeysAre, CodesAre
<1>2. PICK t \in SUBSET Flags : Leads(bytes, shift, t) /\ Agree(t)
  BY DEF KbdInv
<1> DEFINE m == Meant(k, Held(down'), capslock')
           s == IF Ext(k) THEN t \cup {"E0ESC"} ELSE t
           u == Shifted(s, Code(k))
<1>3. /\ down' = down \cup {k} /\ mixed' = MixedIn(down')
      /\ capslock' = IF k = "caps" THEN ~capslock ELSE capslock
      /\ Sends(IF Ext(k) THEN <<224, Code(k)>> ELSE <<Code(k)>>, m)
      /\ shift' = shift /\ got' = got
  BY <1>1 DEF Press
<1>4. /\ bytes \in Seq(Records) /\ Twice(down) \subseteq mixed /\ mixed \subseteq Held(down)
      /\ KeyboardTypeOK /\ AsMeant /\ OnlyCtrlAltDel
  BY DEF KbdInv
<1>5. s \in SUBSET Flags /\ ("E0ESC" \in s <=> Ext(k)) /\ ("CAPSLOCK" \in s <=> capslock)
      /\ \A x \in Modifiers : x \in s <=> x \in t
  BY <1>2 DEF Agree, Flags, Modifiers
<1>6. /\ u \in SUBSET Flags /\ "E0ESC" \notin u
      /\ "CAPSLOCK" \in u <=> ("CAPSLOCK" \in s) # (k = "caps")
      /\ \A x \in Modifiers : x \in u <=> x \in s \/ x \in Bits(k)
  BY <1>1, <1>5, DownBits
<1> HIDE DEF m, u
<1>7. capslock \in BOOLEAN /\ capslock' \in BOOLEAN /\ ("CAPSLOCK" \in u <=> capslock')
  <2>1. capslock \in BOOLEAN
    BY <1>4 DEF KeyboardTypeOK
  <2>2. capslock' \in BOOLEAN
    BY <1>3, <2>1
  <2>3. "CAPSLOCK" \in u <=> capslock'
    <3>1. CASE k = "caps"
      <4>1. capslock' = ~capslock /\ ("CAPSLOCK" \in u <=> ~("CAPSLOCK" \in s))
        BY <1>3, <1>6, <3>1
      <4> HIDE DEF s
      <4> QED
        BY <1>5, <4>1, Zenon
    <3>2. CASE k # "caps"
      <4>1. capslock' = capslock /\ ("CAPSLOCK" \in u <=> "CAPSLOCK" \in s)
        BY <1>3, <1>6, <3>2
      <4> HIDE DEF s
      <4> QED
        BY <1>5, <4>1, Zenon
    <3> QED
      BY <3>1, <3>2
  <2> HIDE DEF s
  <2> QED
    BY <2>1, <2>2, <2>3, Zenon
<1>8. /\ \A x \in Modifiers \ mixed' : x \in u <=> x \in Held(down')
      /\ Twice(down') \subseteq mixed' /\ mixed' \subseteq Held(down')
  <2>1. /\ \A x \in Modifiers \ mixed : x \in t <=> x \in Held(down)
        /\ \A x \in Modifiers : x \in u <=> x \in t \/ x \in Bits(k)
    BY <1>2, <1>5, <1>6 DEF Agree
  <2> HIDE DEF s
  <2> QED
    BY <1>3, <1>4, <2>1, AgreeDown
<1>9. Taken(Tagged(Code(k), m), s, u)
  <2>1. ASSUME mixed' = {}
        PROVE  /\ Char(s, Code(k)) = m
               /\ {"CTL", "ALT"} \subseteq u => {"CTL", "ALT"} \subseteq Held(down')
    <3>1. \A x \in Modifiers : x \in u <=> x \in Held(down')
      BY <1>8, <2>1
    <3>2. Char(s, Code(k)) = m
      BY <1>1, <1>5, <1>7, <3>1, Prints DEF m, u
    <3> QED
      BY <3>1, <3>2 DEF Modifiers
  <2>2. Code(k) \in 0..255
    BY <1>1
  <2> HIDE DEF s
  <2> QED
    BY <1>5, <1>6, <2>1, <2>2 DEF Taken, Tagged, u
<1>10. Tagged(224, NO) \in Records /\ Tagged(Code(k), m) \in Records
  <2>1. Code(k) \in 0..255 /\ 224 \in 0..255
    BY <1>1
  <2> QED
    BY <2>1, MeantIs, TaggedIs, HeldModifiers DEF m
<1>11. bytes' \in Seq(Records) /\ Leads(bytes', shift', u) /\ Len(bytes') <= KBDFIFO
  <2>1. Ext(k) \in BOOLEAN
    BY DEF Ext
  <2> QED
    BY <1>2, <1>3, <1>4, <1>9, <1>10, <2>1, Added
<1>12. Agree(u)'
  BY <1>6, <1>7, <1>8 DEF Agree
<1>13. KeyboardTypeOK'
  BY <1>3, <1>4, <1>7, <1>8, <1>11, HeldModifiers DEF KeyboardTypeOK
<1>14. AsMeant' /\ OnlyCtrlAltDel'
  BY <1>3, <1>4 DEF AsMeant, OnlyCtrlAltDel
<1> QED
  BY <1>6, <1>8, <1>11, <1>12, <1>13, <1>14 DEF KbdInv

LEMMA ReleaseStep ==
    ASSUME KbdInv, NEW k \in Keys, Release(k)
    PROVE  KbdInv'
<1>1. k \in AllKeys /\ Code(k) \in 0..127 /\ Codes[k] = IF Ext(k) THEN <<224, Code(k)>> ELSE <<Code(k)>>
  BY KeysAre, CodesAre
<1>2. PICK t \in SUBSET Flags : Leads(bytes, shift, t) /\ Agree(t)
  BY DEF KbdInv
<1> DEFINE c == Code(k) + 128
           s == IF Ext(k) THEN t \cup {"E0ESC"} ELSE t
           u == Shifted(s, c)
<1>3. [Codes[k] EXCEPT ![Len(Codes[k])] = @ + 128] = IF Ext(k) THEN <<224, c>> ELSE <<c>>
  <2>1. CASE Ext(k)
    <3>1. Codes[k] = <<224, Code(k)>>
      BY <1>1, <2>1
    <3>2. [<<224, Code(k)>> EXCEPT ![Len(<<224, Code(k)>>)] = @ + 128] = <<224, c>>
      OBVIOUS
    <3> QED
      BY <2>1, <3>1, <3>2, Zenon
  <2>2. CASE ~Ext(k)
    <3>1. Codes[k] = <<Code(k)>>
      BY <1>1, <2>2
    <3>2. [<<Code(k)>> EXCEPT ![Len(<<Code(k)>>)] = @ + 128] = <<c>>
      OBVIOUS
    <3> QED
      BY <2>2, <3>1, <3>2, Zenon
  <2> QED
    BY <2>1, <2>2
<1>4. /\ k \in down /\ down' = down \ {k} /\ mixed' = MixedIn(down')
      /\ Sends(IF Ext(k) THEN <<224, c>> ELSE <<c>>, NO)
      /\ shift' = shift /\ got' = got /\ capslock' = capslock
  BY <1>3, Zenon DEF Release
<1>5. /\ bytes \in Seq(Records) /\ Twice(down) \subseteq mixed /\ mixed \subseteq Held(down)
      /\ KeyboardTypeOK /\ AsMeant /\ OnlyCtrlAltDel
  BY DEF KbdInv
<1>6. s \in SUBSET Flags /\ ("E0ESC" \in s <=> Ext(k)) /\ ("CAPSLOCK" \in s <=> capslock)
      /\ \A x \in Modifiers : x \in s <=> x \in t
  BY <1>2 DEF Agree, Flags, Modifiers
<1>7. /\ u \in SUBSET Flags /\ "E0ESC" \notin u
      /\ "CAPSLOCK" \in u <=> "CAPSLOCK" \in s
      /\ \A x \in Modifiers : x \in u <=> x \in s /\ x \notin Bits(k)
  BY <1>1, <1>6, UpBits
<1> HIDE DEF u
<1>8. /\ \A x \in Modifiers \ mixed' : x \in u <=> x \in Held(down')
      /\ Twice(down') \subseteq mixed' /\ mixed' \subseteq Held(down')
  <2>1. /\ \A x \in Modifiers \ mixed : x \in t <=> x \in Held(down)
        /\ \A x \in Modifiers : x \in u <=> x \in t /\ x \notin Bits(k)
    BY <1>2, <1>6, <1>7 DEF Agree
  <2> HIDE DEF s
  <2> QED
    BY <1>4, <1>5, <2>1, AgreeUp
<1>9. c \in 0..255 /\ 224 \in 0..255 /\ c >= 128
  BY <1>1
<1> HIDE DEF c
<1>10. Taken(Tagged(c, NO), s, u)
  <2>1. Char(s, c) = NO
    BY <1>9, Zenon DEF Char
  <2> HIDE DEF s
  <2> QED
    BY <1>6, <1>7, <1>9, <2>1, KeyboardAssumption DEF Taken, Tagged, u
<1>11. Tagged(224, NO) \in Records /\ Tagged(c, NO) \in Records
  BY <1>9, TaggedIs, HeldModifiers
<1>12. bytes' \in Seq(Records) /\ Leads(bytes', shift', u) /\ Len(bytes') <= KBDFIFO
  <2>1. Ext(k) \in BOOLEAN
    BY DEF Ext
  <2> QED
    BY <1>2, <1>4, <1>5, <1>10, <1>11, <2>1, Added
<1>13. Agree(u)'
  BY <1>4, <1>6, <1>7, <1>8 DEF Agree
<1>14. KeyboardTypeOK'
  BY <1>4, <1>5, <1>8, <1>12, HeldModifiers DEF KeyboardTypeOK
<1>15. AsMeant' /\ OnlyCtrlAltDel'
  BY <1>4, <1>5 DEF AsMeant, OnlyCtrlAltDel
<1> QED
  BY <1>7, <1>8, <1>12, <1>13, <1>14, <1>15 DEF KbdInv

(* kbd_proc_data() takes one byte. *)
LEMMA TakeStep ==
    ASSUME KbdInv, bytes # << >>, NEW c, NEW reboot,
           shift' = Shifted(shift, Head(bytes).code), c = Char(shift, Head(bytes).code),
           reboot => c = KEY_DEL /\ {"CTL", "ALT"} \subseteq shift',
           Returns(c, reboot)
    PROVE  KbdInv'
<1> DEFINE b == Head(bytes)
<1>1. /\ bytes \in Seq(Records) /\ Twice(down) \subseteq mixed /\ mixed \subseteq Held(down)
      /\ KeyboardTypeOK
  BY DEF KbdInv
<1>2. PICK t \in SUBSET Flags : Leads(bytes, shift, t) /\ Agree(t)
  BY DEF KbdInv
<1>3. PICK u \in SUBSET Flags : Taken(b, shift, u) /\ Leads(Tail(bytes), u, t)
  BY <1>1, <1>2, LeadsTail
<1>4. /\ got' = [c |-> c, reboot |-> reboot, meant |-> b.meant, mods |-> b.mods, sure |-> b.sure]
      /\ bytes' = Tail(bytes) /\ UNCHANGED <<down, capslock, mixed>>
  BY DEF Returns
<1> HIDE DEF b
<1>5. /\ u = shift'
      /\ b.sure => c = b.meant
      /\ b.sure /\ c = KEY_DEL /\ {"CTL", "ALT"} \subseteq shift' => {"CTL", "ALT"} \subseteq b.mods
  BY <1>3, Zenon DEF Taken, b
<1>6. AsMeant' /\ OnlyCtrlAltDel'
  BY <1>4, <1>5 DEF AsMeant, OnlyCtrlAltDel
<1>7. bytes' \in Seq(Records) /\ Len(bytes') <= KBDFIFO
  <2>1. Tail(bytes) \in Seq(Records) /\ Len(Tail(bytes)) = Len(bytes) - 1 /\ Len(bytes) \in Nat
    BY <1>1
  <2> QED
    BY <1>1, <1>4, <2>1, KeyboardAssumption DEF KeyboardTypeOK
<1>8. KeyboardTypeOK'
  BY <1>1, <1>3, <1>4, <1>5, <1>7 DEF KeyboardTypeOK
<1>9. Agree(t)' /\ Leads(bytes', shift', t)
  BY <1>2, <1>3, <1>4, <1>5 DEF Agree
<1> QED
  BY <1>1, <1>2, <1>4, <1>6, <1>7, <1>8, <1>9 DEF KbdInv

LEMMA EscapeStep ==
    ASSUME KbdInv, Escape
    PROVE  KbdInv'
<1>1. /\ bytes # << >> /\ shift' = Shifted(shift, Head(bytes).code) /\ Char(shift, Head(bytes).code) = NO
      /\ Returns(NO, FALSE)
  BY DEF Escape, Shifted, Char
<1> QED
  BY <1>1, TakeStep

LEMMA ReleasedStep ==
    ASSUME KbdInv, KeyReleased
    PROVE  KbdInv'
<1>1. /\ bytes # << >> /\ shift' = Shifted(shift, Head(bytes).code) /\ Char(shift, Head(bytes).code) = NO
      /\ Returns(NO, FALSE)
  BY DEF KeyReleased, Shifted, Char, Clears, ReleasedCode, Escaped
<1> QED
  BY <1>1, TakeStep

LEMMA PressedStep ==
    ASSUME KbdInv, KeyPressed
    PROVE  KbdInv'
<1> DEFINE d == Head(bytes).code
           c == Char(shift, d)
<1>1. bytes # << >> /\ d < 128
  BY DEF KeyPressed
<1>2. d \in 0..255
  <2>1. Head(bytes) \in Records
    BY <1>1 DEF KbdInv
  <2> QED
    BY <2>1 DEF Records
<1>3. d # E0 /\ ~(d >= 128)
  <2> HIDE DEF d
  <2>1. E0 = 224
    BY Numbers
  <2> QED
    BY <1>1, <1>2, <2>1
<1>4. shift' = Lit(shift, d)
  BY Zenon DEF KeyPressed, Lit, Data
<1>5. Returns(Printed(shift', charcode(shift')[Data(shift, d)]),
              Reboots(shift', Printed(shift', charcode(shift')[Data(shift, d)])))
  BY Zenon DEF KeyPressed, Data, Printed
<1>6. shift' = Shifted(shift, d) /\ c = Printed(shift', charcode(shift')[Data(shift, d)])
  BY <1>3, <1>4, Zenon DEF Shifted, Char
<1>7. Returns(c, Reboots(shift', c))
  BY <1>5, <1>6, Zenon
<1>8. Reboots(shift', c) => c = KEY_DEL /\ {"CTL", "ALT"} \subseteq shift'
  BY DEF Reboots
<1> HIDE DEF c
<1> QED
  BY <1>1, <1>6, <1>7, <1>8, TakeStep DEF c

LEMMA KeyboardStart == KeyboardInit => KbdInv
<1> SUFFICES ASSUME KeyboardInit PROVE KbdInv
  OBVIOUS
<1>1. AsMeant /\ OnlyCtrlAltDel
  BY DEF KeyboardInit, AsMeant, OnlyCtrlAltDel
<1>4. KeyboardTypeOK /\ bytes \in Seq(Records)
  <2>1. bytes = << >> /\ Len(<< >>) = 0 /\ << >> \in Seq(Records)
    BY DEF KeyboardInit
  <2>2. Len(bytes) <= KBDFIFO
    BY <2>1, KeyboardAssumption
  <2> QED
    BY <2>1, <2>2 DEF KeyboardInit, KeyboardTypeOK
<1>2. Held(down) = {} /\ Twice(down) = {}
  BY DEF KeyboardInit, Held, Twice
<1>3. Leads(bytes, shift, {}) /\ Agree({})
  BY <1>2, NothingWaits DEF KeyboardInit, Agree
<1> QED
  BY <1>1, <1>2, <1>3, <1>4 DEF KbdInv, KeyboardInit

LEMMA KeyboardStep ==
    ASSUME KbdInv, [KeyboardNext]_keyVars
    PROVE  KbdInv'
<1>1. CASE UNCHANGED keyVars
  <2>1. PICK t \in SUBSET Flags : Leads(bytes, shift, t) /\ Agree(t)
    BY DEF KbdInv
  <2>2. Agree(t)' /\ Leads(bytes', shift', t)
    BY <1>1, <2>1 DEF keyVars, Agree
  <2> QED
    BY <1>1, <2>2 DEF KbdInv, keyVars, KeyboardTypeOK, AsMeant, OnlyCtrlAltDel
<1>2. CASE KeyboardNext
  BY <1>2, PressStep, ReleaseStep, EscapeStep, ReleasedStep, PressedStep DEF KeyboardNext
<1> QED
  BY <1>1, <1>2

(* What the bits and the characters of the keyboard are, for any of the    *)
(* keys, whenever their bytes are taken: kbd_proc_data() in console.c.     *)
THEOREM KeyboardInvariance == KeyboardSpec => []KeyboardIInv
<1>1. KbdInv => KeyboardIInv
  <2> SUFFICES ASSUME KbdInv PROVE KeyboardIInv
    OBVIOUS
  <2>1. PICK t \in SUBSET Flags : Leads(bytes, shift, t) /\ Agree(t)
    BY DEF KbdInv
  <2>2. BitsRight
    BY <2>1, LeadsNow DEF BitsRight, Agree
  <2> QED
    BY <2>2 DEF KbdInv, KeyboardIInv
<1>2. KbdInv /\ [KeyboardNext]_keyVars => KbdInv'
  BY KeyboardStep
<1> QED
  BY <1>1, <1>2, KeyboardStart, PTL DEF KeyboardSpec
=============================================================================
