------------------------------- MODULE UserProofs -------------------------------
(***************************************************************************)
(* Theorems about the two libraries of user programs that keep pages in    *)
(* step by hand: fork() with its page fault handler (Fork), for any number *)
(* of environments, addresses and values, and the open files of the file   *)
(* server (FileServer), for any number of clients, descriptors and files.  *)
(* The two share no variable and no definition, and neither relies on a    *)
(* theorem of the other.                                                   *)
(***************************************************************************)
EXTENDS Fork, FileServer, FiniteSetTheorems, SequenceTheorems, TLAPS

-----------------------------------------------------------------------------
(* fork() and its page fault handler *)

(* A record with the fields of a page table entry is made of them. *)
LEMMA EntryIs ==
    ASSUME NEW A, NEW B, NEW r \in [page : A, perm : B]
    PROVE  r = [page |-> r.page, perm |-> r.perm]
OBVIOUS

Has(c, v)  == map[c][v] # Unmapped
PagesOf(v) == {v} \X (1..Spares)

(* A mapping is of a page of its address; the shared addresses are shared. *)
Places == \A e \in Envs, v \in Addrs : Has(e, v) =>
    /\ map[e][v].page \in PagesOf(v) /\ Perm(e, v) # "none"
    /\ Perm(e, v) = "share" <=> Kind[v] = "share"

(* What is shared is the same page for all. *)
SharedByAll == \A e, d \in Envs, v \in Addrs :
    Kind[v] = "share" /\ Has(e, v) /\ Has(d, v) => map[e][v] = map[d][v]

(* Who runs has a page everywhere, who does not run does nothing. *)
Quiet == \A e \in Envs :
    /\ status[e] # "running" => write[e] = 0 /\ job[e] = NoJob
    /\ status[e] = "running" => \A v \in Addrs : Has(e, v)
    /\ status[e] = "free" => map[e] = NoMap /\ handled[e] = Unhandled

(* A fault is handled in the middle of a write, and the page at PFTEMP is  *)
(* the copy of the one that is to be replaced.                             *)
Handling == \A e \in Envs :
    /\ write[e] = 0 => faults[e] = << >>
    /\ faults[e] # << >> /\ step[e] \in {"copy", "map"} => Perm(e, Faulted(e)) = "cow"
    /\ IF faults[e] # << >> /\ step[e] = "map"
       THEN /\ tmp[e] \in PagesOf(Faulted(e))
            /\ content[tmp[e]] = content[map[e][Faulted(e)].page]
       ELSE tmp[e] = NoPage

(* The pages at PFTEMP and UTEMP are nobody else's. *)
Apart == \A e, d \in Envs :
    /\ tmp[e] # NoPage => /\ tmp[e] # job[d].page /\ (d # e => tmp[e] # tmp[d])
                          /\ \A v \in Addrs : map[d][v].page # tmp[e]
    /\ job[e].page # NoPage => /\ d # e => job[e].page # job[d].page
                               /\ \A v \in Addrs : map[d][v].page # job[e].page

(* Pages that hold nothing of anybody are cleared. *)
Unused == \A p \in Pages :
    (\A e \in Envs : tmp[e] # p /\ \A v \in Addrs : map[e][v].page # p) => content[p] = Fresh

(* A child is made by one parent. *)
Making == \A e \in Envs : job[e] # NoJob =>
    /\ status[e] = "running" /\ job[e].child \in Envs /\ status[job[e].child] = "building"
    /\ \A d \in Envs \ {e} : job[d] # NoJob => job[d].child # job[e].child
    /\ job[e].kind # "none" /\ job[e].v \in Addrs

(* fork() after each of its steps. *)
ForkAt(e) ==
    LET c == job[e].child
        v == job[e].v IN
    /\ CanHandle(e) /\ job[e].page = NoPage
    /\ job[e].step \in {"pte", "child", "own", "stack", "upcall", "start"}
    /\ job[e].step \in {"pte", "child"} => \A u \in Addrs : Has(c, u) <=> u < v
    /\ job[e].step = "own" => \A u \in Addrs : Has(c, u) <=> u <= v
    /\ job[e].step \in {"stack", "upcall", "start"} => \A u \in Addrs : Has(c, u)
    /\ job[e].step = "child" => \/ Marks(job[e].seen) /\ Marks(Perm(e, v))
                                \/ job[e].seen \in {"ro", "share"} /\ Perm(e, v) = job[e].seen
    /\ job[e].step = "own" => Marks(Perm(e, v))
    /\ job[e].step = "upcall" => handled[c].stack
    /\ job[e].step = "start" => CanHandle(c)

Forking == \A e \in Envs : job[e].kind = "fork" => ForkAt(e)

(* spawn() after each of its steps. *)
SpawnAt(e) ==
    LET c == job[e].child
        v == job[e].v IN
    /\ handled[c] = Unhandled /\ \A u \in Addrs : Perm(c, u) # "cow"
    /\ job[e].step \in {"page", "give", "share", "start"}
    /\ IF job[e].step = "give" THEN job[e].page \in PagesOf(v) ELSE job[e].page = NoPage
    /\ job[e].step \in {"page", "give"} =>
          /\ Kind[v] # "share" /\ ~Has(c, v)
          /\ \A u \in Addrs : Kind[u] = "share" => ~Has(c, u)
    /\ job[e].step = "share" => \A u \in Addrs : Has(c, u) <=> Kind[u] # "share" \/ u < v
    /\ job[e].step = "start" => \A u \in Addrs : Has(c, u)

Spawning == \A e \in Envs : job[e].kind = "spawn" => SpawnAt(e)

FInv == /\ TypeOK /\ WritesArePrivate /\ CowIsHandled /\ Registered
        /\ Places /\ SharedByAll /\ Quiet /\ Handling /\ Apart /\ Unused
        /\ Making /\ Forking /\ Spawning

-----------------------------------------------------------------------------
LEMMA Constants ==
    /\ Last \in Nat /\ Spares \in Nat \ {0} /\ Addrs = 1..Last /\ 0 \notin Addrs
    /\ Addrs \subseteq 0..Last /\ Stack \in Addrs /\ Root \in Envs
    /\ Fresh \in Values /\ Nothing \notin Values /\ NoPage \notin Pages
    /\ Kind \in [Addrs -> {"w", "ro", "share"}] /\ Kind[Stack] = "w"
    /\ \A v \in Addrs : PagesOf(v) \subseteq Pages
BY ForkAssumption DEF Addrs, NoPage, Pages, PagesOf

LEMMA Order ==
    ASSUME NEW u \in Addrs, NEW v \in Addrs
    PROVE  /\ (u < v \/ u = v) <=> u <= v
           /\ u <= v <=> u < v + 1
           /\ v = Last => u <= v
           /\ ~(u < 1) /\ ~(v < v) /\ v <= v
<1>1. u \in Int /\ v \in Int /\ u >= 1 /\ u <= Last /\ Last \in Int
  BY Constants
<1> QED
  BY ONLY <1>1

LEMMA InitFInv == Init => FInv
<1> SUFFICES ASSUME Init PROVE FInv
  OBVIOUS
<1> USE Constants DEF Init
<1>1. ASSUME NEW v \in Addrs
      PROVE  /\ map[Root][v].page = <<v, 1>> /\ Perm(Root, v) = Kind[v]
             /\ Kind[v] \in {"w", "ro", "share"}
             /\ Has(Root, v) /\ <<v, 1>> \in PagesOf(v) /\ <<v, 1>> # NoPage
  <2>1. map[Root][v] = [page |-> <<v, 1>>, perm |-> Kind[v]]
    BY DEF Pte
  <2>2. Kind[v] \in {"w", "ro", "share"}
    BY ONLY Constants
  <2>3. 1 \in 1..Spares
    BY ONLY Constants
  <2>4. <<v, 1>> \in PagesOf(v)
    BY ONLY <2>3 DEF PagesOf
  <2>5. <<v, 1>> # NoPage
    BY ONLY <2>4, Constants
  <2> QED
    BY ONLY <2>1, <2>2, <2>4, <2>5 DEF Perm, Has, Unmapped
<1>2. ASSUME NEW e \in Envs, NEW v \in Addrs, e # Root
      PROVE  map[e][v] = Unmapped /\ map[e][v].page = NoPage /\ Perm(e, v) = "none" /\ ~Has(e, v)
  <2>1. map[e][v] = Unmapped
    BY <1>2
  <2> QED
    BY ONLY <2>1 DEF Unmapped, Perm, Has
<1>3. TypeOK
  <2>1. map \in [Envs -> [Addrs -> [page : Pages \cup {NoPage}, perm : Perms]]]
    <3>1. \A v \in Addrs : <<v, 1>> \in Pages
      BY ONLY <1>1, Constants
    <3>2. \A v \in Addrs : Pte(<<v, 1>>, Kind[v]) \in [page : Pages \cup {NoPage}, perm : Perms]
      BY ONLY <3>1, Constants DEF Pte, Perms
    <3>3. Unmapped \in [page : Pages \cup {NoPage}, perm : Perms]
      BY ONLY DEF Unmapped, Perms
    <3> QED
      BY ONLY <3>2, <3>3, Init DEF Init
  <2>2. NoJob \in Jobs /\ Unhandled \in [stack : BOOLEAN, upcall : BOOLEAN, handler : BOOLEAN]
    BY DEF NoJob, Job, Jobs, Perms, Unhandled
  <2>3. << >> \in Seq(Addrs) /\ Len(<< >>) = 0
    OBVIOUS
  <2>4. /\ job \in [Envs -> Jobs] /\ content \in [Pages -> Values]
        /\ handled \in [Envs -> [stack : BOOLEAN, upcall : BOOLEAN, handler : BOOLEAN]]
    BY <2>2
  <2>5. faults \in [Envs -> Seq(Addrs)] /\ \A e \in Envs : Len(faults[e]) <= 2
    BY <2>3
  <2>6. 0 \in 0..Last
    BY Constants
  <2>7. /\ status \in [Envs -> {"free", "building", "left", "running"}]
        /\ write \in [Envs -> 0..Last] /\ step \in [Envs -> {"none", "copy", "map", "return"}]
    BY ONLY <2>6, Init DEF Init
  <2>8. tmp \in [Envs -> Pages \cup {NoPage}] /\ stopped \in BOOLEAN
    BY ONLY Init DEF Init
  <2> QED
    BY ONLY <2>1, <2>4, <2>5, <2>7, <2>8 DEF TypeOK
<1>4. WritesArePrivate /\ Places /\ SharedByAll /\ CowIsHandled /\ Registered
  <2>1. WritesArePrivate
    <3>1. ASSUME NEW e \in Envs, NEW d \in Envs, NEW u \in Addrs, NEW v \in Addrs,
                 Perm(e, v) = "w", map[d][u].page = map[e][v].page
          PROVE  d = e /\ u = v
      <4>1. e = Root
        BY ONLY <1>2, <3>1, v \in Addrs, e \in Envs
      <4>2. d = Root
        BY ONLY <1>1, <1>2, <3>1, <4>1, v \in Addrs, u \in Addrs, d \in Envs
      <4>3. <<u, 1>> = <<v, 1>>
        BY ONLY <1>1, <3>1, <4>1, <4>2, v \in Addrs, u \in Addrs
      <4> QED
        BY ONLY <4>1, <4>2, <4>3
    <3> QED
      BY ONLY <3>1 DEF WritesArePrivate
  <2>2. Places
    <3>1. ASSUME NEW e \in Envs, NEW v \in Addrs, Has(e, v)
          PROVE  /\ map[e][v].page \in PagesOf(v) /\ Perm(e, v) # "none"
                 /\ Perm(e, v) = "share" <=> Kind[v] = "share"
      <4>1. e = Root
        BY ONLY <1>2, <3>1
      <4> QED
        BY ONLY <1>1, <4>1
    <3> QED
      BY ONLY <3>1 DEF Places
  <2>3. SharedByAll
    BY ONLY <1>2 DEF SharedByAll
  <2>4. \A e \in Envs : handled[e] = Unhandled
    OBVIOUS
  <2>5. \A e \in Envs, v \in Addrs : Perm(e, v) # "cow"
    BY ONLY <1>1, <1>2
  <2>6. CowIsHandled /\ Registered
    BY ONLY <2>4, <2>5 DEF CowIsHandled, Registered, Unhandled
  <2> QED
    BY <2>1, <2>2, <2>3, <2>6
<1>5. Quiet
  <2>1. \A e \in Envs : status[e] = IF e = Root THEN "running" ELSE "free"
    OBVIOUS
  <2>2. \A v \in Addrs : Has(Root, v)
    BY ONLY <1>1
  <2>3. \A e \in Envs \ {Root} : map[e] = NoMap
    BY ONLY Init DEF Init, NoMap
  <2> QED
    BY <2>1, <2>2, <2>3 DEF Quiet
<1>6. Handling /\ Apart /\ Unused
  BY DEF Handling, Apart, Unused, NoJob, Job
<1>7. Making /\ Forking /\ Spawning
  BY DEF Making, Forking, ForkAt, Spawning, SpawnAt, NoJob, Job
<1> QED
  BY <1>3, <1>4, <1>5, <1>6, <1>7 DEF FInv

-----------------------------------------------------------------------------
(* Writes and page faults *)

LEMMA PanicKeeps ==
    ASSUME FInv, ForkPanic
    PROVE  FInv'
<1> USE DEF FInv, ForkPanic, faultVars
<1>1. TypeOK' /\ WritesArePrivate' /\ CowIsHandled' /\ Registered'
  BY DEF TypeOK, WritesArePrivate, CowIsHandled, Registered, Perm, CanHandle
<1>2. Places' /\ SharedByAll' /\ Quiet'
  BY DEF Places, SharedByAll, Quiet, Perm, Has
<1>3. Handling' /\ Apart' /\ Unused'
  BY DEF Handling, Apart, Unused, Perm, Faulted
<1>4. Making' /\ Forking' /\ Spawning'
  BY DEF Making, Forking, ForkAt, Spawning, SpawnAt, Perm, Has, CanHandle
<1> QED
  BY <1>1, <1>2, <1>3, <1>4

LEMMA BeginWriteStep ==
    ASSUME FInv, NEW e \in Envs, NEW v \in Addrs, BeginWrite(e, v)
    PROVE  FInv'
<1> USE DEF FInv
<1>1. /\ status[e] = "running" /\ write[e] = 0 /\ write' = [write EXCEPT ![e] = v]
      /\ UNCHANGED <<status, map, content, handled, faults, step, tmp, job, stopped>>
  BY DEF BeginWrite, Executes, Runs
<1>2. TypeOK' /\ WritesArePrivate' /\ CowIsHandled' /\ Registered'
  BY <1>1, Constants DEF TypeOK, WritesArePrivate, CowIsHandled, Registered, Perm, CanHandle
<1>3. Places' /\ SharedByAll' /\ Quiet'
  BY <1>1 DEF Places, SharedByAll, Quiet, Perm, Has
<1>4. Handling' /\ Apart' /\ Unused'
  <2>1. \A d \in Envs : write'[d] = write[d] \/ write'[d] # 0
    BY <1>1, Constants DEF TypeOK
  <2>2. Handling'
    BY <1>1, <2>1 DEF Handling, Perm, Faulted
  <2>3. Apart' /\ Unused'
    BY <1>1 DEF Apart, Unused
  <2> QED
    BY <2>2, <2>3
<1>5. Making' /\ Forking' /\ Spawning'
  BY <1>1 DEF Making, Forking, ForkAt, Spawning, SpawnAt, Perm, Has, CanHandle
<1> QED
  BY <1>2, <1>3, <1>4, <1>5

(* Who else has a page that is written is a child that has not started. *)
LEMMA WrittenPage ==
    ASSUME FInv, NEW e \in Envs, NEW v \in Addrs, Perm(e, v) = "w",
           NEW d \in Envs, NEW u \in Addrs, map[d][u].page = map[e][v].page
    PROVE  \/ d = e /\ u = v
           \/ status[d] = "building" /\ u = v /\ job[e].step = "own" /\ d = job[e].child
BY DEF FInv, WritesArePrivate, Making, NoJob, Job

LEMMA FaultedAddr ==
    ASSUME FInv, NEW e \in Envs, faults[e] # << >>
    PROVE  /\ Faulted(e) \in Addrs /\ status[e] = "running" /\ Has(e, Faulted(e))
           /\ Tail(faults[e]) \in Seq(Addrs) /\ Len(Tail(faults[e])) = Len(faults[e]) - 1
           /\ Len(faults[e]) \in {1, 2}
<1>1. faults[e] \in Seq(Addrs) /\ Len(faults[e]) <= 2
  BY DEF FInv, TypeOK
<1>2. Head(faults[e]) \in Addrs
  BY <1>1, HeadTailProperties
<1>3. Tail(faults[e]) \in Seq(Addrs) /\ Len(Tail(faults[e])) = Len(faults[e]) - 1
  BY <1>1, HeadTailProperties
<1>4. Len(faults[e]) \in {1, 2}
  <2>1. Len(faults[e]) \in Nat \ {0}
    BY <1>1, EmptySeq
  <2> DEFINE n == Len(faults[e])
  <2>2. n \in Nat /\ n # 0 /\ n <= 2
    BY <1>1, <2>1
  <2> HIDE DEF n
  <2>3. n \in {1, 2}
    BY <2>2
  <2> QED
    BY <2>3 DEF n
<1>5. status[e] = "running" /\ \A v \in Addrs : Has(e, v)
  BY DEF FInv, Quiet, Handling
<1> QED
  BY <1>2, <1>3, <1>4, <1>5 DEF Faulted

LEMMA StoreStep ==
    ASSUME FInv, NEW e \in Envs, NEW x \in Values, Store(e, x)
    PROVE  FInv'
<1> USE DEF FInv
<1>1. PICK v \in Addrs : v = write[e]
  BY Constants DEF Store, Trying, TypeOK
<1>2. /\ status[e] = "running" /\ faults[e] = << >> /\ Perm(e, v) \in {"w", "share"}
      /\ content' = [content EXCEPT ![map[e][v].page] = x] /\ write' = [write EXCEPT ![e] = 0]
      /\ UNCHANGED <<status, map, handled, faults, step, tmp, job, stopped>>
  BY <1>1 DEF Store, Trying, Runs
<1>3. Has(e, v) /\ map[e][v].page \in Pages
  BY <1>2, Constants DEF Quiet, Places
<1>4. TypeOK' /\ WritesArePrivate' /\ CowIsHandled' /\ Registered'
  <2>1. content' \in [Pages -> Values] /\ write' \in [Envs -> 0..Last]
    BY <1>2, <1>3, Constants DEF TypeOK
  <2>2. TypeOK'
    BY <1>2, <2>1 DEF TypeOK
  <2> QED
    BY <1>2, <2>2 DEF WritesArePrivate, CowIsHandled, Registered, Perm, CanHandle
<1>5. Places' /\ SharedByAll' /\ Quiet'
  BY <1>2 DEF Places, SharedByAll, Quiet, Perm, Has
<1>6. Handling'
  <2> SUFFICES ASSUME NEW d \in Envs, faults[d] # << >>, step[d] = "map"
               PROVE  content'[tmp[d]] = content'[map[d][Faulted(d)].page]
    BY <1>2 DEF Handling, Perm, Faulted, TypeOK
  <2>1. /\ tmp[d] \in PagesOf(Faulted(d)) /\ Perm(d, Faulted(d)) = "cow"
        /\ content[tmp[d]] = content[map[d][Faulted(d)].page] /\ d # e
    BY <1>2 DEF Handling
  <2>2. Faulted(d) \in Addrs
    BY FaultedAddr
  <2>3. tmp[d] \in Pages /\ tmp[d] # map[e][v].page
    BY <2>1, <2>2, Constants DEF Apart
  <2>4. map[d][Faulted(d)].page # map[e][v].page
    <3>1. status[d] = "running"
      BY <2>1, <2>2 DEF Quiet, Handling
    <3>2. CASE Perm(e, v) = "w"
      BY <2>1, <2>2, <3>1, <3>2, WrittenPage
    <3>3. CASE Perm(e, v) = "share"
      <4>1. Has(d, Faulted(d)) /\ map[d][Faulted(d)].page \in PagesOf(Faulted(d))
        BY <2>2, <3>1 DEF Quiet, Places
      <4>2. map[e][v].page \in PagesOf(v) /\ Kind[v] = "share" /\ Kind[Faulted(d)] # "share"
        BY <1>3, <2>1, <2>2, <3>3, <4>1 DEF Places
      <4> QED
        BY <4>1, <4>2 DEF PagesOf
    <3> QED
      BY <1>2, <3>2, <3>3
  <2> QED
    BY <1>2, <2>1, <2>3, <2>4 DEF TypeOK
<1>7. Apart' /\ Unused'
  BY <1>2, <1>3 DEF Apart, Unused, TypeOK
<1>8. Making' /\ Forking' /\ Spawning'
  BY <1>2 DEF Making, Forking, ForkAt, Spawning, SpawnAt, Perm, Has, CanHandle
<1> QED
  BY <1>4, <1>5, <1>6, <1>7, <1>8

(* A page that is copy on write is always copied by the handler. *)
LEMMA FaultIsHandled ==
    ASSUME FInv, NEW e \in Envs, NEW v \in Addrs, status[e] = "running", Perm(e, v) = "cow",
           Fault(e, v)
    PROVE  /\ faults' = [faults EXCEPT ![e] = <<v>> \o @]
           /\ step' = [step EXCEPT ![e] = "copy"]
           /\ UNCHANGED <<status, map, content, handled, write, tmp, job, stopped>>
BY DEF FInv, CowIsHandled, Fault

LEMMA FaultKeeps ==
    ASSUME FInv, NEW e \in Envs, NEW v \in Addrs, status[e] = "running", Perm(e, v) = "cow",
           write[e] # 0, Len(faults[e]) <= 1, faults[e] = << >> \/ step[e] # "map", Fault(e, v)
    PROVE  FInv'
<1> USE DEF FInv
<1>1. /\ faults' = [faults EXCEPT ![e] = <<v>> \o @]
      /\ step' = [step EXCEPT ![e] = "copy"]
      /\ UNCHANGED <<status, map, content, handled, write, tmp, job, stopped>>
  BY FaultIsHandled
<1>2. faults[e] \in Seq(Addrs) /\ <<v>> \in Seq(Addrs)
  BY DEF TypeOK
<1>3. /\ faults'[e] \in Seq(Addrs) /\ Len(faults'[e]) <= 2
      /\ faults'[e] # << >> /\ Head(faults'[e]) = v
  <2>1. faults'[e] = <<v>> \o faults[e]
    BY <1>1 DEF TypeOK
  <2>2. (<<v>> \o faults[e]) \in Seq(Addrs) /\ Len(<<v>> \o faults[e]) = 1 + Len(faults[e])
    BY <1>2, ConcatProperties
  <2>3. (<<v>> \o faults[e]) # << >> /\ Head(<<v>> \o faults[e]) = v
    BY <1>2
  <2> QED
    BY <1>2, <2>1, <2>2, <2>3
<1>4. TypeOK' /\ WritesArePrivate' /\ CowIsHandled' /\ Registered'
  BY <1>1, <1>3 DEF TypeOK, WritesArePrivate, CowIsHandled, Registered, Perm, CanHandle
<1>5. Places' /\ SharedByAll' /\ Quiet'
  BY <1>1 DEF Places, SharedByAll, Quiet, Perm, Has
<1>6. Handling'
  BY <1>1, <1>3 DEF Handling, Perm, Faulted, TypeOK
<1>7. Apart' /\ Unused'
  BY <1>1 DEF Apart, Unused
<1>8. Making' /\ Forking' /\ Spawning'
  BY <1>1 DEF Making, Forking, ForkAt, Spawning, SpawnAt, Perm, Has, CanHandle
<1> QED
  BY <1>4, <1>5, <1>6, <1>7, <1>8

LEMMA FaultOnWriteStep ==
    ASSUME FInv, NEW e \in Envs, FaultOnWrite(e)
    PROVE  FInv'
<1>1. write[e] \in Addrs /\ Len(faults[e]) <= 1
  BY Constants DEF FaultOnWrite, Trying, FInv, TypeOK
<1> QED
  BY <1>1, FaultKeeps DEF FaultOnWrite, Trying, Runs

LEMMA ReturnFaultsStep ==
    ASSUME FInv, NEW e \in Envs, ReturnFaults(e)
    PROVE  FInv'
<1>1. /\ status[e] = "running" /\ faults[e] # << >> /\ step[e] = "return"
      /\ Len(faults[e]) = 1 /\ Perm(e, Stack) = "cow" /\ Fault(e, Stack)
  BY DEF ReturnFaults, Handles, Runs
<1>2. write[e] # 0 /\ Stack \in Addrs
  BY <1>1, Constants DEF FInv, Handling
<1>3. Len(faults[e]) <= 1
  BY <1>1
<1> QED
  BY <1>1, <1>2, <1>3, FaultKeeps, Zenon

LEMMA ReturnStep ==
    ASSUME FInv, NEW e \in Envs, Return(e)
    PROVE  FInv'
<1> USE DEF FInv
<1>1. /\ faults[e] # << >> /\ step[e] = "return" /\ faults' = [faults EXCEPT ![e] = Tail(@)]
      /\ step' = [step EXCEPT ![e] = IF Len(faults[e]) = 1 THEN "none" ELSE "return"]
      /\ UNCHANGED <<status, map, content, handled, write, tmp, job, stopped>>
  BY DEF Return, Handles, GoOn
<1>2. /\ faults'[e] \in Seq(Addrs) /\ Len(faults'[e]) <= 2
  <2>1. faults'[e] = Tail(faults[e])
    BY <1>1 DEF TypeOK
  <2>2. Tail(faults[e]) \in Seq(Addrs) /\ Len(Tail(faults[e])) = Len(faults[e]) - 1
    BY <1>1, FaultedAddr
  <2> DEFINE n == Len(faults[e])
  <2>3. n \in {1, 2}
    BY <1>1, FaultedAddr
  <2> HIDE DEF n
  <2>4. n - 1 <= 2
    BY <2>3
  <2> QED
    BY <2>1, <2>2, <2>4 DEF n
<1>3. TypeOK' /\ WritesArePrivate' /\ CowIsHandled' /\ Registered'
  BY <1>1, <1>2 DEF TypeOK, WritesArePrivate, CowIsHandled, Registered, Perm, CanHandle
<1>4. Places' /\ SharedByAll' /\ Quiet'
  BY <1>1 DEF Places, SharedByAll, Quiet, Perm, Has
<1>5. Handling'
  BY <1>1 DEF Handling, Perm, Faulted, TypeOK
<1>6. Apart' /\ Unused'
  BY <1>1 DEF Apart, Unused
<1>7. Making' /\ Forking' /\ Spawning'
  BY <1>1 DEF Making, Forking, ForkAt, Spawning, SpawnAt, Perm, Has, CanHandle
<1> QED
  BY <1>3, <1>4, <1>5, <1>6, <1>7

LEMMA TakenPage ==
    ASSUME NEW v \in Addrs, FreeCopies(v) # {}
    PROVE  /\ NewPage(v) \in PagesOf(v) /\ NewPage(v) \in Pages
           /\ NewPage(v) # NoPage /\ NewPage(v) \notin Mapped
<1>1. PICK i \in FreeCopies(v) : NewPage(v) = <<v, i>>
  BY DEF NewPage
<1>2. i \in 1..Spares /\ <<v, i>> \notin Mapped
  BY DEF FreeCopies
<1>3. <<v, i>> \in PagesOf(v)
  BY ONLY <1>2 DEF PagesOf
<1> QED
  BY <1>1, <1>2, <1>3, Constants

LEMMA HandleCopyStep ==
    ASSUME FInv, NEW e \in Envs, HandleCopy(e)
    PROVE  FInv'
<1> USE DEF FInv
<1>1. CASE ForkPanic
  BY <1>1, PanicKeeps
<1>2. CASE ~ForkPanic
  <2> DEFINE v == Faulted(e)
             p == NewPage(v)
  <2>1. /\ faults[e] # << >> /\ step[e] = "copy" /\ FreeCopies(v) # {}
        /\ tmp' = [tmp EXCEPT ![e] = p]
        /\ content' = [content EXCEPT ![tmp'[e]] = content[map[e][v].page]]
        /\ step' = [step EXCEPT ![e] = "map"]
        /\ UNCHANGED <<status, map, handled, write, faults, job, stopped>>
    BY <1>2 DEF HandleCopy, Handles, GoOn
  <2>2. v \in Addrs /\ status[e] = "running" /\ Has(e, v)
    BY <2>1, FaultedAddr
  <2>3. p \in PagesOf(v) /\ p \in Pages /\ p # NoPage /\ p \notin Mapped
    BY <2>1, <2>2, TakenPage
  <2>4. \A d \in Envs : /\ tmp[d] # p /\ job[d].page # p /\ \A u \in Addrs : map[d][u].page # p
    BY <2>3 DEF Mapped
  <2>5. map[e][v].page \in Pages
    BY <2>2, Constants DEF Places
  <2> HIDE DEF v, p
  <2>6. /\ content' = [content EXCEPT ![p] = content[map[e][v].page]]
        /\ tmp'[e] = p /\ \A d \in Envs \ {e} : tmp'[d] = tmp[d]
    BY <2>1 DEF TypeOK
  <2>7. TypeOK'
    <3>1. content' \in [Pages -> Values] /\ tmp' \in [Envs -> Pages \cup {NoPage}]
      BY <2>1, <2>3, <2>5, <2>6 DEF TypeOK
    <3> QED
      BY <2>1, <3>1 DEF TypeOK
  <2>8. WritesArePrivate' /\ CowIsHandled' /\ Registered'
    BY <2>1 DEF WritesArePrivate, CowIsHandled, Registered, Perm, CanHandle
  <2>9. Places' /\ SharedByAll' /\ Quiet'
    BY <2>1 DEF Places, SharedByAll, Quiet, Perm, Has
  <2>10. Handling'
    <3>1. Perm(e, v) = "cow"
      BY <2>1 DEF Handling, v
    <3>2. content'[p] = content'[map[e][v].page] /\ map[e][v].page # p
      BY <2>2, <2>3, <2>4, <2>6 DEF TypeOK
    <3>3. ASSUME NEW d \in Envs \ {e}, faults[d] # << >>, step[d] = "map"
          PROVE  content'[tmp[d]] = content'[map[d][Faulted(d)].page]
      <4>1. Faulted(d) \in Addrs /\ tmp[d] # p /\ map[d][Faulted(d)].page # p
        BY <2>4, <3>3, FaultedAddr
      <4>2. /\ content[tmp[d]] = content[map[d][Faulted(d)].page]
            /\ tmp[d] \in Pages /\ map[d][Faulted(d)].page \in Pages
        BY <3>3, <4>1, FaultedAddr, Constants DEF Handling, Places
      <4> QED
        BY <2>6, <4>1, <4>2 DEF TypeOK
    <3>4. step'[e] = "map" /\ \A d \in Envs \ {e} : step'[d] = step[d]
      BY <2>1 DEF TypeOK
    <3>5. \A d \in Envs : Faulted(d)' = Faulted(d)
      BY <2>1 DEF Faulted
    <3> QED
      BY <2>1, <2>3, <2>6, <3>1, <3>2, <3>3, <3>4, <3>5 DEF Handling, Perm, v
  <2>11. Apart'
    BY <2>1, <2>4, <2>6 DEF Apart
  <2>12. Unused'
    <3>1. \A q \in Pages \ {p} : content'[q] = content[q]
      BY <2>6 DEF TypeOK
    <3>2. \A q \in Pages : (\A d \in Envs : tmp'[d] # q) => q # p
      BY <2>6
    <3>3. \A d \in Envs : tmp'[d] = tmp[d] \/ (d = e /\ tmp[d] = NoPage)
      BY <2>1, <2>6 DEF Handling
    <3> QED
      BY <2>1, <3>1, <3>2, <3>3, Constants DEF Unused
  <2>13. Making' /\ Forking' /\ Spawning'
    BY <2>1 DEF Making, Forking, ForkAt, Spawning, SpawnAt, Perm, Has, CanHandle
  <2> QED
    BY <2>7, <2>8, <2>9, <2>10, <2>11, <2>12, <2>13
<1> QED
  BY <1>1, <1>2

LEMMA HandleMapStep ==
    ASSUME FInv, NEW e \in Envs, HandleMap(e)
    PROVE  FInv'
<1> USE DEF FInv
<1>0. PICK v \in Addrs, p \in Pages : v = Faulted(e) /\ p = tmp[e] /\ p \in PagesOf(v)
  <2>1. Faulted(e) \in Addrs /\ tmp[e] \in PagesOf(Faulted(e))
    BY FaultedAddr DEF HandleMap, Handles, Handling
  <2> QED
    BY <2>1, Constants
<1>1. /\ faults[e] # << >> /\ step[e] = "map"
      /\ map' = [map EXCEPT ![e][v] = Pte(p, "w")]
      /\ tmp' = [tmp EXCEPT ![e] = NoPage]
      /\ step' = [step EXCEPT ![e] = "return"]
      /\ Recycled /\ UNCHANGED <<status, handled, write, faults, job, stopped>>
  BY <1>0 DEF HandleMap, Handles, GoOn, MapCopy
<1>2. v \in Addrs /\ status[e] = "running" /\ Has(e, v) /\ Perm(e, v) = "cow"
  BY <1>0, <1>1, FaultedAddr DEF Handling
<1>3. p \in PagesOf(v) /\ p # NoPage
  BY <1>0, Constants
<1>4. \A d \in Envs : /\ d # e => tmp[d] # p
                      /\ job[d].page # p /\ \A u \in Addrs : map[d][u].page # p
  BY <1>0, <1>3 DEF Apart
<1>5. /\ \A d \in Envs, u \in Addrs : map'[d][u] = IF d = e /\ u = v THEN Pte(p, "w") ELSE map[d][u]
      /\ Pte(p, "w").page = p /\ Pte(p, "w").perm = "w" /\ Pte(p, "w") # Unmapped
      /\ map' \in [Envs -> [Addrs -> [page : Pages \cup {NoPage}, perm : Perms]]]
      /\ tmp'[e] = NoPage /\ \A d \in Envs \ {e} : tmp'[d] = tmp[d]
  <2>1. /\ Pte(p, "w").page = p /\ Pte(p, "w").perm = "w" /\ Pte(p, "w") # Unmapped
        /\ Pte(p, "w") \in [page : Pages \cup {NoPage}, perm : Perms]
    BY <1>3 DEF Pte, Unmapped, Perms
  <2> QED
    BY <1>1, <1>2, <2>1 DEF TypeOK
<1>6. \A q \in Pages : content'[q] = IF \E d \in Envs : \/ q \in {tmp'[d], job[d].page}
                                                      \/ \E u \in Addrs : map'[d][u].page = q
                                    THEN content[q] ELSE Fresh
  BY <1>1 DEF Recycled
<1>7. TypeOK'
  <2>1. content' \in [Pages -> Values]
    BY <1>1, Constants DEF Recycled, TypeOK
  <2>2. tmp' \in [Envs -> Pages \cup {NoPage}] /\ step' \in [Envs -> {"none", "copy", "map", "return"}]
    BY <1>1 DEF TypeOK
  <2> QED
    BY <1>1, <1>5, <2>1, <2>2 DEF TypeOK
<1>8. \A d \in Envs, u \in Addrs : /\ Has(d, u)' <=> Has(d, u)
                                   /\ (d = e /\ u = v) \/ Perm(d, u)' = Perm(d, u)
  BY <1>2, <1>5 DEF Has, Perm
<1>9. Kind[v] # "share" /\ Perm(e, v)' = "w"
  BY <1>2, <1>5 DEF Places, Perm
<1>10. WritesArePrivate'
  BY <1>1, <1>4, <1>5 DEF WritesArePrivate, Perm
<1>11. CowIsHandled' /\ Registered'
  BY <1>1, <1>8, <1>9 DEF CowIsHandled, Registered, CanHandle
<1>12. Places'
  BY <1>3, <1>5, <1>9 DEF Places, Has, Perm
<1>13. SharedByAll' /\ Quiet'
  <2>1. SharedByAll'
    <3>1. \A d \in Envs, u \in Addrs : Kind[u] = "share" => map'[d][u] = map[d][u]
      BY <1>5, <1>9
    <3> QED
      BY <3>1 DEF SharedByAll, Has
  <2>2. \A d \in Envs \ {e} : map'[d] = map[d]
    BY <1>1 DEF TypeOK
  <2> QED
    BY <1>1, <1>2, <1>5, <2>1, <2>2 DEF Quiet, Has
<1>14. Handling'
  <2>1. ASSUME NEW d \in Envs \ {e}, faults[d] # << >>, step[d] \in {"copy", "map"}
        PROVE  /\ Perm(d, Faulted(d))' = "cow"
               /\ step[d] = "map" => content'[tmp[d]] = content'[map'[d][Faulted(d)].page]
    <3>1. Faulted(d) \in Addrs /\ Faulted(d)' = Faulted(d)
      BY <1>1, <2>1, FaultedAddr DEF Faulted
    <3>2. map'[d][Faulted(d)] = map[d][Faulted(d)]
      BY <1>5, <3>1
    <3>3. map[d][Faulted(d)].page \in Pages /\ Perm(d, Faulted(d)) = "cow"
      BY <2>1, <3>1, FaultedAddr, Constants DEF Handling, Places
    <3>4. content'[map'[d][Faulted(d)].page] = content[map[d][Faulted(d)].page]
      BY <1>6, <3>1, <3>2, <3>3
    <3>5. step[d] = "map" => content'[tmp[d]] = content[tmp[d]]
      <4>1. step[d] = "map" => tmp[d] \in Pages /\ tmp'[d] = tmp[d]
        BY <1>5, <2>1, <3>1, Constants DEF Handling
      <4> QED
        BY <1>6, <4>1
    <3> QED
      BY <2>1, <3>1, <3>2, <3>3, <3>4, <3>5 DEF Perm, Handling
  <2>2. step'[e] = "return" /\ \A d \in Envs \ {e} : step'[d] = step[d]
    BY <1>1 DEF TypeOK
  <2>3. \A d \in Envs : Faulted(d)' = Faulted(d)
    BY <1>1 DEF Faulted
  <2> QED
    BY <1>1, <1>5, <2>1, <2>2, <2>3 DEF Handling, Perm
<1>15. Apart'
  BY <1>1, <1>4, <1>5 DEF Apart
<1>16. Unused'
  BY <1>1, <1>5, <1>6 DEF Unused, Apart
<1>17. Making' /\ Forking' /\ Spawning'
  <2>1. Making'
    BY <1>1 DEF Making
  <2>2. Spawning'
    <3>1. \A d \in Envs : job[d].kind = "spawn" => job[d].child # e
      BY <1>2 DEF Making, NoJob, Job
    <3>2. \A d \in Envs : job[d].kind = "spawn" => \A u \in Addrs : map'[job[d].child][u] = map[job[d].child][u]
      BY <1>1, <1>5, <3>1 DEF Making, NoJob, Job
    <3> QED
      BY <1>1, <3>2 DEF Spawning, SpawnAt, Has, Perm
  <2>3. Forking'
    BY <1>1, <1>2, <1>5, <1>9 DEF Forking, ForkAt, Marks, CanHandle, Has, Perm
  <2> QED
    BY <2>1, <2>2, <2>3
<1> QED
  BY <1>7, <1>10, <1>11, <1>12, <1>13, <1>14, <1>15, <1>16, <1>17

-----------------------------------------------------------------------------
(* fork() *)

(* No page is mapped anew. *)
LEMMA ApartKept ==
    ASSUME Apart, tmp' = tmp,
           \A d \in Envs : job'[d].page \in {job[d].page, NoPage},
           \A d \in Envs, u \in Addrs :
               map'[d][u].page = NoPage \/ \E x \in Envs : map'[d][u].page = map[x][u].page
    PROVE  Apart'
<1>1. ASSUME NEW a \in Envs, NEW d \in Envs, tmp[a] # NoPage
      PROVE  /\ tmp[a] # job'[d].page /\ (d # a => tmp[a] # tmp[d])
             /\ \A u \in Addrs : map'[d][u].page # tmp[a]
  <2>1. tmp[a] # job'[d].page /\ (d # a => tmp[a] # tmp[d])
    BY <1>1 DEF Apart
  <2>2. ASSUME NEW u \in Addrs PROVE map'[d][u].page # tmp[a]
    BY <1>1 DEF Apart
  <2> QED
    BY <2>1, <2>2
<1>2. ASSUME NEW a \in Envs, NEW d \in Envs, job'[a].page # NoPage
      PROVE  /\ d # a => job'[a].page # job'[d].page
             /\ \A u \in Addrs : map'[d][u].page # job'[a].page
  <2>1. job'[a].page = job[a].page /\ job[a].page # NoPage
    BY <1>2
  <2>2. d # a => job'[a].page # job'[d].page
    BY <2>1 DEF Apart
  <2>3. ASSUME NEW u \in Addrs PROVE map'[d][u].page # job[a].page
    BY <2>1 DEF Apart
  <2> QED
    BY <2>1, <2>2, <2>3
<1> QED
  BY ONLY <1>1, <1>2, tmp' = tmp DEF Apart

(* A step that does not touch a child nor its parent's mappings leaves it where it is. *)
LEMMA ForkKept ==
    ASSUME NEW d \in Envs, ForkAt(d), job'[d] = job[d], handled'[d] = handled[d],
           handled'[job[d].child] = handled[job[d].child],
           map'[job[d].child] = map[job[d].child], map'[d] = map[d]
    PROVE  ForkAt(d)'
BY DEF ForkAt, CanHandle, Perm, Has

LEMMA SpawnKept ==
    ASSUME NEW d \in Envs, SpawnAt(d), job'[d] = job[d],
           handled'[job[d].child] = handled[job[d].child],
           map'[job[d].child] = map[job[d].child]
    PROVE  SpawnAt(d)'
BY DEF SpawnAt, Perm, Has

(* A parent and its child. *)
LEMMA Child ==
    ASSUME FInv, NEW e \in Envs, job[e].kind # "none"
    PROVE  /\ job[e] # NoJob /\ status[e] = "running" /\ job[e] \in Jobs /\ job[e].v \in Addrs
           /\ job[e].child \in Envs /\ status[job[e].child] = "building" /\ job[e].child # e
           /\ job[job[e].child] = NoJob
           /\ \A d \in Envs \ {e} : job[d].kind # "none" => job[d].child # job[e].child
<1>1. job[e] # NoJob /\ \A d \in Envs : job[d].kind # "none" => job[d] # NoJob
  BY DEF NoJob, Job
<1> QED
  BY <1>1 DEF FInv, Making, Quiet, TypeOK

LEMMA BeginForkStep ==
    ASSUME FInv, NEW e \in Envs, NEW c \in Envs, BeginFork(e, c)
    PROVE  FInv'
<1> USE DEF FInv
<1>1. /\ status[e] = "running" /\ write[e] = 0 /\ job[e] = NoJob /\ status[c] = "free" /\ c # e
      /\ handled' = [handled EXCEPT ![e] =
            [stack |-> @.stack \/ ~@.handler, upcall |-> TRUE, handler |-> TRUE]]
      /\ status' = [status EXCEPT ![c] = "building"]
      /\ UNCHANGED <<map, content, faultVars, tmp, stopped>>
  BY DEF BeginFork, Idle, Executes, Runs, FreeEnvs
<1>2. PICK j \in Jobs : /\ job' = [job EXCEPT ![e] = j]
                        /\ j.kind = "fork" /\ j.child = c /\ j.v = 1 /\ j.step = "pte"
                        /\ j.page = NoPage
  <2> DEFINE j == Job("fork", c, 1, "pte")
  <2>1. 1 \in 0..Last
    BY Constants
  <2>3. j \in Jobs /\ j.kind = "fork" /\ j.child = c /\ j.v = 1 /\ j.step = "pte" /\ j.page = NoPage
    BY <2>1 DEF Job, Jobs, Perms
  <2> QED
    BY <2>3 DEF BeginFork
<1> USE DEF faultVars
<1>3. /\ map[c] = NoMap /\ write[c] = 0 /\ job[c] = NoJob
      /\ \A v \in Addrs : ~Has(c, v)
  BY <1>1 DEF Quiet, Has, NoMap
<1>4. /\ handled'[e].stack /\ handled'[e].upcall
      /\ \A d \in Envs \ {e} : handled'[d] = handled[d]
      /\ handled' \in [Envs -> [stack : BOOLEAN, upcall : BOOLEAN, handler : BOOLEAN]]
  <2>1. handled'[e] = [stack |-> handled[e].stack \/ ~handled[e].handler, upcall |-> TRUE, handler |-> TRUE]
    BY <1>1 DEF TypeOK
  <2>2. handled[e].stack \/ ~handled[e].handler
    BY <1>1 DEF Registered, CanHandle
  <2>3. handled'[e].stack /\ handled'[e].upcall
    <3>1. handled'[e] = [stack |-> TRUE, upcall |-> TRUE, handler |-> TRUE]
      BY <2>1, <2>2
    <3> QED
      BY ONLY <3>1
  <2>4. handled'[e] \in [stack : BOOLEAN, upcall : BOOLEAN, handler : BOOLEAN]
    BY <2>1
  <2> QED
    BY <1>1, <2>3, <2>4 DEF TypeOK
<1>5. /\ job'[e] = j /\ \A d \in Envs \ {e} : job'[d] = job[d]
      /\ job' \in [Envs -> Jobs] /\ job[e].page = NoPage /\ job[e].kind = "none"
  BY <1>1, <1>2 DEF TypeOK, NoJob, Job
<1>6. TypeOK'
  BY <1>1, <1>4, <1>5 DEF TypeOK
<1>7. WritesArePrivate'
  BY <1>1, <1>5 DEF WritesArePrivate, Perm
<1>8. CowIsHandled' /\ Registered'
  BY <1>1, <1>4 DEF CowIsHandled, Registered, Perm, CanHandle, TypeOK
<1>9. Places' /\ SharedByAll'
  BY <1>1 DEF Places, SharedByAll, Perm, Has
<1>10. Quiet'
  BY <1>1, <1>3, <1>4, <1>5 DEF Quiet, Has, TypeOK
<1>11. Handling' /\ Unused'
  BY <1>1 DEF Handling, Unused, Perm, Faulted
<1>12. Apart'
  BY <1>1, <1>2, <1>5 DEF Apart
<1>13. Making'
  <2>1. 1 \in Addrs
    BY Constants
  <2>2. \A d \in Envs : job[d] # NoJob => job[d].child # c
    BY <1>1 DEF Making
  <2> QED
    BY <1>1, <1>2, <1>5, <2>1, <2>2 DEF Making, TypeOK
<1>14. Forking'
  <2>1. \A d \in Envs \ {e} : job[d].kind = "fork" => job[d].child # e
    BY <1>1, Child
  <2>2. \A u \in Addrs : ~(u < 1)
    BY Constants
  <2> QED
    BY <1>1, <1>2, <1>3, <1>4, <1>5, <2>1, <2>2 DEF Forking, ForkAt, Perm, Has, CanHandle
<1>15. Spawning'
  <2>1. \A d \in Envs \ {e} : job[d].kind = "spawn" => job[d].child # e /\ job[d].child \in Envs
    BY <1>1, Child
  <2> QED
    BY <1>1, <1>2, <1>4, <1>5, <2>1 DEF Spawning, SpawnAt, Perm, Has
<1> QED
  BY <1>6, <1>7, <1>8, <1>9, <1>10, <1>11, <1>12, <1>13, <1>14, <1>15

LEMMA ReadPteStep ==
    ASSUME FInv, NEW e \in Envs, ReadPte(e)
    PROVE  FInv'
<1> USE DEF FInv
<1>1. /\ job[e].kind = "fork" /\ job[e].step = "pte"
      /\ job' = [job EXCEPT ![e].step = "child", ![e].seen = Perm(e, job[e].v)]
      /\ UNCHANGED <<status, map, content, handled, faultVars, tmp, stopped>>
  BY DEF ReadPte, Doing
<1> USE DEF faultVars
<1>2. /\ job[e].v \in Addrs /\ job[e].child \in Envs /\ status[e] = "running" /\ job[e] # NoJob
      /\ Has(e, job[e].v) /\ job[e] \in Jobs
  BY <1>1, Child DEF Quiet
<1>3. PICK j \in Jobs : /\ job' = [job EXCEPT ![e] = j]
                        /\ j.kind = "fork" /\ j.child = job[e].child /\ j.v = job[e].v
                        /\ j.step = "child" /\ j.seen = Perm(e, job[e].v) /\ j.page = job[e].page
  <2> DEFINE j == [job[e] EXCEPT !.step = "child", !.seen = Perm(e, job[e].v)]
  <2>1. job' = [job EXCEPT ![e] = j]
    BY <1>1 DEF TypeOK
  <2>2. Perm(e, job[e].v) \in Perms
    BY <1>2 DEF TypeOK, Perm
  <2>3. j \in Jobs /\ j.kind = "fork" /\ j.child = job[e].child /\ j.v = job[e].v
        /\ j.step = "child" /\ j.seen = Perm(e, job[e].v) /\ j.page = job[e].page
    BY <1>1, <1>2, <2>2 DEF Jobs
  <2> QED
    BY <2>1, <2>3
<1>4. /\ job'[e] = j /\ (\A d \in Envs \ {e} : job'[d] = job[d]) /\ job' \in [Envs -> Jobs]
  BY <1>3 DEF TypeOK
<1>5. TypeOK'
  BY <1>1, <1>4 DEF TypeOK
<1>6. WritesArePrivate'
  BY <1>1, <1>3, <1>4 DEF WritesArePrivate, Perm
<1>7. CowIsHandled' /\ Registered' /\ Places' /\ SharedByAll'
  BY <1>1 DEF CowIsHandled, Registered, Places, SharedByAll, Perm, CanHandle, Has
<1>8. Quiet'
  BY <1>1, <1>2, <1>4 DEF Quiet, Has
<1>9. Handling' /\ Unused'
  BY <1>1 DEF Handling, Unused, Perm, Faulted
<1>10. Apart' /\ Making'
  <2>1. \A d \in Envs : job'[d].page = job[d].page
    BY <1>3, <1>4
  <2>2. Apart'
    BY <1>1, <2>1, ApartKept
  <2>3. Making'
    BY <1>1, <1>2, <1>3, <1>4 DEF Making
  <2> QED
    BY <2>2, <2>3
<1>11. Forking'
  <2>1. ASSUME NEW d \in Envs \ {e}, job'[d].kind = "fork"
        PROVE  ForkAt(d)'
    BY <1>1, <1>4, <2>1, ForkKept DEF Forking
  <2>2. j.seen = "w" \/ j.seen = "cow" \/ j.seen \in {"ro", "share"}
    BY <1>2, <1>3 DEF Places, TypeOK, Perms, Perm
  <2>3. ForkAt(e)
    BY <1>1 DEF Forking
  <2>4. /\ job'[e].child = job[e].child /\ job'[e].v = job[e].v /\ job'[e].step = "child"
        /\ job'[e].page = job[e].page /\ job'[e].seen = Perm(e, job[e].v)
        /\ map' = map /\ handled' = handled /\ job[e].step = "pte"
    BY <1>1, <1>3, <1>4
  <2>5. ForkAt(e)'
    BY ONLY <1>3, <2>2, <2>3, <2>4 DEF ForkAt, Perm, Has, CanHandle, Marks
  <2> QED
    BY <2>1, <2>5 DEF Forking
<1>12. Spawning'
  <2>1. ASSUME NEW d \in Envs, job'[d].kind = "spawn"
        PROVE  SpawnAt(d)'
    BY <1>1, <1>3, <1>4, <2>1, SpawnKept DEF Spawning
  <2> QED
    BY <2>1 DEF Spawning
<1> QED
  BY <1>5, <1>6, <1>7, <1>8, <1>9, <1>10, <1>11, <1>12

LEMMA NewStep ==
    ASSUME NEW e \in Envs, NEW point, job \in [Envs -> Jobs], ToStep(e, point),
           point \in {"own", "stack", "pte", "upcall", "start", "share"}
    PROVE  \E j \in Jobs : /\ job' = [job EXCEPT ![e] = j]
                           /\ j.kind = job[e].kind /\ j.child = job[e].child /\ j.v = job[e].v
                           /\ j.page = job[e].page /\ j.seen = job[e].seen /\ j.step = point
<1> DEFINE j == [job[e] EXCEPT !.step = point]
<1>1. job' = [job EXCEPT ![e] = j]
  BY DEF ToStep
<1>2. /\ j \in Jobs /\ j.kind = job[e].kind /\ j.child = job[e].child /\ j.v = job[e].v
      /\ j.page = job[e].page /\ j.seen = job[e].seen /\ j.step = point
  BY DEF Jobs
<1> QED
  BY <1>1, <1>2

LEMMA NewAddr ==
    ASSUME NEW e \in Envs, NEW last, NEW more, job \in [Envs -> Jobs], job[e].v \in Addrs,
           {last, more} \subseteq {"stack", "pte", "start", "share"}, NextAddr(e, last, more)
    PROVE  \E j \in Jobs : /\ job' = [job EXCEPT ![e] = j]
                           /\ j.kind = job[e].kind /\ j.child = job[e].child
                           /\ j.page = job[e].page /\ j.v \in Addrs
                           /\ \/ job[e].v = Last /\ j.v = job[e].v /\ j.step = last
                              \/ job[e].v # Last /\ j.v = job[e].v + 1 /\ j.step = more
<1>1. job[e] \in Jobs
  OBVIOUS
<1>2. CASE job[e].v = Last
  BY <1>2, NewStep DEF NextAddr
<1>3. CASE job[e].v # Last
  <2> DEFINE j == [job[e] EXCEPT !.step = more, !.v = @ + 1]
  <2>1. job' = [job EXCEPT ![e] = j]
    BY <1>3 DEF NextAddr
  <2>2. job[e].v + 1 \in Addrs /\ job[e].v + 1 \in 0..Last
    BY <1>3, Constants
  <2>3. /\ j \in Jobs /\ j.kind = job[e].kind /\ j.child = job[e].child /\ j.v = job[e].v + 1
        /\ j.page = job[e].page /\ j.step = more
    BY <1>1, <2>2 DEF Jobs
  <2> QED
    BY <1>3, <2>1, <2>2, <2>3
<1> QED
  BY <1>2, <1>3

LEMMA DupChildStep ==
    ASSUME FInv, NEW e \in Envs, DupChild(e)
    PROVE  FInv'
<1> USE DEF FInv
<1>1. /\ job[e].kind = "fork" /\ job[e].step = "child"
      /\ map' = [map EXCEPT ![job[e].child][job[e].v] =
                     Pte(map[e][job[e].v].page, ChildPerm(job[e].seen))]
      /\ IF Marks(job[e].seen) THEN ToStep(e, "own") ELSE NextAddr(e, "stack", "pte")
      /\ UNCHANGED <<status, content, handled, faultVars, tmp, stopped>>
  BY DEF DupChild, Doing
<1> USE DEF faultVars
<1>2. PICK c \in Envs, v \in Addrs :
        /\ c = job[e].child /\ v = job[e].v /\ status[c] = "building" /\ c # e /\ job[c] = NoJob
        /\ \A d \in Envs \ {e} : job[d].kind # "none" => job[d].child # c
  BY <1>1, Child
<1>3. job[e] # NoJob /\ status[e] = "running" /\ Has(e, v)
  BY <1>1, <1>2, Child DEF Quiet
<1>4. /\ \/ Marks(job[e].seen) /\ Marks(Perm(e, v))
         \/ job[e].seen \in {"ro", "share"} /\ Perm(e, v) = job[e].seen
      /\ \A u \in Addrs : Has(c, u) <=> u < v
      /\ CanHandle(e) /\ job[e].page = NoPage
  BY <1>1, <1>2 DEF Forking, ForkAt
<1>5. PICK j \in Jobs :
        /\ job' = [job EXCEPT ![e] = j]
        /\ j.kind = "fork" /\ j.child = c /\ j.page = NoPage /\ j.v \in Addrs
        /\ \/ Marks(job[e].seen) /\ j.v = v /\ j.step = "own"
           \/ ~Marks(job[e].seen) /\ v = Last /\ j.v = v /\ j.step = "stack"
           \/ ~Marks(job[e].seen) /\ v # Last /\ j.v = v + 1 /\ j.step = "pte"
  BY <1>1, <1>2, <1>4, NewStep, NewAddr DEF TypeOK
<1>6. /\ job'[e] = j /\ (\A d \in Envs \ {e} : job'[d] = job[d]) /\ job' \in [Envs -> Jobs]
  BY <1>5 DEF TypeOK
<1>7. PICK m : m = Pte(map[e][v].page, ChildPerm(job[e].seen))
  OBVIOUS
<1>8. /\ m \in [page : Pages \cup {NoPage}, perm : Perms] /\ m # Unmapped
      /\ m.page = map[e][v].page /\ m.page \in PagesOf(v) /\ m.page \in Pages /\ m.page # NoPage
      /\ m.perm \in {"ro", "share", "cow"}
      /\ Kind[v] = "share" => m = map[e][v]
      /\ m.perm = "share" <=> Kind[v] = "share"
  <2>1. map[e][v].page \in PagesOf(v) /\ map[e][v].page \in Pages /\ (Perm(e, v) = "share" <=> Kind[v] = "share")
    BY <1>3, Constants DEF Places
  <2>2. /\ ChildPerm(job[e].seen) \in {"ro", "share", "cow"}
        /\ ChildPerm(job[e].seen) = "share" <=> Kind[v] = "share"
        /\ Kind[v] = "share" => ChildPerm(job[e].seen) = Perm(e, v)
    BY <1>4, <2>1 DEF ChildPerm, Marks
  <2>3. m = [page |-> map[e][v].page, perm |-> ChildPerm(job[e].seen)]
    BY <1>7 DEF Pte
  <2>4. /\ m \in [page : Pages \cup {NoPage}, perm : Perms] /\ m # Unmapped
        /\ m.page = map[e][v].page /\ m.perm = ChildPerm(job[e].seen)
    BY <2>1, <2>2, <2>3 DEF Perms, Unmapped, Pte
  <2>5. map[e][v] = [page |-> map[e][v].page, perm |-> Perm(e, v)]
    <3>1. map \in [Envs -> [Addrs -> [page : Pages \cup {NoPage}, perm : Perms]]]
      BY Zenon DEF TypeOK
    <3>2. map[e][v] \in [page : Pages \cup {NoPage}, perm : Perms]
      BY ONLY <3>1, SMTT(20)
    <3> QED
      BY ONLY <3>2, EntryIs DEF Perm
  <2> QED
    BY <2>1, <2>2, <2>3, <2>4, <2>5, Constants
<1>9. /\ \A d \in Envs, u \in Addrs : map'[d][u] = IF d = c /\ u = v THEN m ELSE map[d][u]
      /\ \A d \in Envs \ {c} : map'[d] = map[d]
      /\ map' \in [Envs -> [Addrs -> [page : Pages \cup {NoPage}, perm : Perms]]]
  BY <1>1, <1>2, <1>7, <1>8 DEF TypeOK
<1> DEFINE Same == /\ status' = status /\ content' = content /\ handled' = handled /\ write' = write
                   /\ faults' = faults /\ step' = step /\ tmp' = tmp /\ stopped' = stopped
<1>S. Same
  BY <1>1
<1>10. TypeOK'
  BY ONLY <1>S, <1>6, <1>9, TypeOK DEF TypeOK
<1>11. WritesArePrivate'
  <2> SUFFICES ASSUME NEW a \in Envs, NEW d \in Envs, NEW u \in Addrs, NEW w \in Addrs,
                      map'[a][w].perm = "w", map'[d][u].page = map'[a][w].page, d # a \/ u # w
               PROVE  job'[a].kind = "fork" /\ job'[a].step = "own" /\ d = job'[a].child
                      /\ u = w /\ w = job'[a].v
    BY DEF WritesArePrivate, Perm
  <2>1. map'[a][w] = map[a][w] /\ Perm(a, w) = "w"
    BY ONLY <1>8, <1>9, map'[a][w].perm = "w", a \in Envs, w \in Addrs DEF Perm
  <2>2. CASE d = c /\ u = v
    <3>1. map[e][v].page = map[a][w].page
      BY ONLY <1>8, <1>9, <2>1, <2>2, map'[d][u].page = map'[a][w].page
    <3>2. e = a /\ v = w
      BY <1>3, <2>1, <3>1, WrittenPage
    <3>3. Marks(job[e].seen)
      BY <1>4, <2>1, <3>2 DEF Marks
    <3> QED
      BY <1>5, <1>6, <2>2, <3>2, <3>3
  <2>3. CASE ~(d = c /\ u = v)
    <3>1. map[d][u].page = map[a][w].page
      BY ONLY <1>9, <2>1, <2>3, map'[d][u].page = map'[a][w].page, d \in Envs, u \in Addrs
    <3>2. job[a].kind = "fork" /\ job[a].step = "own" /\ d = job[a].child /\ u = w /\ w = job[a].v
      BY <2>1, <3>1 DEF WritesArePrivate
    <3> QED
      BY ONLY <1>1, <1>6, <3>2, a \in Envs
  <2> QED
    BY <2>2, <2>3
<1>12. CowIsHandled' /\ Registered'
  <2>1. \A x \in Envs : status'[x] = "running" => map'[x] = map[x]
    BY ONLY <1>S, <1>2, <1>9
  <2> QED
    BY ONLY <1>S, <2>1, CowIsHandled, Registered DEF CowIsHandled, Registered, Perm, CanHandle
<1>13. Places'
  BY ONLY <1>8, <1>9, Places DEF Places, Has, Perm
<1>14. SharedByAll'
  <2>1. ASSUME NEW d \in Envs, NEW u \in Addrs, Kind[u] = "share", map'[d][u] # Unmapped
        PROVE  \E x \in Envs : Has(x, u) /\ map'[d][u] = map[x][u]
    <3>1. CASE d = c /\ u = v
      BY ONLY <1>3, <1>8, <1>9, <2>1, <3>1 DEF Has
    <3>2. CASE ~(d = c /\ u = v)
      BY ONLY <1>9, <2>1, <3>2 DEF Has
    <3> QED
      BY <3>1, <3>2
  <2> QED
    BY ONLY <2>1, SharedByAll DEF SharedByAll, Has
<1>15. Quiet'
  BY ONLY <1>S, <1>2, <1>3, <1>6, <1>9, Quiet DEF Quiet, Has
<1>16. Handling'
  <2>1. \A d \in Envs : faults[d] # << >> => map'[d] = map[d]
    BY <1>2, <1>9, FaultedAddr
  <2> QED
    BY ONLY <1>S, <2>1, Handling DEF Handling, Perm, Faulted
<1>17. Apart'
  <2>1. \A d \in Envs : job'[d].page = job[d].page
    BY <1>4, <1>5, <1>6
  <2>2. \A d \in Envs, u \in Addrs : \E x \in Envs : map'[d][u].page = map[x][u].page
    BY ONLY <1>8, <1>9
  <2> QED
    BY ONLY <1>S, <2>1, <2>2, Apart, ApartKept
<1>18. Unused'
  <2>1. ~Has(c, v)
    BY <1>4, Constants
  <2>2. map[c][v].page \notin Pages
    BY <2>1, Constants DEF Has, Unmapped, Pte
  <2> QED
    BY ONLY <1>S, <1>9, <2>2, Unused DEF Unused
<1>19. Making'
  BY <1>1, <1>2, <1>3, <1>5, <1>6 DEF Making
<1>20. Forking'
  <2>1. ASSUME NEW d \in Envs \ {e}, job[d].kind = "fork"
        PROVE  job[d].child \in Envs \ {c} /\ d # c
    BY <1>2, <2>1, Child DEF NoJob, Job
  <2>2. ASSUME NEW u \in Addrs
        PROVE  Has(c, u)' <=> u <= v
    <3>1. Has(c, u)' <=> (u = v \/ Has(c, u))
      <4>1. map'[c][u] = IF u = v THEN m ELSE map[c][u]
        BY ONLY <1>9, <1>2
      <4> QED
        BY ONLY <4>1, <1>8 DEF Has
    <3>2. Has(c, u) <=> u < v
      BY <1>4
    <3>3. (u < v \/ u = v) <=> u <= v
      BY Order
    <3> QED
      BY ONLY <3>1, <3>2, <3>3
  <2>3. \A u \in Addrs : (u <= v <=> u < v + 1) /\ (v = Last => u <= v)
    BY Order
  <2>4. \A d \in Envs \ {e} : job'[d].kind = "fork" => LET x == job[d].child IN
             \A u \in Addrs : (Has(x, u)' <=> Has(x, u)) /\ Perm(d, u)' = Perm(d, u)
    BY <1>6, <1>9, <2>1 DEF Has, Perm
  <2>5. \A u \in Addrs : Perm(e, u)' = Perm(e, u)
    BY <1>2, <1>9 DEF Perm
  <2>6. /\ j.step \in {"pte", "child"} => \A u \in Addrs : Has(c, u)' <=> u < j.v
        /\ j.step = "own" => \A u \in Addrs : Has(c, u)' <=> u <= j.v
        /\ j.step \in {"stack", "upcall", "start"} => \A u \in Addrs : Has(c, u)'
        /\ j.step \in {"pte", "own", "stack"}
        /\ j.step = "own" => Marks(Perm(e, v)) /\ j.v = v
    <3>1. CASE Marks(job[e].seen) /\ j.v = v /\ j.step = "own"
      <4>1. Marks(Perm(e, v))
        BY <1>4, <3>1 DEF Marks
      <4> QED
        BY ONLY <2>2, <3>1, <4>1
    <3>2. CASE v = Last /\ j.v = v /\ j.step = "stack"
      BY ONLY <2>2, <2>3, <3>2
    <3>3. CASE j.v = v + 1 /\ j.step = "pte"
      BY ONLY <2>2, <2>3, <3>3
    <3> QED
      BY ONLY <1>5, <3>1, <3>2, <3>3
  <2>7. job'[e].kind = "fork" /\ job'[e].child = c /\ job'[e].v = j.v /\ job'[e].step = j.step
        /\ job'[e].page = NoPage
    BY <1>5, <1>6
  <2>8. ASSUME NEW d \in Envs \ {e}, job'[d].kind = "fork"
        PROVE  /\ job'[d] = job[d] /\ job[d].kind = "fork"
               /\ \A u \in Addrs : /\ Has(job[d].child, u)' <=> Has(job[d].child, u)
                                   /\ Perm(d, u)' = Perm(d, u)
    BY <1>6, <2>4, <2>8
  <2>9. ASSUME NEW d \in Envs, job'[d].kind = "fork"
        PROVE  ForkAt(d)'
    <3>1. CASE d = e
      BY <1>1, <1>4, <1>2, <2>5, <2>6, <2>7, <3>1 DEF CanHandle, ForkAt
    <3>2. CASE d # e
      <4>1. /\ job'[d] = job[d] /\ job[d].kind = "fork" /\ job[d].v \in Addrs
            /\ \A u \in Addrs : /\ Has(job[d].child, u)' <=> Has(job[d].child, u)
                                /\ Perm(d, u)' = Perm(d, u)
        BY <2>8, <2>9, <3>2, Child, SMTT(20)
      <4> QED
        BY <1>1, <4>1 DEF Forking, ForkAt, CanHandle
    <3> QED
      BY <3>1, <3>2
  <2> QED
    BY <2>9 DEF Forking
<1>21. Spawning'
  <2>1. \A d \in Envs : job'[d].kind = "spawn" =>
            d # e /\ job'[d] = job[d] /\ map'[job[d].child] = map[job[d].child]
    BY <1>2, <1>5, <1>6, <1>9, Child
  <2> QED
    BY <1>1, <2>1, SMTT(20) DEF Spawning, SpawnAt, Perm, Has
<1> QED
  BY <1>10, <1>11, <1>12, <1>13, <1>14, <1>15, <1>16, <1>17, <1>18, <1>19, <1>20, <1>21

LEMMA DupOwnStep ==
    ASSUME FInv, NEW e \in Envs, DupOwn(e)
    PROVE  FInv'
<1> USE DEF FInv
<1>1. /\ job[e].kind = "fork" /\ job[e].step = "own" /\ write[e] = 0
      /\ map' = [map EXCEPT ![e][job[e].v].perm = "cow"]
      /\ NextAddr(e, "stack", "pte")
      /\ UNCHANGED <<status, content, handled, faultVars, tmp, stopped>>
  BY DEF DupOwn, Doing, Executes
<1> USE DEF faultVars
<1>2. PICK c \in Envs, v \in Addrs :
        /\ c = job[e].child /\ v = job[e].v /\ status[c] = "building" /\ c # e /\ job[c] = NoJob
        /\ \A d \in Envs \ {e} : job[d].kind # "none" => job[d].child # c
  BY <1>1, Child
<1>3. job[e] # NoJob /\ status[e] = "running" /\ Has(e, v) /\ faults[e] = << >>
  BY <1>1, <1>2, Child DEF Quiet, Handling
<1>4. /\ Marks(Perm(e, v)) /\ CanHandle(e) /\ job[e].page = NoPage
      /\ \A u \in Addrs : Has(c, u) <=> u <= v
  BY <1>1, <1>2 DEF Forking, ForkAt
<1>5. PICK j \in Jobs :
        /\ job' = [job EXCEPT ![e] = j]
        /\ j.kind = "fork" /\ j.child = c /\ j.page = NoPage /\ j.v \in Addrs
        /\ \/ v = Last /\ j.v = v /\ j.step = "stack"
           \/ v # Last /\ j.v = v + 1 /\ j.step = "pte"
  BY <1>1, <1>2, <1>4, NewAddr DEF TypeOK
<1>6. /\ job'[e] = j /\ (\A d \in Envs \ {e} : job'[d] = job[d]) /\ job' \in [Envs -> Jobs]
  BY <1>5 DEF TypeOK
<1>7. PICK m : m = [map[e][v] EXCEPT !.perm = "cow"]
  OBVIOUS
<1>8. /\ m \in [page : Pages \cup {NoPage}, perm : Perms] /\ m # Unmapped
      /\ m.page = map[e][v].page /\ m.page \in PagesOf(v) /\ m.perm = "cow"
      /\ Kind[v] # "share"
  <2>1. map[e][v].page \in PagesOf(v) /\ map[e][v].page \in Pages /\ (Perm(e, v) = "share" <=> Kind[v] = "share")
    BY <1>3, Constants DEF Places
  <2>2. m = [page |-> map[e][v].page, perm |-> "cow"]
    <3>1. map[e][v] \in [page : Pages \cup {NoPage}, perm : Perms]
      BY <1>2 DEF TypeOK
    <3> QED
      BY ONLY <1>7, <3>1
  <2> QED
    BY <1>4, <2>1, <2>2 DEF Perms, Unmapped, Marks
<1>9. /\ \A d \in Envs, u \in Addrs : map'[d][u] = IF d = e /\ u = v THEN m ELSE map[d][u]
      /\ \A d \in Envs \ {e} : map'[d] = map[d]
      /\ map' \in [Envs -> [Addrs -> [page : Pages \cup {NoPage}, perm : Perms]]]
  BY <1>1, <1>2, <1>7, <1>8 DEF TypeOK
<1>10. \A d \in Envs, u \in Addrs :
         /\ map'[d][u].page = map[d][u].page
         /\ (map'[d][u] # Unmapped) <=> Has(d, u)
  BY <1>3, <1>8, <1>9 DEF Has
<1>11. TypeOK'
  BY <1>1, <1>6, <1>9 DEF TypeOK
<1>12. WritesArePrivate'
  <2> SUFFICES ASSUME NEW a \in Envs, NEW d \in Envs, NEW u \in Addrs, NEW w \in Addrs,
                      map'[a][w].perm = "w", map'[d][u].page = map'[a][w].page, d # a \/ u # w
               PROVE  job'[a].kind = "fork" /\ job'[a].step = "own" /\ d = job'[a].child
                      /\ u = w /\ w = job'[a].v
    BY DEF WritesArePrivate, Perm
  <2>1. map'[a][w] = map[a][w] /\ Perm(a, w) = "w" /\ ~(a = e /\ w = v)
    BY <1>8, <1>9 DEF Perm
  <2>2. job[a].kind = "fork" /\ job[a].step = "own" /\ d = job[a].child /\ u = w /\ w = job[a].v
    BY <1>10, <2>1 DEF WritesArePrivate
  <2> QED
    BY <1>2, <1>6, <2>1, <2>2
<1>13. CowIsHandled' /\ Registered'
  BY <1>1, <1>4, <1>9 DEF CowIsHandled, Registered, Perm, CanHandle
<1>14. Places'
  BY <1>8, <1>9 DEF Places, Has, Perm
<1>15. SharedByAll'
  <2>1. \A d \in Envs, u \in Addrs : Kind[u] = "share" => map'[d][u] = map[d][u]
    BY <1>8, <1>9
  <2> QED
    BY <2>1 DEF SharedByAll, Has
<1>16. Quiet'
  BY <1>1, <1>3, <1>6, <1>9, <1>10 DEF Quiet, Has
<1>17. Handling'
  <2>1. \A d \in Envs : faults[d] # << >> => map'[d] = map[d]
    BY <1>3, <1>9
  <2> QED
    BY <1>1, <2>1 DEF Handling, Perm, Faulted
<1>18. Apart' /\ Unused'
  <2>1. \A d \in Envs : job'[d].page = job[d].page
    BY <1>4, <1>5, <1>6
  <2>2. Apart'
    BY <1>1, <1>10, <2>1, ApartKept
  <2>3. Unused'
    BY <1>1, <1>10 DEF Unused
  <2> QED
    BY <2>2, <2>3
<1>19. Making'
  BY <1>1, <1>2, <1>3, <1>5, <1>6 DEF Making
<1>20. Forking'
  <2>1. ASSUME NEW d \in Envs \ {e}, job'[d].kind = "fork"
        PROVE  ForkAt(d)'
    <3>1. job[d].kind = "fork" /\ job'[d] = job[d] /\ job[d].child \in Envs \ {e}
      BY <1>3, <1>6, <2>1, Child
    <3> QED
      BY <1>1, <1>9, <3>1, ForkKept DEF Forking
  <2>2. \A u \in Addrs : /\ Has(c, u)' <=> u <= v
                         /\ u <= v <=> u < v + 1
                         /\ v = Last => u <= v
    BY <1>2, <1>4, <1>10, Order DEF Has
  <2>3. /\ j.step \in {"pte", "stack"}
        /\ j.step = "pte" => \A u \in Addrs : Has(c, u)' <=> u < j.v
        /\ j.step = "stack" => \A u \in Addrs : Has(c, u)'
    BY ONLY <1>5, <2>2
  <2>4. job'[e].child = c /\ job'[e].v = j.v /\ job'[e].step = j.step /\ job'[e].page = NoPage
    BY <1>5, <1>6
  <2>5. ForkAt(e)'
    BY <1>1, <1>4, <2>3, <2>4 DEF ForkAt, CanHandle
  <2> QED
    BY <2>1, <2>5 DEF Forking
<1>21. Spawning'
  <2>1. ASSUME NEW d \in Envs, job'[d].kind = "spawn"
        PROVE  SpawnAt(d)'
    <3>1. d # e /\ job[d].kind = "spawn" /\ job'[d] = job[d] /\ job[d].child \in Envs \ {e}
      BY <1>3, <1>5, <1>6, <2>1, Child
    <3> QED
      BY <1>1, <1>9, <3>1, SpawnKept DEF Spawning
  <2> QED
    BY <2>1 DEF Spawning
<1> QED
  BY <1>11, <1>12, <1>13, <1>14, <1>15, <1>16, <1>17, <1>18, <1>19, <1>20, <1>21

(* The two system calls that make the child ready for page faults. *)
LEMMA ChildHandles ==
    ASSUME FInv, NEW e \in Envs, job[e].kind = "fork", NEW h,
           h \in [stack : BOOLEAN, upcall : BOOLEAN, handler : BOOLEAN],
           handled' = [handled EXCEPT ![job[e].child] = h],
           NEW point \in {"upcall", "start"}, job[e].step \in {"stack", "upcall"},
           h.stack, point = "start" => h.upcall,
           ToStep(e, point),
           UNCHANGED <<status, map, content, faultVars, tmp, stopped>>
    PROVE  FInv'
<1> USE DEF FInv, faultVars
<1>1. PICK c \in Envs :
        /\ c = job[e].child /\ status[c] = "building" /\ c # e /\ job[c] = NoJob
        /\ \A d \in Envs \ {e} : job[d].kind # "none" => job[d].child # c
  BY Child
<1>2. /\ job[e] # NoJob /\ status[e] = "running" /\ job[e].v \in Addrs
      /\ CanHandle(e) /\ job[e].page = NoPage /\ \A u \in Addrs : Has(c, u)
  BY <1>1, Child DEF Forking, ForkAt
<1>3. PICK j \in Jobs : /\ job' = [job EXCEPT ![e] = j]
                        /\ j.kind = "fork" /\ j.child = c /\ j.v = job[e].v /\ j.page = NoPage
                        /\ j.step = point
  BY <1>1, <1>2, NewStep DEF TypeOK
<1>4. /\ job'[e] = j /\ (\A d \in Envs \ {e} : job'[d] = job[d]) /\ job' \in [Envs -> Jobs]
  BY <1>3 DEF TypeOK
<1>5. /\ handled'[c] = h /\ (\A d \in Envs \ {c} : handled'[d] = handled[d])
      /\ handled' \in [Envs -> [stack : BOOLEAN, upcall : BOOLEAN, handler : BOOLEAN]]
  BY <1>1 DEF TypeOK
<1>6. TypeOK'
  BY <1>4, <1>5 DEF TypeOK
<1>7. WritesArePrivate'
  BY <1>3, <1>4 DEF WritesArePrivate, Perm
<1>8. CowIsHandled' /\ Registered'
  BY <1>1, <1>5 DEF CowIsHandled, Registered, Perm, CanHandle
<1>9. Places' /\ SharedByAll'
  BY DEF Places, SharedByAll, Perm, Has
<1>10. Quiet'
  BY <1>1, <1>2, <1>4, <1>5 DEF Quiet, Has
<1>11. Handling' /\ Unused'
  BY DEF Handling, Unused, Perm, Faulted
<1>12. Apart'
  BY <1>2, <1>3, <1>4 DEF Apart
<1>13. Making'
  BY <1>1, <1>2, <1>3, <1>4 DEF Making
<1>14. Forking'
  <2>1. ASSUME NEW d \in Envs \ {e}, job'[d].kind = "fork"
        PROVE  ForkAt(d)'
    <3>1. job[d].kind = "fork" /\ job'[d] = job[d] /\ job[d].child \in Envs \ {c} /\ d # c
      BY <1>1, <1>4, <2>1, Child DEF NoJob, Job
    <3> QED
      BY <1>5, <3>1, ForkKept DEF Forking
  <2>2. ForkAt(e)'
    <3>1. CanHandle(e)' /\ h.stack /\ (point = "start" => CanHandle(c)')
      BY <1>1, <1>2, <1>5 DEF CanHandle
    <3> QED
      BY <1>2, <1>3, <1>4, <1>5, <3>1 DEF ForkAt, Has
  <2> QED
    BY <2>1, <2>2 DEF Forking
<1>15. Spawning'
  <2>1. ASSUME NEW d \in Envs, job'[d].kind = "spawn"
        PROVE  SpawnAt(d)'
    <3>1. d # e /\ job[d].kind = "spawn" /\ job'[d] = job[d] /\ job[d].child \in Envs \ {c}
      BY <1>1, <1>3, <1>4, <2>1, Child
    <3> QED
      BY <1>5, <3>1, SpawnKept DEF Spawning
  <2> QED
    BY <2>1 DEF Spawning
<1> QED
  BY <1>6, <1>7, <1>8, <1>9, <1>10, <1>11, <1>12, <1>13, <1>14, <1>15

LEMMA AllocChildStackStep ==
    ASSUME FInv, NEW e \in Envs, AllocChildStack(e)
    PROVE  FInv'
<1>1. CASE ForkPanic
  BY <1>1, PanicKeeps
<1>2. CASE ~ForkPanic
  <2>1. /\ job[e].kind = "fork" /\ job[e].step = "stack" /\ ToStep(e, "upcall") /\ ChildStack(e)
        /\ UNCHANGED <<status, map, content, faultVars, tmp, stopped>>
    BY <1>2 DEF AllocChildStack, Doing
  <2>2. PICK c \in Envs : c = job[e].child
    BY <2>1, Child
  <2>3. PICK h \in [stack : BOOLEAN, upcall : BOOLEAN, handler : BOOLEAN] :
          h = [stack |-> TRUE, upcall |-> handled[c].upcall, handler |-> TRUE]
    BY <2>2 DEF FInv, TypeOK
  <2>4. handled' = [handled EXCEPT ![c] = h] /\ h.stack
    <3>1. handled[c] \in [stack : BOOLEAN, upcall : BOOLEAN, handler : BOOLEAN]
      BY DEF FInv, TypeOK
    <3>2. [[handled[c] EXCEPT !.stack = TRUE] EXCEPT !.handler = TRUE] = h
      BY ONLY <2>3, <3>1
    <3>3. handled' = [handled EXCEPT ![c].stack = TRUE, ![c].handler = TRUE]
      BY <2>1, <2>2 DEF ChildStack
    <3>4. handled' = [handled EXCEPT ![c] = [[handled[c] EXCEPT !.stack = TRUE] EXCEPT !.handler = TRUE]]
      BY <3>3 DEF FInv, TypeOK
    <3> QED
      BY ONLY <2>3, <3>2, <3>4
  <2> QED
    BY <2>1, <2>2, <2>4, ChildHandles
<1> QED
  BY <1>1, <1>2

LEMMA SetChildUpcallStep ==
    ASSUME FInv, NEW e \in Envs, SetChildUpcall(e)
    PROVE  FInv'
<1>1. /\ job[e].kind = "fork" /\ job[e].step = "upcall" /\ ToStep(e, "start")
      /\ handled' = [handled EXCEPT ![job[e].child].upcall = TRUE]
      /\ UNCHANGED <<status, map, content, faultVars, tmp, stopped>>
  BY DEF SetChildUpcall, Doing
<1>2. PICK c \in Envs : c = job[e].child
  BY <1>1, Child
<1>3. handled[c].stack
  <2>1. ForkAt(e)
    BY <1>1 DEF FInv, Forking
  <2> QED
    BY ONLY <1>1, <1>2, <2>1 DEF ForkAt
<1>4. PICK h \in [stack : BOOLEAN, upcall : BOOLEAN, handler : BOOLEAN] :
        h = [handled[c] EXCEPT !.upcall = TRUE]
  <2>1. handled[c] \in [stack : BOOLEAN, upcall : BOOLEAN, handler : BOOLEAN]
    BY <1>2 DEF FInv, TypeOK
  <2> QED
    BY ONLY <2>1
<1>5. handled' = [handled EXCEPT ![c] = h]
  BY <1>1, <1>2, <1>4
<1>6. h.stack /\ h.upcall
  <2>1. handled[c] \in [stack : BOOLEAN, upcall : BOOLEAN, handler : BOOLEAN]
    BY DEF FInv, TypeOK
  <2> QED
    BY ONLY <1>3, <1>4, <2>1
<1> QED
  BY <1>1, <1>2, <1>5, <1>6, ChildHandles

LEMMA StartStep ==
    ASSUME FInv, NEW e \in Envs, Start(e)
    PROVE  FInv'
<1> USE DEF FInv, faultVars
<1>1. /\ job[e].step = "start" /\ status' = [status EXCEPT ![job[e].child] = "running"]
      /\ job' = [job EXCEPT ![e] = NoJob]
      /\ UNCHANGED <<map, content, handled, faultVars, tmp, stopped>>
  BY DEF Start
<1>2. job[e].kind \in {"fork", "spawn"}
  <2>1. job[e] # NoJob
    BY <1>1 DEF NoJob, Job
  <2> QED
    BY <2>1 DEF Making, TypeOK, Jobs
<1>3. PICK c \in Envs :
        /\ c = job[e].child /\ status[c] = "building" /\ c # e /\ job[c] = NoJob
        /\ \A d \in Envs \ {e} : job[d].kind # "none" => job[d].child # c
  BY <1>2, Child
<1>4. /\ \A u \in Addrs : Has(c, u)
      /\ CanHandle(c) \/ (handled[c] = Unhandled /\ \A u \in Addrs : Perm(c, u) # "cow")
      /\ job[e].page = NoPage
  <2>1. CASE job[e].kind = "fork"
    <3>1. ForkAt(e)
      BY <2>1 DEF Forking
    <3> QED
      BY ONLY <1>1, <1>3, <3>1 DEF ForkAt, CanHandle, Has
  <2>2. CASE job[e].kind = "spawn"
    <3>1. SpawnAt(e)
      BY <2>2 DEF Spawning
    <3> QED
      BY ONLY <1>1, <1>3, <3>1 DEF SpawnAt, Perm, Has
  <2> QED
    BY <1>2, <2>1, <2>2
<1>5. /\ job'[e] = NoJob /\ (\A d \in Envs \ {e} : job'[d] = job[d]) /\ job' \in [Envs -> Jobs]
      /\ NoJob.kind = "none" /\ NoJob.page = NoPage
  <2>1. NoJob \in Jobs /\ NoJob.kind = "none" /\ NoJob.page = NoPage
    BY Constants DEF NoJob, Job, Jobs, Perms
  <2> QED
    BY <1>1, <2>1 DEF TypeOK
<1>6. /\ status'[c] = "running" /\ (\A d \in Envs \ {c} : status'[d] = status[d])
      /\ status' \in [Envs -> {"free", "building", "left", "running"}]
  BY <1>1, <1>3 DEF TypeOK
<1>7. TypeOK'
  BY <1>1, <1>5, <1>6 DEF TypeOK
<1>8. WritesArePrivate'
  BY <1>1, <1>5 DEF WritesArePrivate, Perm
<1>9. CowIsHandled' /\ Registered'
  BY <1>1, <1>4, <1>6 DEF CowIsHandled, Registered, Perm, CanHandle, Unhandled
<1>10. Places' /\ SharedByAll'
  BY <1>1 DEF Places, SharedByAll, Perm, Has
<1>11. Quiet'
  BY <1>1, <1>3, <1>4, <1>5, <1>6 DEF Quiet, Has
<1>12. Handling' /\ Unused'
  BY <1>1 DEF Handling, Unused, Perm, Faulted
<1>13. Apart'
  <2>1. \A d \in Envs : job'[d].page \in {job[d].page, NoPage}
    BY <1>5
  <2> QED
    BY <1>1, <2>1, ApartKept
<1>14. Making'
  <2>1. \A d \in Envs \ {e} : job[d] # NoJob => job[d].child # c
    BY <1>3 DEF Making
  <2> QED
    BY <1>3, <1>5, <1>6, <2>1 DEF Making
<1>15. Forking'
  <2>1. ASSUME NEW d \in Envs, job'[d].kind = "fork"
        PROVE  ForkAt(d)'
    BY <1>1, <1>5, <2>1, ForkKept DEF Forking
  <2> QED
    BY <2>1 DEF Forking
<1>16. Spawning'
  <2>1. ASSUME NEW d \in Envs, job'[d].kind = "spawn"
        PROVE  SpawnAt(d)'
    BY <1>1, <1>5, <2>1, SpawnKept DEF Spawning
  <2> QED
    BY <2>1 DEF Spawning
<1> QED
  BY <1>7, <1>8, <1>9, <1>10, <1>11, <1>12, <1>13, <1>14, <1>15, <1>16

-----------------------------------------------------------------------------
(* spawn() *)

LEMMA BeginSpawnStep ==
    ASSUME FInv, NEW e \in Envs, NEW c \in Envs, BeginSpawn(e, c)
    PROVE  FInv'
<1> USE DEF FInv, faultVars
<1>1. /\ status[e] = "running" /\ write[e] = 0 /\ job[e] = NoJob /\ status[c] = "free" /\ c # e
      /\ status' = [status EXCEPT ![c] = "building"]
      /\ UNCHANGED <<map, content, handled, faultVars, tmp, stopped>>
  BY DEF BeginSpawn, Idle, Executes, Runs, FreeEnvs
<1>2. PICK j \in Jobs : /\ job' = [job EXCEPT ![e] = j]
                        /\ j.kind = "spawn" /\ j.child = c /\ j.v = Stack /\ j.step = "page"
                        /\ j.page = NoPage
  <2> DEFINE j == Job("spawn", c, Stack, "page")
  <2>1. Stack \in 0..Last
    BY Constants
  <2>2. j \in Jobs /\ j.kind = "spawn" /\ j.child = c /\ j.v = Stack /\ j.step = "page" /\ j.page = NoPage
    BY <2>1 DEF Job, Jobs, Perms
  <2> QED
    BY <2>2 DEF BeginSpawn
<1>3. /\ map[c] = NoMap /\ write[c] = 0 /\ job[c] = NoJob /\ handled[c] = Unhandled
      /\ \A u \in Addrs : ~Has(c, u) /\ Perm(c, u) = "none"
  BY <1>1 DEF Quiet, Has, NoMap, Perm, Unmapped
<1>4. /\ job'[e] = j /\ (\A d \in Envs \ {e} : job'[d] = job[d]) /\ job' \in [Envs -> Jobs]
      /\ job[e].page = NoPage /\ job[e].kind = "none"
  BY <1>1, <1>2 DEF TypeOK, NoJob, Job
<1>5. /\ status'[c] = "building" /\ (\A d \in Envs \ {c} : status'[d] = status[d])
      /\ status' \in [Envs -> {"free", "building", "left", "running"}]
  BY <1>1 DEF TypeOK
<1>6. TypeOK'
  BY <1>1, <1>4, <1>5 DEF TypeOK
<1>7. WritesArePrivate'
  BY <1>1, <1>4 DEF WritesArePrivate, Perm
<1>8. CowIsHandled' /\ Registered'
  BY <1>1, <1>5 DEF CowIsHandled, Registered, Perm, CanHandle
<1>9. Places' /\ SharedByAll'
  BY <1>1 DEF Places, SharedByAll, Perm, Has
<1>10. Quiet'
  BY <1>1, <1>3, <1>4, <1>5 DEF Quiet, Has
<1>11. Handling' /\ Unused'
  BY <1>1 DEF Handling, Unused, Perm, Faulted
<1>12. Apart'
  BY <1>1, <1>2, <1>4 DEF Apart
<1>13. Making'
  <2>1. \A d \in Envs : job[d] # NoJob => job[d].child # c /\ d # c
    BY <1>1, <1>3 DEF Making
  <2> QED
    BY <1>1, <1>2, <1>4, <1>5, <2>1, Constants DEF Making
<1>14. Forking'
  <2>1. ASSUME NEW d \in Envs, job'[d].kind = "fork"
        PROVE  ForkAt(d)'
    BY <1>1, <1>2, <1>4, <2>1, ForkKept DEF Forking
  <2> QED
    BY <2>1 DEF Forking
<1>15. Spawning'
  <2>1. ASSUME NEW d \in Envs \ {e}, job'[d].kind = "spawn"
        PROVE  SpawnAt(d)'
    BY <1>1, <1>4, <2>1, SpawnKept DEF Spawning
  <2>2. SpawnAt(e)'
    BY <1>1, <1>2, <1>3, <1>4, Constants DEF SpawnAt, Has, Perm
  <2> QED
    BY <2>1, <2>2 DEF Spawning
<1> QED
  BY <1>6, <1>7, <1>8, <1>9, <1>10, <1>11, <1>12, <1>13, <1>14, <1>15

LEMMA SpawnAllocStep ==
    ASSUME FInv, NEW e \in Envs, SpawnAlloc(e)
    PROVE  FInv'
<1> USE DEF FInv, faultVars
<1>1. /\ job[e].kind = "spawn" /\ job[e].step = "page" /\ FreeCopies(job[e].v) # {}
      /\ job' = [job EXCEPT ![e].step = "give", ![e].page = NewPage(job[e].v)]
      /\ UNCHANGED <<status, map, content, handled, faultVars, tmp, stopped>>
  BY DEF SpawnAlloc, Doing
<1>2. PICK c \in Envs, v \in Addrs :
        /\ c = job[e].child /\ v = job[e].v /\ status[c] = "building" /\ c # e /\ job[c] = NoJob
        /\ \A d \in Envs \ {e} : job[d].kind # "none" => job[d].child # c
  BY <1>1, Child
<1>3. job[e] # NoJob /\ status[e] = "running" /\ job[e] \in Jobs /\ SpawnAt(e)
  BY <1>1, Child DEF Spawning
<1>4. PICK p \in PagesOf(v) : p = NewPage(v) /\ p \in Pages /\ p # NoPage /\ p \notin Mapped
  BY <1>1, <1>2, TakenPage
<1>5. PICK j \in Jobs : /\ job' = [job EXCEPT ![e] = j]
                        /\ j.kind = "spawn" /\ j.child = c /\ j.v = v /\ j.step = "give" /\ j.page = p
  <2> DEFINE j == [job[e] EXCEPT !.step = "give", !.page = p]
  <2>1. job' = [job EXCEPT ![e] = j]
    BY <1>1, <1>2, <1>4 DEF TypeOK
  <2>2. j \in Jobs /\ j.kind = "spawn" /\ j.child = c /\ j.v = v /\ j.step = "give" /\ j.page = p
    BY <1>1, <1>2, <1>3, <1>4 DEF Jobs
  <2> QED
    BY <2>1, <2>2
<1>6. /\ job'[e] = j /\ (\A d \in Envs \ {e} : job'[d] = job[d]) /\ job' \in [Envs -> Jobs]
  BY <1>5 DEF TypeOK
<1>7. \A d \in Envs : tmp[d] # p /\ job[d].page # p /\ \A u \in Addrs : map[d][u].page # p
  BY <1>4 DEF Mapped
<1>8. TypeOK'
  BY <1>1, <1>6 DEF TypeOK
<1>9. WritesArePrivate'
  BY <1>1, <1>6 DEF WritesArePrivate, Perm
<1>10. CowIsHandled' /\ Registered' /\ Places' /\ SharedByAll'
  BY <1>1 DEF CowIsHandled, Registered, Places, SharedByAll, Perm, CanHandle, Has
<1>11. Quiet'
  BY <1>1, <1>3, <1>6 DEF Quiet, Has
<1>12. Handling' /\ Unused'
  BY <1>1 DEF Handling, Unused, Perm, Faulted
<1>13. Apart'
  <2>1. \A d \in Envs : job'[d].page = IF d = e THEN p ELSE job[d].page
    BY <1>5, <1>6
  <2>2. ASSUME NEW a \in Envs, NEW d \in Envs, tmp[a] # NoPage
        PROVE  /\ tmp[a] # job'[d].page /\ (d # a => tmp[a] # tmp[d])
               /\ \A u \in Addrs : map[d][u].page # tmp[a]
    BY <1>7, <2>1, <2>2 DEF Apart
  <2>3. ASSUME NEW a \in Envs, NEW d \in Envs, job'[a].page # NoPage
        PROVE  /\ d # a => job'[a].page # job'[d].page
               /\ \A u \in Addrs : map[d][u].page # job'[a].page
    BY <1>7, <2>1, <2>3 DEF Apart
  <2>4. tmp' = tmp /\ map' = map
    BY <1>1
  <2> QED
    BY ONLY <2>2, <2>3, <2>4 DEF Apart
<1>14. Making'
  BY <1>1, <1>2, <1>3, <1>5, <1>6 DEF Making
<1>15. Forking'
  <2>1. ASSUME NEW d \in Envs, job'[d].kind = "fork"
        PROVE  ForkAt(d)'
    BY <1>1, <1>5, <1>6, <2>1, ForkKept DEF Forking
  <2> QED
    BY <2>1 DEF Forking
<1>16. Spawning'
  <2>1. ASSUME NEW d \in Envs \ {e}, job'[d].kind = "spawn"
        PROVE  SpawnAt(d)'
    BY <1>1, <1>6, <2>1, SpawnKept DEF Spawning
  <2>2. SpawnAt(e)'
    <3>1. /\ handled[c] = Unhandled /\ \A u \in Addrs : Perm(c, u) # "cow"
          /\ Kind[v] # "share" /\ ~Has(c, v) /\ \A u \in Addrs : Kind[u] = "share" => ~Has(c, u)
      BY ONLY <1>1, <1>2, <1>3 DEF SpawnAt
    <3>2. /\ job'[e].child = c /\ job'[e].v = v /\ job'[e].step = "give" /\ job'[e].page = p
          /\ map' = map /\ handled' = handled
      BY <1>1, <1>5, <1>6
    <3> QED
      BY ONLY <1>4, <3>1, <3>2 DEF SpawnAt, Has, Perm
  <2> QED
    BY <2>1, <2>2 DEF Spawning
<1> QED
  BY <1>8, <1>9, <1>10, <1>11, <1>12, <1>13, <1>14, <1>15, <1>16

LEMMA NextPageIs ==
    ASSUME NEW e \in Envs, job \in [Envs -> Jobs], job[e].kind = "spawn", NextPage(e), 1 \in Addrs
    PROVE  \E j \in Jobs :
             /\ job' = [job EXCEPT ![e] = j]
             /\ j.kind = "spawn" /\ j.child = job[e].child /\ j.page = NoPage /\ j.v \in Addrs
             /\ \/ j.step = "page" /\ j.v \in Segments(job[e].child) /\ j.v # job[e].v
                \/ j.step = "share" /\ j.v = 1 /\ Segments(job[e].child) \subseteq {job[e].v}
<1> DEFINE rest == Segments(job[e].child) \ {job[e].v}
<1>1. PICK x : x = IF rest = {} THEN 1 ELSE CHOOSE v \in rest : TRUE
  OBVIOUS
<1>2. PICK point : point = IF rest = {} THEN "share" ELSE "page"
  OBVIOUS
<1>3. rest \subseteq Addrs
  BY DEF Segments
<1>4. x \in Addrs /\ (rest # {} => x \in rest)
  BY <1>1, <1>3
<1> DEFINE j == [job[e] EXCEPT !.step = point, !.page = NoPage, !.v = x]
<1>5. job' = [job EXCEPT ![e] = j]
  BY <1>1, <1>2 DEF NextPage
<1>6. job[e] \in Jobs /\ x \in 0..Last
  BY <1>4, Constants
<1>7. /\ j \in Jobs /\ j.kind = "spawn" /\ j.child = job[e].child /\ j.page = NoPage /\ j.v = x
      /\ j.step = point
  BY <1>2, <1>6 DEF Jobs
<1>8. \/ j.step = "page" /\ j.v \in Segments(job[e].child) /\ j.v # job[e].v
      \/ j.step = "share" /\ j.v = 1 /\ Segments(job[e].child) \subseteq {job[e].v}
  BY <1>1, <1>2, <1>4, <1>7
<1> HIDE DEF j
<1> QED
  BY <1>4, <1>5, <1>7, <1>8

LEMMA SpawnGiveStep ==
    ASSUME FInv, NEW e \in Envs, SpawnGive(e)
    PROVE  FInv'
<1> USE DEF FInv, faultVars
<1>1. /\ job[e].kind = "spawn" /\ job[e].step = "give" /\ NextPage(e)
      /\ map' = [map EXCEPT ![job[e].child][job[e].v] = Pte(job[e].page, Kind[job[e].v])]
      /\ UNCHANGED <<status, content, handled, faultVars, tmp, stopped>>
  BY DEF SpawnGive, Doing
<1>2. PICK c \in Envs, v \in Addrs :
        /\ c = job[e].child /\ v = job[e].v /\ status[c] = "building" /\ c # e /\ job[c] = NoJob
        /\ \A d \in Envs \ {e} : job[d].kind # "none" => job[d].child # c
  BY <1>1, Child
<1>3. job[e] # NoJob /\ status[e] = "running" /\ SpawnAt(e)
  BY <1>1, Child DEF Spawning
<1>4. /\ handled[c] = Unhandled /\ \A u \in Addrs : Perm(c, u) # "cow"
      /\ job[e].page \in PagesOf(v) /\ Kind[v] # "share" /\ ~Has(c, v)
      /\ \A u \in Addrs : Kind[u] = "share" => ~Has(c, u)
  BY ONLY <1>1, <1>2, <1>3 DEF SpawnAt, Perm, Has
<1>5. PICK p \in PagesOf(v) : p = job[e].page
  BY <1>4
<1>6. PICK j \in Jobs :
        /\ job' = [job EXCEPT ![e] = j]
        /\ j.kind = "spawn" /\ j.child = c /\ j.page = NoPage /\ j.v \in Addrs
        /\ \/ j.step = "page" /\ j.v \in Segments(c) /\ j.v # v
           \/ j.step = "share" /\ j.v = 1 /\ Segments(c) \subseteq {v}
  <2>1. 1 \in Addrs
    BY Constants
  <2> QED
    BY <1>1, <1>2, <2>1, NextPageIs DEF TypeOK
<1>7. /\ job'[e] = j /\ (\A d \in Envs \ {e} : job'[d] = job[d]) /\ job' \in [Envs -> Jobs]
  BY <1>6 DEF TypeOK
<1>8. PICK m : m = Pte(p, Kind[v])
  OBVIOUS
<1>9. /\ m \in [page : Pages \cup {NoPage}, perm : Perms] /\ m # Unmapped
      /\ m.page = p /\ p \in Pages /\ p # NoPage /\ m.perm = Kind[v] /\ m.perm \in {"w", "ro"}
  <2>1. p \in Pages /\ Kind[v] \in {"w", "ro"}
    BY <1>4, Constants
  <2>2. m = [page |-> p, perm |-> Kind[v]]
    BY <1>8 DEF Pte
  <2> QED
    BY <2>1, <2>2, Constants DEF Perms, Unmapped, Pte
<1>10. /\ \A d \in Envs, u \in Addrs : map'[d][u] = IF d = c /\ u = v THEN m ELSE map[d][u]
       /\ \A d \in Envs \ {c} : map'[d] = map[d]
       /\ map' \in [Envs -> [Addrs -> [page : Pages \cup {NoPage}, perm : Perms]]]
  BY <1>1, <1>2, <1>5, <1>8, <1>9 DEF TypeOK
<1>11. /\ \A d \in Envs : tmp[d] # p /\ \A u \in Addrs : map[d][u].page # p
       /\ \A d \in Envs \ {e} : job[d].page # p
  BY <1>5, <1>9 DEF Apart
<1>12. TypeOK'
  BY <1>1, <1>7, <1>10 DEF TypeOK
<1>13. WritesArePrivate'
  <2> SUFFICES ASSUME NEW a \in Envs, NEW d \in Envs, NEW u \in Addrs, NEW w \in Addrs,
                      map'[a][w].perm = "w", map'[d][u].page = map'[a][w].page, d # a \/ u # w
               PROVE  job'[a].kind = "fork" /\ job'[a].step = "own" /\ d = job'[a].child
                      /\ u = w /\ w = job'[a].v
    BY DEF WritesArePrivate, Perm
  <2>1. map'[a][w] = map[a][w] /\ map'[d][u] = map[d][u]
    <3>1. /\ a = c /\ w = v => map'[a][w].page = p /\ map'[d][u].page = map[d][u].page
          /\ d = c /\ u = v => map'[d][u].page = p /\ map'[a][w].page = map[a][w].page
      BY <1>9, <1>10
    <3>2. ~(a = c /\ w = v) /\ ~(d = c /\ u = v)
      BY <1>11, <3>1
    <3> QED
      BY ONLY <1>10, <3>2, a \in Envs, d \in Envs, u \in Addrs, w \in Addrs
  <2>2. job[a].kind = "fork" /\ job[a].step = "own" /\ d = job[a].child /\ u = w /\ w = job[a].v
    BY <2>1 DEF WritesArePrivate, Perm
  <2> QED
    BY <1>1, <1>7, <2>2
<1>14. CowIsHandled' /\ Registered'
  BY <1>1, <1>2, <1>10 DEF CowIsHandled, Registered, Perm, CanHandle
<1>15. Places'
  <2>1. ASSUME NEW d \in Envs, NEW u \in Addrs, map'[d][u] # Unmapped
        PROVE  /\ map'[d][u].page \in PagesOf(u) /\ map'[d][u].perm # "none"
               /\ map'[d][u].perm = "share" <=> Kind[u] = "share"
    <3>1. CASE d = c /\ u = v
      BY <1>9, <1>10, <3>1
    <3>2. CASE ~(d = c /\ u = v)
      BY <1>10, <2>1, <3>2 DEF Places, Has, Perm
    <3> QED
      BY <3>1, <3>2
  <2> QED
    BY ONLY <2>1 DEF Places, Has, Perm
<1>16. SharedByAll'
  <2>1. \A d \in Envs, u \in Addrs : Kind[u] = "share" => map'[d][u] = map[d][u]
    BY <1>4, <1>10
  <2> QED
    BY <2>1 DEF SharedByAll, Has
<1>17. Quiet'
  BY <1>1, <1>2, <1>3, <1>7, <1>10 DEF Quiet, Has
<1>18. Handling'
  <2>1. \A d \in Envs : faults[d] # << >> => map'[d] = map[d]
    BY <1>2, <1>10, FaultedAddr
  <2> QED
    BY <1>1, <2>1 DEF Handling, Perm, Faulted
<1>19. Apart'
  <2>1. \A d \in Envs : job'[d].page = IF d = e THEN NoPage ELSE job[d].page
    BY <1>6, <1>7
  <2>2. \A d \in Envs, u \in Addrs : map'[d][u].page = p \/ map'[d][u].page = map[d][u].page
    BY <1>9, <1>10
  <2>3. ASSUME NEW a \in Envs, NEW d \in Envs, tmp[a] # NoPage
        PROVE  /\ tmp[a] # job'[d].page /\ (d # a => tmp[a] # tmp[d])
               /\ \A u \in Addrs : map'[d][u].page # tmp[a]
    BY <1>11, <2>1, <2>2, <2>3 DEF Apart
  <2>4. ASSUME NEW a \in Envs, NEW d \in Envs, job'[a].page # NoPage
        PROVE  /\ d # a => job'[a].page # job'[d].page
               /\ \A u \in Addrs : map'[d][u].page # job'[a].page
    <3>1. a # e /\ job'[a].page = job[a].page /\ job[a].page # p
      BY <1>11, <2>1, <2>4
    <3> QED
      BY <2>1, <2>2, <2>4, <3>1 DEF Apart
  <2>5. tmp' = tmp
    BY <1>1
  <2> QED
    BY ONLY <2>3, <2>4, <2>5 DEF Apart
<1>20. Unused'
  <2>1. map[c][v].page \notin Pages
    BY <1>4, Constants DEF Has, Unmapped, Pte
  <2> QED
    BY <1>1, <1>10, <2>1 DEF Unused
<1>21. Making'
  BY <1>1, <1>2, <1>3, <1>6, <1>7 DEF Making
<1>22. Forking'
  <2>1. ASSUME NEW d \in Envs, job'[d].kind = "fork"
        PROVE  ForkAt(d)'
    <3>1. d # e /\ d # c /\ job[d].kind = "fork" /\ job'[d] = job[d] /\ job[d].child \in Envs \ {c}
      BY <1>2, <1>6, <1>7, <2>1, Child DEF NoJob, Job
    <3> QED
      BY <1>1, <1>10, <3>1, ForkKept DEF Forking
  <2> QED
    BY <2>1 DEF Forking
<1>23. Spawning'
  <2>1. ASSUME NEW d \in Envs \ {e}, job'[d].kind = "spawn"
        PROVE  SpawnAt(d)'
    <3>1. job[d].kind = "spawn" /\ job'[d] = job[d] /\ job[d].child \in Envs \ {c}
      BY <1>2, <1>7, <2>1, Child
    <3> QED
      BY <1>1, <1>10, <3>1, SpawnKept DEF Spawning
  <2>2. \A u \in Addrs : /\ map'[c][u] # Unmapped <=> (u = v \/ Has(c, u))
                         /\ map'[c][u].perm # "cow"
    <3>1. \A u \in Addrs : map'[c][u] = IF u = v THEN m ELSE map[c][u]
      BY ONLY <1>2, <1>10
    <3> QED
      BY ONLY <1>4, <1>9, <3>1 DEF Has, Perm
  <2>3. \/ /\ j.step = "page" /\ Kind[j.v] # "share" /\ ~Has(c, j.v) /\ j.v # v
           /\ \A u \in Addrs : Kind[u] = "share" => u # v /\ ~Has(c, u)
        \/ /\ j.step = "share" /\ j.v = 1
           /\ \A u \in Addrs : (u = v \/ Has(c, u)) <=> Kind[u] # "share"
    BY <1>4, <1>6 DEF Segments, Has
  <2>4. \A u \in Addrs : ~(u < 1)
    BY Constants
  <2>5. /\ job'[e].child = c /\ job'[e].v = j.v /\ job'[e].step = j.step /\ job'[e].page = NoPage
        /\ handled' = handled /\ j.v \in Addrs
    BY <1>1, <1>6, <1>7
  <2>6. SpawnAt(e)'
    BY ONLY <1>4, <2>2, <2>3, <2>4, <2>5 DEF SpawnAt, Has, Perm
  <2> QED
    BY <2>1, <2>6 DEF Spawning
<1> QED
  BY <1>12, <1>13, <1>14, <1>15, <1>16, <1>17, <1>18, <1>19, <1>20, <1>21, <1>22, <1>23

LEMMA SpawnShareStep ==
    ASSUME FInv, NEW e \in Envs, SpawnShare(e)
    PROVE  FInv'
<1> USE DEF FInv, faultVars
<1>1. /\ job[e].kind = "spawn" /\ job[e].step = "share" /\ NextAddr(e, "start", "share")
      /\ map' = IF Perm(e, job[e].v) = "share"
                THEN [map EXCEPT ![job[e].child][job[e].v] = map[e][job[e].v]] ELSE map
      /\ UNCHANGED <<status, content, handled, faultVars, tmp, stopped>>
  BY DEF SpawnShare, Doing
<1>2. PICK c \in Envs, v \in Addrs :
        /\ c = job[e].child /\ v = job[e].v /\ status[c] = "building" /\ c # e /\ job[c] = NoJob
        /\ \A d \in Envs \ {e} : job[d].kind # "none" => job[d].child # c
  BY <1>1, Child
<1>3. job[e] # NoJob /\ status[e] = "running" /\ Has(e, v) /\ SpawnAt(e)
  BY <1>1, <1>2, Child DEF Quiet, Spawning
<1>4. /\ handled[c] = Unhandled /\ \A u \in Addrs : Perm(c, u) # "cow"
      /\ \A u \in Addrs : Has(c, u) <=> Kind[u] # "share" \/ u < v
      /\ job[e].page = NoPage
  BY ONLY <1>1, <1>2, <1>3 DEF SpawnAt, Perm, Has
<1>5. PICK j \in Jobs :
        /\ job' = [job EXCEPT ![e] = j]
        /\ j.kind = "spawn" /\ j.child = c /\ j.page = NoPage /\ j.v \in Addrs
        /\ \/ v = Last /\ j.step = "start"
           \/ v # Last /\ j.v = v + 1 /\ j.step = "share"
  BY <1>1, <1>2, <1>4, NewAddr DEF TypeOK
<1>6. /\ job'[e] = j /\ (\A d \in Envs \ {e} : job'[d] = job[d]) /\ job' \in [Envs -> Jobs]
  BY <1>5 DEF TypeOK
<1>7. PICK m : m = map[e][v]
  OBVIOUS
<1>8. /\ m \in [page : Pages \cup {NoPage}, perm : Perms] /\ m # Unmapped /\ m.page \in PagesOf(v)
      /\ m.page \in Pages /\ m.page # NoPage
      /\ m.perm = "share" <=> Kind[v] = "share"
  BY <1>3, <1>7, Constants DEF Places, TypeOK, Has, Perm
<1>9. /\ \A d \in Envs, u \in Addrs :
           map'[d][u] = IF d = c /\ u = v /\ Kind[v] = "share" THEN m ELSE map[d][u]
      /\ \A d \in Envs \ {c} : map'[d] = map[d]
      /\ map' \in [Envs -> [Addrs -> [page : Pages \cup {NoPage}, perm : Perms]]]
  <2>1. CASE Kind[v] = "share"
    <3>1. map' = [map EXCEPT ![c][v] = m]
      BY <1>1, <1>2, <1>7, <1>8, <2>1 DEF Perm
    <3> QED
      BY <1>8, <2>1, <3>1 DEF TypeOK
  <2>2. CASE Kind[v] # "share"
    <3>1. map' = map
      BY <1>1, <1>2, <1>7, <1>8, <2>2 DEF Perm
    <3> QED
      BY <2>2, <3>1 DEF TypeOK
  <2> QED
    BY <2>1, <2>2
<1>10. TypeOK'
  BY <1>1, <1>6, <1>9 DEF TypeOK
<1>11. \A d \in Envs, u \in Addrs : \E x \in Envs : map'[d][u] = map[x][u]
  BY <1>7, <1>9
<1>12. WritesArePrivate'
  <2> SUFFICES ASSUME NEW a \in Envs, NEW d \in Envs, NEW u \in Addrs, NEW w \in Addrs,
                      map'[a][w].perm = "w", map'[d][u].page = map'[a][w].page, d # a \/ u # w
               PROVE  job'[a].kind = "fork" /\ job'[a].step = "own" /\ d = job'[a].child
                      /\ u = w /\ w = job'[a].v
    BY DEF WritesArePrivate, Perm
  <2>1. map'[a][w] = map[a][w] /\ Perm(a, w) = "w"
    BY <1>8, <1>9 DEF Perm
  <2>2. map'[d][u] = map[d][u]
    <3> SUFFICES ASSUME d = c, u = v, Kind[v] = "share" PROVE FALSE
      BY <1>9
    <3>1. map[e][v].page = map[a][w].page /\ Perm(e, v) = "share"
      BY <1>7, <1>8, <1>9, <2>1 DEF Perm
    <3>2. ~(e = a /\ v = w)
      BY <2>1, <3>1
    <3>3. status[e] = "building"
      BY <2>1, <3>1, <3>2, WrittenPage
    <3> QED
      BY <1>3, <3>3
  <2>3. job[a].kind = "fork" /\ job[a].step = "own" /\ d = job[a].child /\ u = w /\ w = job[a].v
    BY <2>1, <2>2 DEF WritesArePrivate, Perm
  <2> QED
    BY <1>1, <1>6, <2>3
<1>13. CowIsHandled' /\ Registered'
  BY <1>1, <1>2, <1>9 DEF CowIsHandled, Registered, Perm, CanHandle
<1>14. Places'
  <2>1. ASSUME NEW d \in Envs, NEW u \in Addrs, map'[d][u] # Unmapped
        PROVE  /\ map'[d][u].page \in PagesOf(u) /\ map'[d][u].perm # "none"
               /\ map'[d][u].perm = "share" <=> Kind[u] = "share"
    <3>1. PICK x \in Envs : map'[d][u] = map[x][u]
      BY <1>11
    <3> QED
      BY <2>1, <3>1 DEF Places, Has, Perm
  <2> QED
    BY ONLY <2>1 DEF Places, Has, Perm
<1>15. SharedByAll'
  <2>1. ASSUME NEW a \in Envs, NEW d \in Envs, NEW u \in Addrs, Kind[u] = "share",
               map'[a][u] # Unmapped, map'[d][u] # Unmapped
        PROVE  map'[a][u] = map'[d][u]
    <3>1. PICK x \in Envs, y \in Envs : map'[a][u] = map[x][u] /\ map'[d][u] = map[y][u]
      BY <1>11
    <3> QED
      BY <2>1, <3>1 DEF SharedByAll, Has
  <2> QED
    BY ONLY <2>1 DEF SharedByAll, Has
<1>16. Quiet'
  BY <1>1, <1>2, <1>3, <1>6, <1>9 DEF Quiet, Has
<1>17. Handling'
  <2>1. \A d \in Envs : faults[d] # << >> => map'[d] = map[d]
    BY <1>2, <1>9, FaultedAddr
  <2> QED
    BY <1>1, <2>1 DEF Handling, Perm, Faulted
<1>18. Apart'
  <2>1. \A d \in Envs : job'[d].page = job[d].page
    BY <1>4, <1>5, <1>6
  <2>2. \A d \in Envs, u \in Addrs : \E x \in Envs : map'[d][u].page = map[x][u].page
    BY ONLY <1>11
  <2>3. tmp' = tmp
    BY <1>1
  <2> QED
    BY <2>1, <2>2, <2>3, ApartKept
<1>19. Unused'
  <2>1. Kind[v] = "share" => map[c][v].page \notin Pages
    <3>1. ~(v < v)
      BY Order
    <3> QED
      BY <1>4, <3>1, Constants DEF Has, Unmapped, Pte
  <2> QED
    BY <1>1, <1>9, <2>1 DEF Unused
<1>20. Making'
  BY <1>1, <1>2, <1>3, <1>5, <1>6 DEF Making
<1>21. Forking'
  <2>1. ASSUME NEW d \in Envs, job'[d].kind = "fork"
        PROVE  ForkAt(d)'
    <3>1. d # e /\ d # c /\ job[d].kind = "fork" /\ job'[d] = job[d] /\ job[d].child \in Envs \ {c}
      BY <1>2, <1>5, <1>6, <2>1, Child DEF NoJob, Job
    <3> QED
      BY <1>1, <1>9, <3>1, ForkKept DEF Forking
  <2> QED
    BY <2>1 DEF Forking
<1>22. Spawning'
  <2>1. ASSUME NEW d \in Envs \ {e}, job'[d].kind = "spawn"
        PROVE  SpawnAt(d)'
    <3>1. job[d].kind = "spawn" /\ job'[d] = job[d] /\ job[d].child \in Envs \ {c}
      BY <1>2, <1>6, <2>1, Child
    <3> QED
      BY <1>1, <1>9, <3>1, SpawnKept DEF Spawning
  <2>2. \A u \in Addrs : /\ map'[c][u] # Unmapped <=> Kind[u] # "share" \/ u <= v
                         /\ map'[c][u].perm # "cow"
    <3> SUFFICES ASSUME NEW u \in Addrs
                 PROVE  /\ map'[c][u] # Unmapped <=> Kind[u] # "share" \/ u <= v
                        /\ map'[c][u].perm # "cow"
      OBVIOUS
    <3>1. map'[c][u] = IF u = v /\ Kind[v] = "share" THEN m ELSE map[c][u]
      BY ONLY <1>2, <1>9
    <3>2. (u < v \/ u = v) <=> u <= v
      BY Order
    <3>3. m.perm # "cow" \/ Kind[v] # "share"
      BY <1>8
    <3> QED
      BY ONLY <1>4, <1>8, <3>1, <3>2, <3>3 DEF Has, Perm
  <2>3. \A u \in Addrs : (u <= v <=> u < v + 1) /\ (v = Last => u <= v)
    BY Order
  <2>4. /\ job'[e].child = c /\ job'[e].v = j.v /\ job'[e].step = j.step /\ job'[e].page = NoPage
        /\ handled' = handled
    BY <1>1, <1>5, <1>6
  <2>5. SpawnAt(e)'
    BY ONLY <1>4, <1>5, <2>2, <2>3, <2>4 DEF SpawnAt, Has, Perm
  <2> QED
    BY <2>1, <2>5 DEF Spawning
<1> QED
  BY <1>10, <1>12, <1>13, <1>14, <1>15, <1>16, <1>17, <1>18, <1>19, <1>20, <1>21, <1>22

-----------------------------------------------------------------------------
(* Ends *)

(* An environment that is nobody's parent and in the middle of nothing ends. *)
LEMMA GoneKeeps ==
    ASSUME FInv, NEW c \in Envs, Gone(c), write[c] = 0, job[c] = NoJob,
           job' \in [Envs -> Jobs],
           \A d \in Envs : \/ job'[d] = job[d]
                           \/ job'[d] = NoJob /\ job[d].kind # "fork",
           \A d \in Envs : job'[d] # NoJob => job'[d].child # c,
           UNCHANGED <<faultVars, stopped>>
    PROVE  FInv'
<1> USE DEF FInv, faultVars
<1>1. /\ status'[c] = "free" /\ (\A d \in Envs \ {c} : status'[d] = status[d])
      /\ status' \in [Envs -> {"free", "building", "left", "running"}]
  BY DEF Gone, TypeOK
<1>2. /\ map'[c] = NoMap /\ (\A d \in Envs \ {c} : map'[d] = map[d])
      /\ map' \in [Envs -> [Addrs -> [page : Pages \cup {NoPage}, perm : Perms]]]
  <2>1. NoMap \in [Addrs -> [page : Pages \cup {NoPage}, perm : Perms]]
    BY DEF NoMap, Unmapped, Perms
  <2> QED
    BY <2>1 DEF Gone, TypeOK
<1>3. faults[c] = << >> /\ tmp' = tmp
  BY DEF Handling, Gone, TypeOK
<1>4. /\ handled'[c] = Unhandled /\ (\A d \in Envs \ {c} : handled'[d] = handled[d])
      /\ handled' \in [Envs -> [stack : BOOLEAN, upcall : BOOLEAN, handler : BOOLEAN]]
  BY DEF Gone, TypeOK, Unhandled
<1>5. \A u \in Addrs : map'[c][u] = Unmapped /\ Unmapped.page = NoPage /\ Unmapped.perm = "none"
  BY <1>2 DEF NoMap, Unmapped
<1>6. /\ \A p \in Pages : content'[p] = content[p] \/ content'[p] = Fresh
      /\ \A p \in Pages : (\E d \in Envs : tmp[d] = p \/ \E u \in Addrs : map'[d][u].page = p)
                          => content'[p] = content[p]
      /\ \A p \in Pages : ~(\E d \in Envs : tmp[d] = p \/ \E u \in Addrs : map'[d][u].page = p)
                          => content'[p] = Fresh \/ \E d \in Envs : p = job[d].page
      /\ content' \in [Pages -> Values]
  <2>1. content' = [p \in Pages |->
            IF \E d \in Envs : p \in {tmp'[d], job[d].page} \/ \E u \in Addrs : map'[d][u].page = p
            THEN content[p] ELSE Fresh]
    BY DEF Gone, Recycled
  <2>2. content \in [Pages -> Values] /\ Fresh \in Values
    BY Constants DEF TypeOK
  <2> QED
    BY ONLY <1>3, <2>1, <2>2
<1>7. NoJob.kind = "none" /\ NoJob.page = NoPage /\ NoJob.step = "none"
  BY DEF NoJob, Job
<1>8. \A d \in Envs : job'[d].page = job[d].page \/ job'[d].page = NoPage
  BY <1>7
<1>9. \A d \in Envs : job[d].kind = "fork" => job'[d] = job[d]
  OBVIOUS
<1>10. \A d \in Envs : job'[d].kind # "none" => job'[d] = job[d] /\ job'[d] # NoJob /\ d # c
  BY <1>7
<1>11. TypeOK'
  BY <1>1, <1>2, <1>3, <1>4, <1>6 DEF TypeOK
<1>12. WritesArePrivate'
  <2> SUFFICES ASSUME NEW a \in Envs, NEW d \in Envs, NEW u \in Addrs, NEW w \in Addrs,
                      map'[a][w].perm = "w", map'[d][u].page = map'[a][w].page, d # a \/ u # w
               PROVE  job'[a].kind = "fork" /\ job'[a].step = "own" /\ d = job'[a].child
                      /\ u = w /\ w = job'[a].v
    BY DEF WritesArePrivate, Perm
  <2>1. a # c /\ map'[a][w] = map[a][w]
    BY <1>2, <1>5
  <2>2. map[a][w].page # NoPage
    <3>1. Has(a, w)
      BY <2>1 DEF Has, Unmapped
    <3> QED
      BY <3>1, Constants DEF Places
  <2>3. d # c /\ map'[d][u] = map[d][u]
    BY <1>2, <1>5, <2>1, <2>2
  <2>4. job[a].kind = "fork" /\ job[a].step = "own" /\ d = job[a].child /\ u = w /\ w = job[a].v
    BY <2>1, <2>3 DEF WritesArePrivate, Perm
  <2> QED
    BY <1>9, <2>4
<1>13. CowIsHandled' /\ Registered'
  <2>1. \A d \in Envs : status'[d] = "running" =>
          status[d] = "running" /\ map'[d] = map[d] /\ handled'[d] = handled[d]
    BY ONLY <1>1, <1>2, <1>4
  <2> QED
    BY ONLY <2>1, CowIsHandled, Registered DEF CowIsHandled, Registered, Perm, CanHandle
<1>14. Places' /\ SharedByAll'
  <2>1. \A d \in Envs, u \in Addrs : map'[d][u] = Unmapped \/ map'[d][u] = map[d][u]
    BY <1>2, <1>5
  <2>2. Places'
    BY ONLY <2>1, Places DEF Places, Has, Perm
  <2>3. SharedByAll'
    BY ONLY <2>1, SharedByAll DEF SharedByAll, Has
  <2> QED
    BY <2>2, <2>3
<1>15. Quiet'
  <2>1. \A d \in Envs : job[d] = NoJob => job'[d] = NoJob
    OBVIOUS
  <2> SUFFICES ASSUME NEW d \in Envs
               PROVE  /\ status'[d] # "running" => write'[d] = 0 /\ job'[d] = NoJob
                      /\ status'[d] = "running" => \A u \in Addrs : map'[d][u] # Unmapped
                      /\ status'[d] = "free" => map'[d] = NoMap' /\ handled'[d] = Unhandled'
    BY DEF Quiet, Has
  <2>2. CASE d = c
    BY <1>1, <1>2, <1>4, <2>1, <2>2 DEF NoMap
  <2>3. CASE d # c
    BY <1>1, <1>2, <1>4, <2>1, <2>3 DEF Quiet, Has
  <2> QED
    BY <2>2, <2>3
<1>16. Handling'
  <2>1. \A d \in Envs : faults[d] # << >> => d # c /\ map'[d] = map[d]
    BY <1>2, <1>3
  <2>2. ASSUME NEW d \in Envs, faults[d] # << >>, step[d] = "map"
        PROVE  content'[tmp[d]] = content'[map'[d][Faulted(d)].page]
    <3>1. Faulted(d) \in Addrs /\ map'[d] = map[d]
      BY <2>1, <2>2, FaultedAddr
    <3>2. /\ content[tmp[d]] = content[map[d][Faulted(d)].page]
          /\ tmp[d] \in Pages /\ map[d][Faulted(d)].page \in Pages
      BY <2>2, FaultedAddr, Constants DEF Handling, Places
    <3> QED
      BY <1>6, <3>1, <3>2
  <2>3. \A d \in Envs : Faulted(d)' = Faulted(d)
    BY DEF Faulted
  <2> QED
    BY <1>3, <2>1, <2>2, <2>3 DEF Handling, Perm
<1>17. \A d \in Envs, u \in Addrs : map'[d][u].page = NoPage \/ map'[d][u].page = map[d][u].page
  BY <1>2, <1>5
<1>18. Apart'
  <2>1. \A d \in Envs : job'[d].page \in {job[d].page, NoPage}
    BY <1>8
  <2>2. \A d \in Envs, u \in Addrs :
          map'[d][u].page = NoPage \/ \E x \in Envs : map'[d][u].page = map[x][u].page
    BY ONLY <1>17
  <2> QED
    BY <1>3, <2>1, <2>2, ApartKept
<1>19. Unused'
  <2>1. ASSUME NEW p \in Pages, \A d \in Envs : tmp[d] # p /\ \A u \in Addrs : map'[d][u].page # p
        PROVE  content'[p] = Fresh
    <3> SUFFICES ASSUME NEW d \in Envs, p = job[d].page
                 PROVE  content[p] = Fresh
      BY <1>6, <2>1
    <3>1. \A a \in Envs, u \in Addrs : map[a][u].page # p
      BY Constants DEF Apart
    <3> QED
      BY <2>1, <3>1 DEF Unused
  <2> QED
    BY ONLY <1>3, <2>1 DEF Unused
<1>20. Making'
  <2>1. ASSUME NEW d \in Envs, job'[d] # NoJob
        PROVE  /\ job'[d] = job[d] /\ job[d] # NoJob /\ job[d].child # c /\ d # c
    BY <2>1
  <2> QED
    BY <1>1, <2>1 DEF Making
<1>21. Forking'
  <2>1. ASSUME NEW d \in Envs, job'[d].kind = "fork"
        PROVE  ForkAt(d)'
    <3>1. d # c /\ job[d].kind = "fork" /\ job'[d] = job[d] /\ job[d].child \in Envs \ {c}
      BY <1>10, <2>1, Child
    <3> QED
      BY <1>2, <1>4, <3>1, ForkKept DEF Forking
  <2> QED
    BY <2>1 DEF Forking
<1>22. Spawning'
  <2>1. ASSUME NEW d \in Envs, job'[d].kind = "spawn"
        PROVE  SpawnAt(d)'
    <3>1. d # c /\ job[d].kind = "spawn" /\ job'[d] = job[d] /\ job[d].child \in Envs \ {c}
      BY <1>10, <2>1, Child
    <3> QED
      BY <1>2, <1>4, <3>1, SpawnKept DEF Spawning
  <2> QED
    BY <2>1 DEF Spawning
<1> QED
  BY <1>11, <1>12, <1>13, <1>14, <1>15, <1>16, <1>18, <1>19, <1>20, <1>21, <1>22

LEMMA ExitStep ==
    ASSUME FInv, NEW e \in Envs, Exit(e)
    PROVE  FInv'
<1>1. /\ write[e] = 0 /\ job[e] = NoJob /\ status[e] = "running" /\ Gone(e)
      /\ UNCHANGED <<faultVars, job, stopped>>
  BY DEF Exit, Idle, Executes, Runs
<1>2. job' = job /\ job \in [Envs -> Jobs] /\ UNCHANGED <<faultVars, stopped>>
  BY <1>1 DEF FInv, TypeOK
<1>3. \A d \in Envs : job'[d] # NoJob => job'[d].child # e
  BY <1>1, <1>2 DEF FInv, Making
<1> QED
  BY <1>1, <1>2, <1>3, GoneKeeps

LEMMA SpawnFailsStep ==
    ASSUME FInv, NEW e \in Envs, SpawnFails(e)
    PROVE  FInv'
<1> USE DEF FInv
<1>1. /\ job[e].kind = "spawn" /\ job' = [job EXCEPT ![e] = NoJob]
      /\ UNCHANGED <<faultVars, stopped>>
  BY DEF SpawnFails, Doing
<1>2. PICK c \in Envs :
        /\ c = job[e].child /\ status[c] = "building" /\ c # e /\ job[c] = NoJob
        /\ \A d \in Envs \ {e} : job[d].kind # "none" => job[d].child # c
  BY <1>1, Child
<1>3. /\ job'[e] = NoJob /\ (\A d \in Envs \ {e} : job'[d] = job[d]) /\ job' \in [Envs -> Jobs]
      /\ NoJob.kind = "none" /\ NoJob.page = NoPage
  <2>1. NoJob \in Jobs /\ NoJob.kind = "none" /\ NoJob.page = NoPage
    BY Constants DEF NoJob, Job, Jobs, Perms
  <2> QED
    BY <1>1, <2>1 DEF TypeOK
<1>4. \A d \in Envs : job'[d] # NoJob => job'[d] = job[d] /\ job'[d].child # c
  BY <1>2, <1>3 DEF Making
<1>5. CASE Gone(c)
  <2>1. write[c] = 0
    BY <1>2 DEF Quiet
  <2>2. \A d \in Envs : job'[d] = job[d] \/ (job'[d] = NoJob /\ job[d].kind # "fork")
    BY <1>1, <1>3
  <2> QED
    BY <1>1, <1>2, <1>3, <1>4, <1>5, <2>1, <2>2, GoneKeeps
<1>6. CASE status' = [status EXCEPT ![c] = "left"] /\ UNCHANGED <<map, content, handled, tmp>>
  <2> USE DEF faultVars
  <2>1. /\ status'[c] = "left" /\ (\A d \in Envs \ {c} : status'[d] = status[d])
        /\ status' \in [Envs -> {"free", "building", "left", "running"}]
    BY <1>6 DEF TypeOK
  <2>2. TypeOK'
    BY <1>1, <1>3, <1>6, <2>1 DEF TypeOK
  <2>3. WritesArePrivate'
    BY <1>1, <1>3, <1>6 DEF WritesArePrivate, Perm
  <2>4. CowIsHandled' /\ Registered'
    BY <1>2, <1>6, <2>1 DEF CowIsHandled, Registered, Perm, CanHandle
  <2>5. Places' /\ SharedByAll'
    BY <1>6 DEF Places, SharedByAll, Perm, Has
  <2>6. Quiet'
    BY <1>1, <1>2, <1>3, <1>6, <2>1 DEF Quiet, Has
  <2>7. Handling' /\ Unused'
    BY <1>1, <1>6 DEF Handling, Unused, Perm, Faulted
  <2>8. Apart'
    <3>1. \A d \in Envs : job'[d].page \in {job[d].page, NoPage}
      BY <1>3
    <3> QED
      BY <1>6, <3>1, ApartKept
  <2>9. Making'
    <3>1. \A d \in Envs : job'[d] # NoJob => job'[d] = job[d] /\ job[d].child # c /\ d # c
      BY <1>2, <1>4
    <3> QED
      BY <2>1, <3>1 DEF Making
  <2>10. Forking'
    <3>1. ASSUME NEW d \in Envs, job'[d].kind = "fork"
          PROVE  ForkAt(d)'
      BY <1>3, <1>6, <3>1, ForkKept DEF Forking
    <3> QED
      BY <3>1 DEF Forking
  <2>11. Spawning'
    <3>1. ASSUME NEW d \in Envs, job'[d].kind = "spawn"
          PROVE  SpawnAt(d)'
      BY <1>3, <1>6, <3>1, SpawnKept DEF Spawning
    <3> QED
      BY <3>1 DEF Spawning
  <2> QED
    BY <2>2, <2>3, <2>4, <2>5, <2>6, <2>7, <2>8, <2>9, <2>10, <2>11
<1> QED
  BY <1>2, <1>5, <1>6 DEF SpawnFails

LEMMA NextFInv == FInv /\ [Next]_vars => FInv'
<1> SUFFICES ASSUME FInv, [Next]_vars PROVE FInv'
  OBVIOUS
<1>1. CASE UNCHANGED vars
  <2> USE <1>1 DEF FInv, vars, faultVars
  <2>1. TypeOK' /\ WritesArePrivate' /\ CowIsHandled' /\ Registered'
    BY DEF TypeOK, WritesArePrivate, CowIsHandled, Registered, Perm, CanHandle
  <2>2. Places' /\ SharedByAll' /\ Quiet'
    BY DEF Places, SharedByAll, Quiet, Perm, Has
  <2>3. Handling' /\ Apart' /\ Unused'
    BY DEF Handling, Apart, Unused, Perm, Faulted
  <2>4. Making'
    BY DEF Making
  <2>5. Forking'
    BY ForkKept DEF Forking
  <2>6. Spawning'
    BY SpawnKept DEF Spawning
  <2> QED
    BY <2>1, <2>2, <2>3, <2>4, <2>5, <2>6
<1>2. CASE Next
  <2>1. PICK e \in Envs :
          \/ Works(e) \/ Makes(e) \/ Exit(e)
          \/ \E v \in Addrs : BeginWrite(e, v)
          \/ \E c \in Envs : BeginFork(e, c) \/ BeginSpawn(e, c)
    BY <1>2, Zenon DEF Next
  <2>2. CASE Works(e)
    BY <2>2, StoreStep, FaultOnWriteStep, HandleCopyStep, HandleMapStep, ReturnFaultsStep, ReturnStep
       DEF Works
  <2>3. CASE Makes(e)
    BY <2>3, ReadPteStep, DupChildStep, DupOwnStep, AllocChildStackStep, SetChildUpcallStep,
       StartStep, SpawnAllocStep, SpawnGiveStep, SpawnFailsStep, SpawnShareStep
       DEF Makes
  <2>4. CASE Exit(e)
    BY <2>4, ExitStep
  <2>5. CASE \E v \in Addrs : BeginWrite(e, v)
    BY <2>5, BeginWriteStep
  <2>6. CASE \E c \in Envs : BeginFork(e, c) \/ BeginSpawn(e, c)
    BY <2>6, BeginForkStep, BeginSpawnStep
  <2> QED
    BY <2>1, <2>2, <2>3, <2>4, <2>5, <2>6
<1> QED
  BY <1>1, <1>2

LEMMA AlwaysFInv == Spec => []FInv
BY InitFInv, NextFInv, PTL DEF Spec

(* Whatever faults, fork() and spawn() do at the same time: who may write  *)
(* a page has it alone, but for a child between the two calls of           *)
(* duppage(), and who has pages that are copy on write has its handler     *)
(* registered, with an exception stack that is not one of them             *)
(* (lib/fork.c, lib/pgfault.c).                                            *)
THEOREM MemoryInvariance == Spec => []IInv
<1>1. FInv => IInv
  BY DEF FInv, IInv
<1> QED
  BY <1>1, AlwaysFInv, PTL

-----------------------------------------------------------------------------
(* Every environment has a memory of its own *)

Running == {e \in Envs : status[e] = "running"}

Sees(e, v) == IF Has(e, v) /\ (status[e] = "running" \/ Settled(e, v))
              THEN content[map[e][v].page] ELSE Nothing

LEMMA MemoryIs ==
    /\ Memory = [e \in Envs |-> [v \in Addrs |-> Sees(e, v)]]
    /\ Memory' = [e \in Envs |-> [v \in Addrs |-> Sees(e, v)']]
    /\ \A e \in Envs, v \in Addrs : Memory[e][v] = Sees(e, v)
<1>1. Memory = [e \in Envs |-> [v \in Addrs |-> Sees(e, v)]]
  BY DEF Memory, Sees, Has
<1>2. Memory' = [e \in Envs |-> [v \in Addrs |-> Sees(e, v)']]
  BY DEF Memory, Sees, Has
<1> QED
  BY <1>1, <1>2

(* Only between the two calls of duppage() is a page not yet the child's. *)
LEMMA Unsettled ==
    ASSUME FInv, NEW d \in Envs, NEW u \in Addrs,
           NEW a \in Envs, NEW w \in Addrs, <<a, w>> # <<d, u>>,
           map[a][w].page = map[d][u].page, Perm(a, w) = "w"
    PROVE  /\ ~Settled(d, u) /\ job[a].kind = "fork" /\ job[a].step = "own"
           /\ d = job[a].child /\ u = w /\ w = job[a].v
BY DEF FInv, WritesArePrivate, Settled

(* Steps that change no mapping and no page that is mapped. *)
LEMMA NothingSeen ==
    ASSUME FInv, map' = map, status' \in [Envs -> {"free", "building", "left", "running"}],
           \A d \in Envs : status'[d] = "running" <=> status[d] = "running",
           \A d \in Envs, u \in Addrs : Has(d, u) => content'[map[d][u].page] = content[map[d][u].page]
    PROVE  Memory' = Memory /\ Running' = Running
<1>1. ASSUME NEW d \in Envs, NEW u \in Addrs
      PROVE  Sees(d, u)' = Sees(d, u)
  BY DEF Sees, Settled, Perm, Has
<1>2. Memory' = Memory
  BY ONLY <1>1, MemoryIs
<1> QED
  BY <1>2 DEF Running

LEMMA PageUsed ==
    ASSUME FInv, NEW d \in Envs, NEW u \in Addrs, Has(d, u)
    PROVE  /\ map[d][u].page \in Pages /\ map[d][u].page # NoPage
           /\ content[map[d][u].page] \in Values /\ content[map[d][u].page] # Nothing
<1>1. map[d][u].page \in Pages
  BY Constants DEF FInv, Places
<1>2. content[map[d][u].page] \in Values
  BY <1>1 DEF FInv, TypeOK
<1> QED
  BY <1>1, <1>2, Constants

(* A child that has not started is given a page. *)
LEMMA ChildIsGiven ==
    ASSUME FInv, NEW c \in Envs, NEW v \in Addrs, NEW m, ~Has(c, v), status[c] # "running",
           m # Unmapped,
           m.perm = "w" => \A d \in Envs, u \in Addrs : map[d][u].page # m.page,
           \A d \in Envs, u \in Addrs : map'[d][u] = IF d = c /\ u = v THEN m ELSE map[d][u],
           UNCHANGED <<status, content>>
    PROVE  /\ Memory[c][v] = Nothing /\ Running' = Running /\ c \notin Running
           /\ Memory' = Memory \/ Memory' = [Memory EXCEPT ![c][v] = content[m.page]]
<1>1. Sees(c, v) = Nothing
  BY DEF Sees
<1>2. \A d \in Envs, u \in Addrs : (d = c /\ u = v) \/ map'[d][u] = map[d][u]
  OBVIOUS
<1>3. map'[c][v] = m /\ Perm(c, v) # "w"
  BY DEF Has, Perm, Unmapped
<1>4. ASSUME NEW d \in Envs, NEW u \in Addrs, <<d, u>> # <<c, v>>
      PROVE  Settled(d, u)' <=> Settled(d, u)
  BY <1>2, <1>3, <1>4 DEF Settled, Perm
<1>5. ASSUME NEW d \in Envs, NEW u \in Addrs, <<d, u>> # <<c, v>>
      PROVE  Sees(d, u)' = Sees(d, u)
  BY <1>2, <1>4, <1>5 DEF Sees, Has
<1>6. Sees(c, v)' = Nothing \/ Sees(c, v)' = content[m.page]
  BY <1>3 DEF Sees
<1>7. CASE Sees(c, v)' = Nothing
  <2>1. \A d \in Envs, u \in Addrs : Sees(d, u)' = Sees(d, u)
    BY ONLY <1>1, <1>5, <1>7
  <2>2. Memory' = Memory
    BY ONLY <2>1, MemoryIs
  <2> QED
    BY <1>1, <2>2, MemoryIs DEF Running
<1>8. CASE Sees(c, v)' = content[m.page]
  <2>1. ASSUME NEW d \in Envs, NEW u \in Addrs
        PROVE  Sees(d, u)' = IF d = c /\ u = v THEN content[m.page] ELSE Sees(d, u)
    <3>1. CASE d = c /\ u = v
      BY ONLY <3>1, <1>8
    <3>2. CASE ~(d = c /\ u = v)
      <4>1. <<d, u>> # <<c, v>>
        BY ONLY <3>2
      <4> QED
        BY ONLY <4>1, <3>2, <1>5
    <3> QED
      BY ONLY <3>1, <3>2
  <2>2. Memory' = [Memory EXCEPT ![c][v] = content[m.page]]
    <3> DEFINE row(d) == [u \in Addrs |-> IF d = c /\ u = v THEN content[m.page] ELSE Sees(d, u)]
    <3>1. Memory' = [d \in Envs |-> row(d)]
      BY ONLY <2>1, MemoryIs
    <3>2. ASSUME NEW d \in Envs
          PROVE  row(d) = IF d = c THEN [Memory[d] EXCEPT ![v] = content[m.page]] ELSE Memory[d]
      BY ONLY MemoryIs
    <3>3. Memory = [d \in Envs |-> Memory[d]]
      BY ONLY MemoryIs
    <3> HIDE DEF row
    <3> QED
      BY ONLY <3>1, <3>2, <3>3
  <2> QED
    BY <1>1, <2>2, MemoryIs DEF Running
<1> QED
  BY <1>6, <1>7, <1>8

LEMMA GoneIsSeen ==
    ASSUME FInv, NEW c \in Envs, Gone(c), job[c] = NoJob, write[c] = 0
    PROVE  /\ Memory' = [Memory EXCEPT ![c] = [u \in Addrs |-> Nothing]]
           /\ Running' = Running \ {c}
<1>1. /\ \A u \in Addrs : map'[c][u] = Unmapped
      /\ \A d \in Envs \ {c} : map'[d] = map[d] /\ status'[d] = status[d]
      /\ status'[c] = "free"
  BY DEF Gone, FInv, TypeOK, NoMap
<1>2. \A p \in Pages : (\E d \in Envs, u \in Addrs : map'[d][u].page = p) => content'[p] = content[p]
  <2>1. content' = [p \in Pages |->
            IF \E d \in Envs : p \in {tmp'[d], job[d].page} \/ \E u \in Addrs : map'[d][u].page = p
            THEN content[p] ELSE Fresh]
    BY DEF Gone, Recycled
  <2> QED
    BY ONLY <2>1
<1>3. Unmapped.page = NoPage /\ Unmapped.perm = "none" /\ job[c].kind # "fork"
  BY DEF Unmapped, NoJob, Job
<1>4. ASSUME NEW d \in Envs \ {c}, NEW u \in Addrs, Has(d, u)
      PROVE  Settled(d, u)' <=> Settled(d, u)
  <2>1. map'[d][u] = map[d][u]
    BY <1>1
  <2>2. ASSUME Settled(d, u), NEW a \in Envs, NEW w \in Addrs,
               <<a, w>> # <<d, u>>, map'[a][w].page = map'[d][u].page
        PROVE  map'[a][w].perm # "w"
    <3>1. CASE a = c
      BY <1>1, <1>3, <3>1
    <3>2. CASE a # c
      BY <1>1, <2>1, <2>2, <3>2 DEF Settled, Perm
    <3> QED
      BY <3>1, <3>2
  <2>3. ASSUME Settled(d, u)', NEW a \in Envs, NEW w \in Addrs,
               <<a, w>> # <<d, u>>, map[a][w].page = map[d][u].page, Perm(a, w) = "w"
        PROVE  FALSE
    <3>1. a # c
      BY <1>3, <2>3, Unsettled
    <3>2. map'[a][w] = map[a][w]
      BY <1>1, <3>1
    <3> QED
      BY <2>1, <2>3, <3>2 DEF Settled, Perm
  <2> QED
    BY <2>2, <2>3 DEF Settled, Perm
<1>5. ASSUME NEW d \in Envs \ {c}, NEW u \in Addrs
      PROVE  Sees(d, u)' = Sees(d, u)
  <2>1. map'[d][u] = map[d][u]
    BY <1>1
  <2>2. CASE Has(d, u)
    <3>1. content'[map[d][u].page] = content[map[d][u].page]
      BY <1>2, <2>1, <2>2, PageUsed
    <3> QED
      BY <1>1, <1>4, <2>1, <2>2, <3>1 DEF Sees, Has
  <2>3. CASE ~Has(d, u)
    BY <2>1, <2>3 DEF Sees, Has
  <2> QED
    BY <2>2, <2>3
<1>6. \A u \in Addrs : Sees(c, u)' = Nothing
  BY <1>1 DEF Sees, Has
<1>7. Memory' = [Memory EXCEPT ![c] = [u \in Addrs |-> Nothing]]
  BY ONLY <1>5, <1>6, MemoryIs
<1>8. Running' = Running \ {c}
  BY <1>1 DEF Running
<1> QED
  BY <1>7, <1>8

-----------------------------------------------------------------------------
(* The steps as steps of the private memories *)

AloneStep == Alone!Next \/ (Memory' = Memory /\ Running' = Running)

LEMMA StoreIsSeen ==
    ASSUME FInv, NEW e \in Envs, NEW x \in Values, Store(e, x)
    PROVE  AloneStep
<1> USE DEF FInv
<1>1. PICK v \in Addrs : v = write[e]
  BY Constants DEF Store, Trying, TypeOK
<1>2. /\ status[e] = "running" /\ Perm(e, v) \in {"w", "share"}
      /\ content' = [content EXCEPT ![map[e][v].page] = x]
      /\ map' = map /\ status' = status
  BY <1>1 DEF Store, Trying, Runs
<1>3. PICK p \in Pages : p = map[e][v].page /\ Has(e, v) /\ p \in PagesOf(v)
  BY <1>2, Constants DEF Quiet, Places
<1>4. content'[p] = x /\ \A q \in Pages \ {p} : content'[q] = content[q]
  BY <1>2, <1>3 DEF TypeOK
<1>5. Perm(e, v) = "share" <=> Kind[v] = "share"
  BY <1>3 DEF Places
<1>6. \A d \in Envs, u \in Addrs : (Has(d, u)' <=> Has(d, u)) /\ (Settled(d, u)' <=> Settled(d, u))
  BY <1>2 DEF Has, Settled, Perm
<1>7. ASSUME NEW d \in Envs, NEW u \in Addrs
      PROVE  Sees(d, u)' = IF u = v /\ (d = e \/ (Kind[v] = "share" /\ Sees(d, v) # Nothing))
                          THEN x ELSE Sees(d, u)
  <2>1. CASE ~Has(d, u)
    <3>1. d # e \/ u # v
      BY <1>3, <2>1
    <3> QED
      BY <1>6, <2>1, <3>1 DEF Sees
  <2>2. CASE Has(d, u) /\ map[d][u].page # p
    <3>1. u # v \/ (d # e /\ Kind[v] # "share")
      BY <1>3, <2>2 DEF SharedByAll
    <3>2. content'[map[d][u].page] = content[map[d][u].page]
      BY <1>4, <2>2, PageUsed
    <3> QED
      BY <1>2, <1>6, <2>2, <3>1, <3>2 DEF Sees
  <2>3. CASE Has(d, u) /\ map[d][u].page = p
    <3>1. u = v
      BY <1>3, <2>3 DEF Places, PagesOf
    <3>2. Sees(d, v)' = IF status[d] = "running" \/ Settled(d, v) THEN x ELSE Nothing
      BY <1>2, <1>4, <1>6, <2>3, <3>1 DEF Sees
    <3>3. status[d] = "running" \/ Settled(d, v) <=> Sees(d, v) # Nothing
      BY <2>3, <3>1, PageUsed DEF Sees
    <3>4. CASE Perm(e, v) = "share"
      BY <1>2, <1>5, <3>1, <3>2, <3>3, <3>4
    <3>5. CASE Perm(e, v) = "w" /\ d = e
      BY <1>2, <3>1, <3>2, <3>5
    <3>6. CASE Perm(e, v) = "w" /\ d # e
      <4>1. status[d] = "building"
        BY <1>3, <2>3, <3>1, <3>6, WrittenPage
      <4>2. ~Settled(d, v)
        BY <1>3, <2>3, <3>1, <3>6, Unsettled
      <4> QED
        BY <1>5, <3>1, <3>2, <3>3, <3>6, <4>1, <4>2
    <3> QED
      BY <1>2, <3>4, <3>5, <3>6
  <2> QED
    BY <2>1, <2>2, <2>3
<1>8. Memory' = [d \in Envs |->
                   IF d = e \/ (v \in {u \in Addrs : Kind[u] = "share"} /\ Memory[d][v] # Nothing)
                   THEN [Memory[d] EXCEPT ![v] = x] ELSE Memory[d]]
  BY ONLY <1>7, MemoryIs
<1>9. e \in Running /\ Running' = Running
  BY <1>2 DEF Running
<1> QED
  BY ONLY <1>8, <1>9, e \in Envs, v \in Addrs, x \in Values
     DEF AloneStep, Alone!Next, Alone!Write, Running

LEMMA HandleCopyIsSeen ==
    ASSUME FInv, NEW e \in Envs, HandleCopy(e)
    PROVE  AloneStep
<1>1. CASE ForkPanic
  BY <1>1, NothingSeen DEF ForkPanic, AloneStep, FInv, TypeOK
<1>2. CASE ~ForkPanic
  <2>1. PICK v \in Addrs : v = Faulted(e)
    BY <1>2, FaultedAddr DEF HandleCopy, Handles
  <2>2. PICK p \in Pages : p = NewPage(v) /\ p \notin Mapped
    BY <1>2, <2>1, TakenPage DEF HandleCopy
  <2>3. /\ tmp' = [tmp EXCEPT ![e] = p]
        /\ content' = [content EXCEPT ![tmp'[e]] = content[map[e][v].page]]
        /\ map' = map /\ status' = status
    BY <1>2, <2>1, <2>2 DEF HandleCopy
  <2>4. content' = [content EXCEPT ![p] = content[map[e][v].page]]
    BY <2>3 DEF FInv, TypeOK
  <2>5. ASSUME NEW d \in Envs, NEW u \in Addrs, Has(d, u)
        PROVE  content'[map[d][u].page] = content[map[d][u].page]
    <3>1. map[d][u].page # p
      BY <2>2 DEF Mapped
    <3> QED
      BY <2>4, <2>5, <3>1, PageUsed DEF FInv, TypeOK
  <2> QED
    BY <2>3, <2>5, NothingSeen DEF AloneStep, FInv, TypeOK
<1> QED
  BY <1>1, <1>2

(* The copy holds what the page held. *)
LEMMA HandleMapIsSeen ==
    ASSUME FInv, NEW e \in Envs, HandleMap(e)
    PROVE  AloneStep
<1> USE DEF FInv
<1>1. /\ faults[e] # << >> /\ step[e] = "map"
      /\ map' = [map EXCEPT ![e][Faulted(e)] = Pte(tmp[e], "w")]
      /\ tmp' = [tmp EXCEPT ![e] = NoPage] /\ status' = status /\ Recycled
  BY DEF HandleMap, Handles, MapCopy
<1>2. PICK v \in Addrs : v = Faulted(e) /\ status[e] = "running" /\ Has(e, v)
  BY <1>1, FaultedAddr
<1>3. PICK p \in Pages : /\ p = tmp[e] /\ p # NoPage
                         /\ Perm(e, v) = "cow" /\ content[p] = content[map[e][v].page]
  BY <1>1, <1>2, Constants DEF Handling
<1>4. \A d \in Envs, u \in Addrs : map[d][u].page # p
  BY <1>3 DEF Apart
<1>5. PICK m : m = Pte(p, "w")
  OBVIOUS
<1>6. m.page = p /\ m.perm = "w" /\ m # Unmapped
  BY <1>3, <1>5 DEF Pte, Unmapped
<1>7. \A d \in Envs, u \in Addrs : map'[d][u] = IF d = e /\ u = v THEN m ELSE map[d][u]
  BY <1>1, <1>2, <1>3, <1>5 DEF TypeOK
<1>8. \A q \in Pages : (\E d \in Envs, u \in Addrs : map'[d][u].page = q) => content'[q] = content[q]
  <2>1. content' = [q \in Pages |->
            IF \E d \in Envs : q \in {tmp'[d], job[d].page} \/ \E u \in Addrs : map'[d][u].page = q
            THEN content[q] ELSE Fresh]
    BY <1>1 DEF Recycled
  <2> QED
    BY ONLY <2>1
<1>9. ASSUME NEW d \in Envs, NEW u \in Addrs, <<d, u>> # <<e, v>>
      PROVE  Settled(d, u)' <=> Settled(d, u)
  <2>1. map'[d][u] = map[d][u] /\ map'[e][v] = m /\ map[d][u].page # p
    BY <1>4, <1>7, <1>9
  <2>2. \A a \in Envs, w \in Addrs : (a = e /\ w = v) \/ map'[a][w] = map[a][w]
    BY <1>7
  <2> QED
    BY <1>3, <1>6, <2>1, <2>2 DEF Settled, Perm
<1>10. ASSUME NEW d \in Envs, NEW u \in Addrs
       PROVE  Sees(d, u)' = Sees(d, u)
  <2>1. CASE <<d, u>> = <<e, v>>
    <3>1. map'[e][v] = m /\ content'[p] = content[p]
      BY <1>6, <1>7, <1>8
    <3>2. Sees(e, v)' = content[p]
      BY <1>1, <1>2, <1>6, <3>1 DEF Sees, Has
    <3>3. Sees(e, v) = content[p]
      BY <1>2, <1>3 DEF Sees
    <3> QED
      BY <2>1, <3>2, <3>3
  <2>2. CASE <<d, u>> # <<e, v>>
    <3>1. map'[d][u] = map[d][u]
      BY <1>7, <2>2
    <3>2. Has(d, u) => content'[map[d][u].page] = content[map[d][u].page]
      BY <1>8, <3>1, PageUsed
    <3> QED
      BY <1>1, <1>9, <2>2, <3>1, <3>2 DEF Sees, Has
  <2> QED
    BY <2>1, <2>2
<1>11. Memory' = Memory
  BY ONLY <1>10, MemoryIs
<1> QED
  BY <1>1, <1>11 DEF AloneStep, Running

LEMMA GiveIsAlone ==
    ASSUME NEW c \in Envs \ Running, NEW v \in Addrs, NEW x, Memory[c][v] = Nothing, Running' = Running,
           \/ \E p \in Running : x = Memory[p][v]
           \/ x = Fresh /\ Kind[v] # "share",
           Memory' = Memory \/ Memory' = [Memory EXCEPT ![c][v] = x]
    PROVE  AloneStep
<1>1. CASE Memory' = Memory
  BY <1>1 DEF AloneStep
<1>2. CASE Memory' = [Memory EXCEPT ![c][v] = x]
  <2>1. CASE \E p \in Running : x = Memory[p][v]
    BY <1>2, <2>1 DEF AloneStep, Alone!Next, Alone!Give, Running
  <2>2. CASE x = Fresh /\ Kind[v] # "share"
    BY <1>2, <2>2 DEF AloneStep, Alone!Next, Alone!Give, Running
  <2> QED
    BY <2>1, <2>2
<1> QED
  BY <1>1, <1>2

LEMMA DupChildIsSeen ==
    ASSUME FInv, NEW e \in Envs, DupChild(e)
    PROVE  AloneStep
<1> USE DEF FInv
<1>1. /\ job[e].kind = "fork" /\ job[e].step = "child"
      /\ map' = [map EXCEPT ![job[e].child][job[e].v] =
                     Pte(map[e][job[e].v].page, ChildPerm(job[e].seen))]
      /\ UNCHANGED <<status, content>>
  BY DEF DupChild, Doing
<1>2. PICK c \in Envs, v \in Addrs : c = job[e].child /\ v = job[e].v /\ status[c] = "building" /\ c # e
  BY <1>1, Child
<1>3. status[e] = "running" /\ Has(e, v) /\ ForkAt(e)
  BY <1>1, <1>2, Child DEF Quiet, Forking
<1>4. ~Has(c, v) /\ (Marks(job[e].seen) \/ job[e].seen \in {"ro", "share"})
  <2>1. ~(v < v)
    BY Order
  <2> QED
    BY ONLY <1>1, <1>2, <1>3, <2>1 DEF ForkAt, Has
<1>5. PICK m : m = Pte(map[e][v].page, ChildPerm(job[e].seen))
  OBVIOUS
<1>6. m.page = map[e][v].page /\ m.perm # "w" /\ m # Unmapped
  BY <1>3, <1>4, <1>5, PageUsed DEF Pte, ChildPerm, Marks, Unmapped
<1>7. \A d \in Envs, u \in Addrs : map'[d][u] = IF d = c /\ u = v THEN m ELSE map[d][u]
  BY <1>1, <1>2, <1>5 DEF TypeOK
<1>8. /\ Memory[c][v] = Nothing /\ Running' = Running /\ c \notin Running
      /\ Memory' = Memory \/ Memory' = [Memory EXCEPT ![c][v] = content[m.page]]
  <2>1. /\ ~Has(c, v) /\ status[c] # "running" /\ m # Unmapped
        /\ m.perm = "w" => \A d \in Envs, u \in Addrs : map[d][u].page # m.page
        /\ UNCHANGED <<status, content>>
    BY <1>1, <1>2, <1>4, <1>6
  <2> QED
    BY ONLY FInv, <1>7, <2>1, ChildIsGiven
<1>9. e \in Running /\ Memory[e][v] = content[m.page]
  BY <1>3, <1>6, MemoryIs DEF Running, Sees
<1> QED
  BY ONLY <1>8, <1>9, GiveIsAlone, c \in Envs, v \in Addrs

(* The copy counts from the moment when a write of the parent no longer reaches it. *)
LEMMA DupOwnIsSeen ==
    ASSUME FInv, NEW e \in Envs, DupOwn(e)
    PROVE  AloneStep
<1> USE DEF FInv
<1>1. /\ job[e].kind = "fork" /\ job[e].step = "own"
      /\ map' = [map EXCEPT ![e][job[e].v].perm = "cow"]
      /\ UNCHANGED <<status, content>>
  BY DEF DupOwn, Doing
<1>2. PICK c \in Envs, v \in Addrs : c = job[e].child /\ v = job[e].v /\ status[c] = "building" /\ c # e
  BY <1>1, Child
<1>3. status[e] = "running" /\ Has(e, v)
  BY <1>1, <1>2, Child DEF Quiet
<1>4. \A d \in Envs, u \in Addrs :
        /\ map'[d][u].page = map[d][u].page /\ (Has(d, u)' <=> Has(d, u))
        /\ map'[d][u].perm = IF d = e /\ u = v THEN "cow" ELSE Perm(d, u)
  <2>1. map[e][v] \in [page : Pages \cup {NoPage}, perm : Perms]
    BY DEF TypeOK
  <2>2. PICK m : m = [map[e][v] EXCEPT !.perm = "cow"]
    OBVIOUS
  <2>3. m.page = map[e][v].page /\ m.perm = "cow" /\ m # Unmapped
    BY <2>1, <2>2 DEF Unmapped
  <2>4. \A d \in Envs, u \in Addrs : map'[d][u] = IF d = e /\ u = v THEN m ELSE map[d][u]
    BY <1>1, <1>2, <2>2 DEF TypeOK
  <2> QED
    BY ONLY <1>3, <2>3, <2>4 DEF Has, Perm
<1>5. ASSUME NEW d \in Envs, NEW u \in Addrs, Settled(d, u)
      PROVE  Settled(d, u)'
  BY ONLY <1>4, <1>5 DEF Settled, Perm
<1>6. ASSUME NEW d \in Envs, NEW u \in Addrs, Settled(d, u)', ~Settled(d, u)
      PROVE  d = c /\ u = v /\ map[d][u].page = map[e][v].page
  <2>1. PICK a \in Envs, w \in Addrs :
          <<a, w>> # <<d, u>> /\ map[a][w].page = map[d][u].page /\ Perm(a, w) = "w"
    BY <1>6 DEF Settled
  <2>2. a = e /\ w = v
    BY <1>4, <1>6, <2>1 DEF Settled, Perm
  <2> QED
    BY <1>2, <2>1, <2>2, Unsettled
<1>7. ASSUME NEW d \in Envs, NEW u \in Addrs, ~(d = c /\ u = v)
      PROVE  Sees(d, u)' = Sees(d, u)
  <2>1. /\ status'[d] = status[d] /\ content' = content
        /\ map'[d][u].page = map[d][u].page /\ (Has(d, u)' <=> Has(d, u))
        /\ Settled(d, u)' <=> Settled(d, u)
    BY <1>1, <1>4, <1>5, <1>6, <1>7
  <2> QED
    BY ONLY <2>1 DEF Sees
<1>8. \/ Sees(c, v)' = Sees(c, v)
      \/ Sees(c, v) = Nothing /\ Sees(c, v)' = content[map[e][v].page]
  BY <1>1, <1>2, <1>4, <1>5, <1>6 DEF Sees
<1>9. Memory' = Memory \/
      (Memory[c][v] = Nothing /\ Memory' = [Memory EXCEPT ![c][v] = content[map[e][v].page]])
  <2>1. CASE Sees(c, v)' = Sees(c, v)
    <3>1. \A d \in Envs, u \in Addrs : Sees(d, u)' = Sees(d, u)
      BY <1>7, <2>1
    <3> QED
      BY ONLY <3>1, MemoryIs
  <2>2. CASE Sees(c, v) = Nothing /\ Sees(c, v)' = content[map[e][v].page]
    <3>1. \A d \in Envs, u \in Addrs :
            Sees(d, u)' = IF d = c /\ u = v THEN content[map[e][v].page] ELSE Sees(d, u)
      BY <1>7, <2>2
    <3>2. Memory' = [Memory EXCEPT ![c][v] = content[map[e][v].page]]
      BY ONLY <3>1, MemoryIs
    <3>3. Memory[c][v] = Nothing
      BY <2>2, MemoryIs
    <3> QED
      BY <3>2, <3>3
  <2> QED
    BY <1>8, <2>1, <2>2
<1>10. e \in Running /\ Memory[e][v] = content[map[e][v].page] /\ c \notin Running /\ Running' = Running
  BY <1>1, <1>2, <1>3, MemoryIs DEF Running, Sees
<1> QED
  BY ONLY <1>9, <1>10, GiveIsAlone, c \in Envs, v \in Addrs DEF AloneStep

LEMMA SpawnGiveIsSeen ==
    ASSUME FInv, NEW e \in Envs, SpawnGive(e)
    PROVE  AloneStep
<1> USE DEF FInv
<1>1. /\ job[e].kind = "spawn" /\ job[e].step = "give"
      /\ map' = [map EXCEPT ![job[e].child][job[e].v] = Pte(job[e].page, Kind[job[e].v])]
      /\ UNCHANGED <<status, content>>
  BY DEF SpawnGive, Doing
<1>2. PICK c \in Envs, v \in Addrs : c = job[e].child /\ v = job[e].v /\ status[c] = "building" /\ c # e
  BY <1>1, Child
<1>3. SpawnAt(e)
  BY <1>1 DEF Spawning
<1>4. ~Has(c, v) /\ Kind[v] # "share" /\ job[e].page \in PagesOf(v)
  BY ONLY <1>1, <1>2, <1>3 DEF SpawnAt, Has
<1>5. PICK p \in Pages : p = job[e].page /\ p # NoPage
  BY <1>4, Constants
<1>6. \A d \in Envs : tmp[d] # p /\ \A u \in Addrs : map[d][u].page # p
  BY <1>5 DEF Apart
<1>7. content[p] = Fresh
  BY <1>6 DEF Unused
<1>8. PICK m : m = Pte(p, Kind[v])
  OBVIOUS
<1>9. m.page = p /\ m # Unmapped
  BY <1>5, <1>8 DEF Pte, Unmapped
<1>10. \A d \in Envs, u \in Addrs : map'[d][u] = IF d = c /\ u = v THEN m ELSE map[d][u]
  BY <1>1, <1>2, <1>5, <1>8 DEF TypeOK
<1>11. /\ Memory[c][v] = Nothing /\ Running' = Running /\ c \notin Running
       /\ Memory' = Memory \/ Memory' = [Memory EXCEPT ![c][v] = content[m.page]]
  <2>1. /\ ~Has(c, v) /\ status[c] # "running" /\ m # Unmapped
        /\ m.perm = "w" => \A d \in Envs, u \in Addrs : map[d][u].page # m.page
        /\ UNCHANGED <<status, content>>
    BY <1>1, <1>2, <1>4, <1>6, <1>9
  <2> QED
    BY ONLY FInv, <1>10, <2>1, ChildIsGiven
<1> QED
  BY ONLY <1>4, <1>7, <1>9, <1>11, GiveIsAlone, c \in Envs, v \in Addrs

LEMMA SpawnShareIsSeen ==
    ASSUME FInv, NEW e \in Envs, SpawnShare(e)
    PROVE  AloneStep
<1> USE DEF FInv
<1>1. /\ job[e].kind = "spawn" /\ job[e].step = "share"
      /\ map' = IF Perm(e, job[e].v) = "share"
                THEN [map EXCEPT ![job[e].child][job[e].v] = map[e][job[e].v]] ELSE map
      /\ UNCHANGED <<status, content>>
  BY DEF SpawnShare, Doing
<1>2. PICK c \in Envs, v \in Addrs : c = job[e].child /\ v = job[e].v /\ status[c] = "building" /\ c # e
  BY <1>1, Child
<1>3. status[e] = "running" /\ Has(e, v) /\ SpawnAt(e)
  BY <1>1, <1>2, Child DEF Quiet, Spawning
<1>4. CASE Perm(e, v) # "share"
  <2>1. map' = map /\ status' = status /\ content' = content
    BY <1>1, <1>2, <1>4
  <2> QED
    BY <2>1, NothingSeen DEF AloneStep, TypeOK
<1>5. CASE Perm(e, v) = "share"
  <2>1. PICK m : m = map[e][v]
    OBVIOUS
  <2>2. m.page = map[e][v].page /\ m.perm # "w" /\ m # Unmapped /\ Kind[v] = "share"
    BY <1>3, <1>5, <2>1 DEF Perm, Has, Places
  <2>3. ~Has(c, v)
    <3>1. ~(v < v)
      BY Order
    <3> QED
      BY ONLY <1>1, <1>2, <1>3, <2>2, <3>1 DEF SpawnAt, Has
  <2>4. \A d \in Envs, u \in Addrs : map'[d][u] = IF d = c /\ u = v THEN m ELSE map[d][u]
    BY <1>1, <1>2, <1>5, <2>1 DEF TypeOK
  <2>5. /\ Memory[c][v] = Nothing /\ Running' = Running /\ c \notin Running
        /\ Memory' = Memory \/ Memory' = [Memory EXCEPT ![c][v] = content[m.page]]
    <3>1. /\ ~Has(c, v) /\ status[c] # "running" /\ m # Unmapped
          /\ m.perm = "w" => \A d \in Envs, u \in Addrs : map[d][u].page # m.page
          /\ UNCHANGED <<status, content>>
      BY <1>1, <1>2, <2>2, <2>3
    <3> QED
      BY ONLY FInv, <2>4, <3>1, ChildIsGiven
  <2>6. e \in Running /\ Memory[e][v] = content[m.page]
    BY <1>3, <2>2, MemoryIs DEF Running, Sees
  <2> QED
    BY ONLY <2>5, <2>6, GiveIsAlone, c \in Envs, v \in Addrs
<1> QED
  BY <1>4, <1>5

(* A child that is started has all of its memory. *)
LEMMA StartIsSeen ==
    ASSUME FInv, NEW e \in Envs, Start(e)
    PROVE  AloneStep
<1> USE DEF FInv
<1>1. /\ job[e].step = "start" /\ status' = [status EXCEPT ![job[e].child] = "running"]
      /\ UNCHANGED <<map, content>>
  BY DEF Start
<1>2. job[e].kind \in {"fork", "spawn"}
  <2>1. job[e] # NoJob
    BY <1>1 DEF NoJob, Job
  <2> QED
    BY <2>1 DEF Making, TypeOK, Jobs
<1>3. PICK c \in Envs :
        /\ c = job[e].child /\ status[c] = "building"
        /\ \A d \in Envs \ {e} : job[d].kind # "none" => job[d].child # c
  BY <1>2, Child
<1>4. \A u \in Addrs : Has(c, u)
  <2>1. CASE job[e].kind = "fork"
    <3>1. ForkAt(e)
      BY <2>1 DEF Forking
    <3> QED
      BY ONLY <1>1, <1>3, <3>1 DEF ForkAt, Has
  <2>2. CASE job[e].kind = "spawn"
    <3>1. SpawnAt(e)
      BY <2>2 DEF Spawning
    <3> QED
      BY ONLY <1>1, <1>3, <3>1 DEF SpawnAt, Has
  <2> QED
    BY <1>2, <2>1, <2>2
<1>5. \A u \in Addrs : Settled(c, u)
  <2> SUFFICES ASSUME NEW u \in Addrs, NEW a \in Envs, NEW w \in Addrs, <<a, w>> # <<c, u>>,
                      map[a][w].page = map[c][u].page, Perm(a, w) = "w"
               PROVE  FALSE
    BY DEF Settled
  <2>1. job[a].kind = "fork" /\ job[a].step = "own" /\ c = job[a].child
    BY Unsettled
  <2> QED
    BY <1>1, <1>3, <2>1
<1>6. /\ status'[c] = "running" /\ \A d \in Envs \ {c} : status'[d] = status[d]
  BY <1>1, <1>3 DEF TypeOK
<1>7. \A d \in Envs, u \in Addrs : (Settled(d, u)' <=> Settled(d, u)) /\ (Has(d, u)' <=> Has(d, u))
  BY <1>1 DEF Settled, Has, Perm
<1>8. \A d \in Envs, u \in Addrs : Sees(d, u)' = Sees(d, u)
  BY <1>1, <1>4, <1>5, <1>6, <1>7 DEF Sees
<1>9. Memory' = Memory
  BY ONLY <1>8, MemoryIs
<1>10. \A u \in Addrs : Memory[c][u] # Nothing
  BY <1>4, <1>5, PageUsed, MemoryIs DEF Sees
<1>11. Running' = Running \cup {c} /\ c \notin Running
  BY <1>3, <1>6 DEF Running
<1> QED
  BY ONLY <1>9, <1>10, <1>11, c \in Envs DEF AloneStep, Alone!Next, Alone!Start, Running

LEMMA GoneIsAlone ==
    ASSUME FInv, NEW c \in Envs, Gone(c), job[c] = NoJob, write[c] = 0
    PROVE  AloneStep
BY GoneIsSeen DEF AloneStep, Alone!Next, Alone!End, Running

LEMMA SpawnFailsIsSeen ==
    ASSUME FInv, NEW e \in Envs, SpawnFails(e)
    PROVE  AloneStep
<1>1. job[e].kind = "spawn"
  BY DEF SpawnFails, Doing
<1>2. PICK c \in Envs : c = job[e].child /\ status[c] = "building" /\ job[c] = NoJob
  BY <1>1, Child
<1>3. write[c] = 0
  BY <1>2 DEF FInv, Quiet
<1>4. CASE Gone(c)
  BY <1>2, <1>3, <1>4, GoneIsAlone
<1>5. CASE status' = [status EXCEPT ![c] = "left"] /\ UNCHANGED <<map, content>>
  <2>1. /\ \A d \in Envs : status'[d] = "running" <=> status[d] = "running"
        /\ status' \in [Envs -> {"free", "building", "left", "running"}]
    BY <1>2, <1>5 DEF FInv, TypeOK
  <2> QED
    BY <1>5, <2>1, NothingSeen DEF AloneStep
<1> QED
  BY <1>2, <1>4, <1>5 DEF SpawnFails

LEMMA InitIsAlone == Init => Alone!Init
<1> SUFFICES ASSUME Init PROVE Alone!Init
  OBVIOUS
<1>1. FInv
  BY InitFInv
<1>2. Running = {Root} /\ \A e \in Envs : status[e] = "running" <=> e = Root
  BY Constants DEF Init, Running
<1>3. \A e \in Envs, v \in Addrs : (e # Root => ~Has(e, v)) /\ (e = Root => Has(e, v))
  <2>1. \A e \in Envs \ {Root} : \A v \in Addrs : ~Has(e, v)
    BY DEF Init, Has
  <2>2. \A v \in Addrs : Has(Root, v)
    BY <1>1, <1>2, Constants DEF FInv, Quiet
  <2> QED
    BY ONLY <2>1, <2>2
<1>4. ASSUME NEW e \in Envs, NEW v \in Addrs
      PROVE  Sees(e, v) = IF e = Root THEN Fresh ELSE Nothing
  <2>1. CASE e = Root
    <3>1. content[map[e][v].page] = Fresh
      BY <1>1, <1>3, <2>1, PageUsed DEF Init
    <3> QED
      BY <1>2, <1>3, <2>1, <3>1 DEF Sees
  <2>2. CASE e # Root
    BY <1>3, <2>2 DEF Sees
  <2> QED
    BY <2>1, <2>2
<1>5. Memory = [d \in Envs |-> [v \in Addrs |-> IF d = Root THEN Fresh ELSE Nothing]]
  BY ONLY <1>4, MemoryIs
<1> QED
  BY ONLY <1>2, <1>5, Constants DEF Alone!Init, Running

(* Page faults of the parent are handled and leave all memories as they are. *)
LEMMA FaultIsAlone ==
    ASSUME FInv, NEW e \in Envs, NEW v \in Addrs, status[e] = "running", Perm(e, v) = "cow",
           Fault(e, v)
    PROVE  AloneStep
<1>1. UNCHANGED <<status, map, content>>
  BY FaultIsHandled
<1> QED
  BY <1>1, NothingSeen DEF AloneStep, FInv, TypeOK

LEMMA WorksIsAlone ==
    ASSUME FInv, NEW e \in Envs, Works(e)
    PROVE  AloneStep
<1>1. CASE FaultOnWrite(e)
  <2>1. write[e] \in Addrs /\ status[e] = "running" /\ Perm(e, write[e]) = "cow" /\ Fault(e, write[e])
    BY <1>1, Constants DEF FaultOnWrite, Trying, Runs, FInv, TypeOK
  <2> QED
    BY <2>1, FaultIsAlone
<1>2. CASE ReturnFaults(e)
  BY <1>2, FaultIsAlone, Constants DEF ReturnFaults, Handles, Runs
<1>3. CASE Return(e)
  BY <1>3, NothingSeen DEF Return, AloneStep, FInv, TypeOK
<1> QED
  BY <1>1, <1>2, <1>3, StoreIsSeen, HandleCopyIsSeen, HandleMapIsSeen DEF Works

LEMMA MakesIsAlone ==
    ASSUME FInv, NEW e \in Envs, Makes(e)
    PROVE  AloneStep
<1>1. CASE ReadPte(e) \/ AllocChildStack(e) \/ SetChildUpcall(e) \/ SpawnAlloc(e)
  <2>1. map' = map /\ status' = status /\ content' = content
    BY <1>1 DEF ReadPte, AllocChildStack, SetChildUpcall, SpawnAlloc, ForkPanic
  <2> QED
    BY <2>1, NothingSeen DEF AloneStep, FInv, TypeOK
<1> QED
  BY <1>1, DupChildIsSeen, DupOwnIsSeen, StartIsSeen, SpawnGiveIsSeen, SpawnFailsIsSeen, SpawnShareIsSeen
     DEF Makes

LEMMA NextIsAlone == FInv /\ [Next]_vars => AloneStep
<1> SUFFICES ASSUME FInv, [Next]_vars PROVE AloneStep
  OBVIOUS
<1>1. CASE UNCHANGED vars
  BY <1>1, NothingSeen DEF vars, AloneStep, FInv, TypeOK
<1>2. CASE Next
  <2>1. PICK e \in Envs :
          \/ Works(e) \/ Makes(e) \/ Exit(e)
          \/ \E v \in Addrs : BeginWrite(e, v)
          \/ \E c \in Envs : BeginFork(e, c) \/ BeginSpawn(e, c)
    BY <1>2, Zenon DEF Next
  <2>2. CASE Exit(e)
    BY <2>2, GoneIsAlone DEF Exit, Idle, Executes
  <2>3. CASE \E v \in Addrs : BeginWrite(e, v)
    BY <2>3, NothingSeen DEF BeginWrite, AloneStep, FInv, TypeOK
  <2>4. ASSUME NEW c \in Envs, BeginFork(e, c) \/ BeginSpawn(e, c)
        PROVE  AloneStep
    <3>1. /\ status[c] = "free" /\ status' = [status EXCEPT ![c] = "building"]
          /\ map' = map /\ content' = content
      BY <2>4 DEF BeginFork, BeginSpawn, FreeEnvs
    <3>2. /\ \A d \in Envs : status'[d] = "running" <=> status[d] = "running"
          /\ status' \in [Envs -> {"free", "building", "left", "running"}]
      BY <3>1 DEF FInv, TypeOK
    <3> QED
      BY <3>1, <3>2, NothingSeen DEF AloneStep
  <2> QED
    BY <2>1, <2>2, <2>3, <2>4, WorksIsAlone, MakesIsAlone
<1> QED
  BY <1>1, <1>2

(* fork() gives the child a copy of its parent's memory, and from then on  *)
(* a write is seen by its writer alone, or by all where the page is shared *)
(* (duppage() and pgfault() of lib/fork.c, copy_shared_pages() of          *)
(* lib/spawn.c).                                                           *)
THEOREM MemoryImplementation == Spec => ImplementsPrivateMemories
<1>1. AloneStep => [Alone!Next]_<<Memory, {e \in Envs : status[e] = "running"}>>
  BY DEF AloneStep, Running
<1> QED
  BY <1>1, AlwaysFInv, InitIsAlone, NextIsAlone, PTL DEF Spec, ImplementsPrivateMemories, Alone!Spec

-----------------------------------------------------------------------------
(* The file server *)

(* Counts *)

Refs(i) == {m \in Clients \X (1..MAXFD) : m[2] <= maps[m[1]][i]}

MapTypes == maps \in [Clients -> [Entries -> 0..MAXFD]]

LEMMA RefsCount ==
    ASSUME MapTypes, NEW i \in Entries
    PROVE  /\ IsFiniteSet(Refs(i)) /\ Cardinality(Refs(i)) \in Nat
           /\ Cardinality(Refs(i)) = 0 <=> \A c \in Clients : maps[c][i] = 0
<1>1. IsFiniteSet(Clients) /\ MAXFD \in Nat /\ MAXFD >= 1
  BY ServerAssumption
<1>2. IsFiniteSet(Clients \X (1..MAXFD))
  <2>1. IsFiniteSet(1..MAXFD)
    BY <1>1, FS_Interval
  <2> QED
    BY <1>1, <2>1, FS_Product
<1>3. IsFiniteSet(Refs(i)) /\ Cardinality(Refs(i)) \in Nat
  BY <1>2, FS_Subset, FS_CardinalityType DEF Refs
<1>4. Cardinality(Refs(i)) = 0 <=> Refs(i) = {}
  BY <1>3, FS_EmptySet
<1>5. ASSUME NEW c \in Clients, maps[c][i] # 0
      PROVE  Refs(i) # {}
  <2>1. maps[c][i] >= 1
    BY <1>1, <1>5 DEF MapTypes
  <2>2. <<c, 1>> \in Refs(i)
    BY <1>1, <2>1 DEF Refs
  <2> QED
    BY <2>2
<1>6. ASSUME \A c \in Clients : maps[c][i] = 0
      PROVE  Refs(i) = {}
  BY <1>6, <1>1 DEF Refs
<1> QED
  BY <1>3, <1>4, <1>5, <1>6

LEMMA PageRef ==
    ASSUME MapTypes, NEW i \in Entries, \A c \in Clients : maps[c][i] > 0 => i \in allocated
    PROVE  /\ Free(i) <=> \A c \in Clients : maps[c][i] = 0
           /\ pageref(i) > 1 <=> \E c \in Clients : maps[c][i] > 0
<1>1. {i} \cap allocated = (IF i \in allocated THEN {i} ELSE {})
  OBVIOUS
<1>2. Cardinality({i} \cap allocated) = IF i \in allocated THEN 1 ELSE 0
  BY <1>1, FS_EmptySet, FS_Singleton
<1>3. pageref(i) = Cardinality({i} \cap allocated) + Cardinality(Refs(i))
  BY DEF pageref, Refs
<1>4. /\ Cardinality(Refs(i)) \in Nat
      /\ Cardinality(Refs(i)) = 0 <=> \A c \in Clients : maps[c][i] = 0
  BY RefsCount
<1>5. \A c \in Clients : maps[c][i] \in Nat
  BY ServerAssumption DEF MapTypes
<1>6. CASE \A c \in Clients : maps[c][i] = 0
  <2>1. pageref(i) \in {0, 1}
    BY <1>2, <1>3, <1>4, <1>6
  <2> QED
    BY <1>6, <2>1 DEF Free
<1>7. CASE \E c \in Clients : maps[c][i] > 0
  <2>1. i \in allocated
    BY <1>7
  <2>2. Cardinality(Refs(i)) >= 1
    BY <1>4, <1>7
  <2>3. pageref(i) > 1 /\ pageref(i) \notin {0, 1}
    BY <1>2, <1>3, <1>4, <2>1, <2>2
  <2> QED
    BY <1>7, <2>3 DEF Free
<1> QED
  BY <1>5, <1>6, <1>7

(* A client that has fewer descriptors than it may have no more of one. *)
LEMMA Room ==
    ASSUME MapTypes, NEW c \in Clients, Fds(c) < MAXFD, NEW i \in Entries
    PROVE  maps[c][i] < MAXFD
<1>1. MAXFD \in Nat /\ MAXOPEN \in Nat
  BY ServerAssumption
<1> DEFINE D == {m \in Entries \X (1..MAXFD) : m[2] <= maps[c][m[1]]}
           A == {i} \X (1..MAXFD)
<1>2. IsFiniteSet(D)
  <2>1. IsFiniteSet(Entries) /\ IsFiniteSet(1..MAXFD)
    BY <1>1, FS_Interval DEF Entries
  <2>2. IsFiniteSet(Entries \X (1..MAXFD))
    BY <2>1, FS_Product
  <2> QED
    BY <2>2, FS_Subset
<1>3. Cardinality(A) = MAXFD
  <2>1. Cardinality(1..MAXFD) = MAXFD /\ IsFiniteSet(1..MAXFD)
    BY <1>1, FS_Interval
  <2>2. Cardinality({i}) = 1 /\ IsFiniteSet({i})
    BY FS_Singleton
  <2>3. Cardinality(A) = 1 * MAXFD
    <3>1. Cardinality(A) = Cardinality({i}) * Cardinality(1..MAXFD)
      BY ONLY <2>1, <2>2, FS_Product
    <3> QED
      BY ONLY <2>1, <2>2, <3>1
  <2> QED
    BY <1>1, <2>3
<1>4. ASSUME maps[c][i] = MAXFD
      PROVE  FALSE
  <2>1. A \subseteq D
    BY <1>1, <1>4
  <2>2. Cardinality(A) <= Cardinality(D)
    BY <1>2, <2>1, FS_Subset
  <2>3. Cardinality(D) = Fds(c) /\ Fds(c) \in Nat
    BY <1>2, FS_CardinalityType DEF Fds
  <2> HIDE DEF D, A
  <2> QED
    BY <1>1, <1>3, <2>2, <2>3
<1>5. maps[c][i] \in 0..MAXFD
  BY DEF MapTypes
<1> QED
  BY <1>1, <1>4, <1>5

-----------------------------------------------------------------------------
(* The invariant *)

(* Who is gone has no descriptors and asks for nothing. *)
Absent == \A c \in Clients \ alive : pc[c] = "idle" /\ \A i \in Entries : maps[c][i] = 0

(* What a client asks for: an open() that it has room for, or something    *)
(* about a descriptor that it has.                                         *)
Asked ==
    \A c \in Clients : pc[c] # "idle" =>
        /\ args[c] \in Requests
        /\ args[c].type = "open" => args[c].file \in Files /\ Fds(c) < MAXFD /\ pc[c] # "unmap"
        /\ args[c].type # "open" => /\ args[c].fd \in Entries /\ maps[c][args[c].fd] > 0
                                   /\ args[c].id = opens[args[c].fd]

(* What the server works on. *)
Working ==
    /\ spc \in {"scan", "fill", "lookup", "act", "reply"} => req \in Requests
    /\ spc \in {"scan", "fill"} => req.type = "open" /\ req.file \in Files
    /\ spc \in {"lookup", "act"} => req.type # "open" /\ req.fd \in Entries
    /\ spc \in {"fill", "act"} => o \in Entries
    /\ spc = "fill" \/ (spc = "reply" /\ Grants) => o \in allocated /\ fd_offset[o] = 0
    /\ spc = "reply" /\ Grants => o_file[o] \in Files /\ fd_id[o] = opens[o]

SInv == ServerTypeOK /\ ServesWhoWaits /\ DescriptorsAreOpen /\ Absent /\ Asked /\ Working

LEMMA FdsSame ==
    ASSUME NEW c \in Clients, maps'[c] = maps[c]
    PROVE  Fds(c)' = Fds(c)
BY DEF Fds

LEMMA InitSInv == ServerInit => SInv
<1> SUFFICES ASSUME ServerInit PROVE SInv
  OBVIOUS
<1> USE ServerAssumption DEF ServerInit
<1>1. ServerTypeOK
  BY DEF ServerTypeOK
<1>2. ServesWhoWaits /\ DescriptorsAreOpen /\ Absent /\ Asked /\ Working
  BY DEF ServesWhoWaits, DescriptorsAreOpen, Absent, Asked, Working
<1> QED
  BY <1>1, <1>2 DEF SInv

-----------------------------------------------------------------------------
(* The clients *)

LEMMA CallKeeps ==
    ASSUME SInv, NEW c \in Clients, NEW r \in Requests, Call(c, r),
           r.type = "open" => r.file \in Files /\ Fds(c) < MAXFD,
           r.type # "open" => r.fd \in Entries /\ maps[c][r.fd] > 0 /\ r.id = opens[r.fd]
    PROVE  SInv'
<1> USE DEF SInv
<1>1. /\ pc[c] = "idle" /\ c \in alive
      /\ args' = [args EXCEPT ![c] = r] /\ pc' = [pc EXCEPT ![c] = "send"]
      /\ UNCHANGED <<tabVars, pageVars, maps, alive, serverVars>>
  BY DEF Call, At, Goto
<1> USE DEF tabVars, pageVars, serverVars
<1>2. ServerTypeOK'
  BY <1>1 DEF ServerTypeOK
<1>3. ServesWhoWaits'
  BY <1>1 DEF ServesWhoWaits, ServerTypeOK
<1>4. DescriptorsAreOpen' /\ Working'
  BY <1>1 DEF DescriptorsAreOpen, Working, Grants
<1>5. Absent'
  BY <1>1 DEF Absent, ServerTypeOK
<1>6. Asked'
  <2>1. \A d \in Clients : Fds(d)' = Fds(d)
    BY <1>1, FdsSame
  <2> QED
    BY <1>1, <2>1 DEF Asked, ServerTypeOK
<1> QED
  BY <1>2, <1>3, <1>4, <1>5, <1>6

LEMMA CallOpenStep ==
    ASSUME SInv, NEW c \in Clients, CallOpen(c)
    PROVE  SInv'
<1> DEFINE r == [type |-> "open", file |-> FileOf[c], fd |-> None, id |-> 0]
<1>1. r \in Requests /\ r.type = "open" /\ r.file \in Files
  BY DEF Requests, Files
<1> HIDE DEF r
<1> QED
  BY <1>1, CallKeeps DEF CallOpen, r

LEMMA CallMoveStep ==
    ASSUME SInv, NEW c \in Clients, NEW i \in Entries, CallMove(c, i) \/ CallClose(c, i)
    PROVE  SInv'
<1>1. PICK r \in Requests :
        /\ Call(c, r) /\ r.type # "open" /\ r.fd = i /\ r.id = fd_id[i]
  BY DEF CallMove, CallClose, Requests, SInv, ServerTypeOK
<1>2. maps[c][i] > 0 /\ fd_id[i] = opens[i]
  BY DEF CallMove, CallClose, SInv, DescriptorsAreOpen
<1> QED
  BY <1>1, <1>2, CallKeeps

LEMMA UnmapStep ==
    ASSUME SInv, NEW c \in Clients, Unmap(c)
    PROVE  SInv'
<1> USE DEF SInv
<1>1. /\ pc[c] = "unmap" /\ c \in alive
      /\ args' = [args EXCEPT ![c] = None] /\ pc' = [pc EXCEPT ![c] = "idle"]
      /\ maps' = [maps EXCEPT ![c][args[c].fd] = @ - 1]
      /\ UNCHANGED <<tabVars, pageVars, alive, serverVars>>
  BY DEF Unmap, At, Goto
<1>2. PICK i \in Entries : i = args[c].fd /\ maps[c][i] > 0
  BY <1>1 DEF Asked
<1> USE DEF tabVars, pageVars, serverVars
<1>3. /\ maps' \in [Clients -> [Entries -> 0..MAXFD]]
      /\ \A d \in Clients \ {c} : maps'[d] = maps[d]
      /\ \A d \in Clients, k \in Entries : maps'[d][k] > 0 => maps[d][k] > 0
      /\ \A d \in Clients, k \in Entries : maps[d][k] = 0 => maps'[d][k] = 0
  BY <1>1, <1>2, ServerAssumption DEF ServerTypeOK
<1>4. ServerTypeOK'
  BY <1>1, <1>3 DEF ServerTypeOK
<1>5. ServesWhoWaits'
  BY <1>1 DEF ServesWhoWaits, ServerTypeOK
<1>6. DescriptorsAreOpen' /\ Working'
  <2>1. Working'
    BY <1>1 DEF Working, Grants
  <2>2. Grants' <=> Grants
    BY <1>1 DEF Grants
  <2>3. spc = "fill" \/ (spc = "reply" /\ Grants) => o \in Entries
    BY DEF Working, ServerTypeOK, Grants, Entries
  <2> QED
    BY <1>1, <1>3, <2>1, <2>2, <2>3 DEF DescriptorsAreOpen
<1>7. Absent'
  BY <1>1, <1>3 DEF Absent, ServerTypeOK
<1>8. Asked'
  <2>1. \A d \in Clients \ {c} : Fds(d)' = Fds(d)
    BY <1>3, FdsSame
  <2> QED
    BY <1>1, <1>3, <2>1 DEF Asked, ServerTypeOK
<1> QED
  BY <1>4, <1>5, <1>6, <1>7, <1>8

LEMMA WaitStep ==
    ASSUME SInv, NEW c \in Clients, Wait(c)
    PROVE  SInv'
<1> USE DEF SInv
<1>1. /\ pc[c] = "sent" /\ c \in alive /\ pc' = [pc EXCEPT ![c] = "wait"]
      /\ UNCHANGED <<tabVars, pageVars, maps, alive, args, serverVars>>
  BY DEF Wait, At, Goto
<1> USE DEF tabVars, pageVars, serverVars
<1>2. ServerTypeOK' /\ ServesWhoWaits' /\ Absent'
  BY <1>1 DEF ServerTypeOK, ServesWhoWaits, Absent
<1>3. DescriptorsAreOpen' /\ Working'
  BY <1>1 DEF DescriptorsAreOpen, Working, Grants
<1>4. Asked'
  <2>1. \A d \in Clients : Fds(d)' = Fds(d)
    BY <1>1, FdsSame
  <2> QED
    BY <1>1, <2>1 DEF Asked, ServerTypeOK
<1> QED
  BY <1>2, <1>3, <1>4

LEMMA SeekStep ==
    ASSUME SInv, NEW c \in Clients, NEW i \in Entries, Seek(c, i)
    PROVE  SInv'
<1> USE DEF SInv
<1>1. /\ maps[c][i] > 0 /\ fd_offset' = [fd_offset EXCEPT ![i] = 0]
      /\ UNCHANGED <<tabVars, fd_id, maps, clientVars, serverVars>>
  BY DEF Seek
<1> USE DEF tabVars, clientVars, serverVars
<1>2. ServerTypeOK' /\ ServesWhoWaits' /\ Absent'
  BY <1>1, ServerAssumption DEF ServerTypeOK, ServesWhoWaits, Absent
<1>3. DescriptorsAreOpen' /\ Working'
  BY <1>1 DEF DescriptorsAreOpen, Working, Grants, ServerTypeOK
<1>4. Asked'
  <2>1. \A d \in Clients : Fds(d)' = Fds(d)
    BY <1>1, FdsSame
  <2> QED
    BY <1>1, <2>1 DEF Asked, ServerTypeOK
<1> QED
  BY <1>2, <1>3, <1>4

(* What the server is about to give out is known to nobody. *)
LEMMA NobodyHas ==
    ASSUME SInv, spc = "fill" \/ (spc = "reply" /\ Grants)
    PROVE  o \in Entries /\ \A c \in Clients : maps[c][o] = 0
BY DEF SInv, DescriptorsAreOpen, Working, Grants, ServerTypeOK, Entries

LEMMA DupStep ==
    ASSUME SInv, NEW c \in Clients, NEW i \in Entries, Dup(c, i)
    PROVE  SInv'
<1> USE DEF SInv
<1>1. /\ pc[c] = "idle" /\ c \in alive /\ maps[c][i] > 0 /\ Fds(c) < MAXFD
      /\ maps' = [maps EXCEPT ![c][i] = @ + 1]
      /\ UNCHANGED <<tabVars, pageVars, clientVars, serverVars>>
  BY DEF Dup, At
<1> USE DEF tabVars, pageVars, clientVars, serverVars
<1>2. maps[c][i] < MAXFD
  BY <1>1, Room DEF MapTypes, ServerTypeOK
<1>3. /\ maps' \in [Clients -> [Entries -> 0..MAXFD]]
      /\ \A d \in Clients \ {c} : maps'[d] = maps[d]
      /\ \A d \in Clients, k \in Entries : maps'[d][k] > 0 <=> maps[d][k] > 0
  BY <1>1, <1>2, ServerAssumption DEF ServerTypeOK
<1>4. ServerTypeOK' /\ ServesWhoWaits'
  BY <1>1, <1>3 DEF ServerTypeOK, ServesWhoWaits
<1>5. Absent'
  BY <1>1, <1>3 DEF Absent
<1>6. DescriptorsAreOpen' /\ Working'
  <2>1. Working' /\ (Grants' <=> Grants)
    BY <1>1 DEF Working, Grants
  <2>2. \A d \in Clients, k \in Entries : maps[d][k] = 0 => maps'[d][k] = 0
    BY <1>1, <1>3
  <2> QED
    BY <1>1, <1>3, <2>1, <2>2, NobodyHas DEF DescriptorsAreOpen
<1>7. Asked'
  <2>1. \A d \in Clients \ {c} : Fds(d)' = Fds(d)
    BY <1>3, FdsSame
  <2> QED
    BY <1>1, <1>3, <2>1 DEF Asked, ServerTypeOK
<1> QED
  BY <1>4, <1>5, <1>6, <1>7

LEMMA ForkStep ==
    ASSUME SInv, NEW c \in Clients, NEW k \in Clients, Fork(c, k)
    PROVE  SInv'
<1> USE DEF SInv
<1>1. /\ pc[c] = "idle" /\ c \in alive /\ k \notin alive /\ alive' = alive \cup {k}
      /\ maps' = [maps EXCEPT ![k] = maps[c]]
      /\ UNCHANGED <<tabVars, pageVars, pc, args, serverVars>>
  BY DEF Fork, At
<1> USE DEF tabVars, pageVars, serverVars
<1>2. /\ maps' \in [Clients -> [Entries -> 0..MAXFD]]
      /\ \A d \in Clients \ {k} : maps'[d] = maps[d]
      /\ maps'[k] = maps[c] /\ pc[k] = "idle"
  BY <1>1 DEF ServerTypeOK, Absent
<1>3. ServerTypeOK' /\ ServesWhoWaits' /\ Absent'
  BY <1>1, <1>2 DEF ServerTypeOK, ServesWhoWaits, Absent
<1>4. DescriptorsAreOpen' /\ Working'
  <2>1. Working' /\ (Grants' <=> Grants)
    BY <1>1 DEF Working, Grants
  <2> QED
    BY <1>1, <1>2, <2>1, NobodyHas DEF DescriptorsAreOpen
<1>5. Asked'
  <2>1. \A d \in Clients \ {k} : Fds(d)' = Fds(d)
    BY <1>2, FdsSame
  <2> QED
    BY <1>1, <1>2, <2>1 DEF Asked
<1> QED
  BY <1>3, <1>4, <1>5

LEMMA DieStep ==
    ASSUME SInv, NEW c \in Clients, Die(c)
    PROVE  SInv'
<1> USE DEF SInv
<1>1. /\ alive' = alive \ {c} /\ maps' = [maps EXCEPT ![c] = [i \in Entries |-> 0]]
      /\ args' = [args EXCEPT ![c] = None] /\ pc' = [pc EXCEPT ![c] = "idle"]
      /\ whom' = (IF whom = c THEN None ELSE whom)
      /\ UNCHANGED <<tabVars, pageVars, spc, req, o>>
  BY DEF Die, Goto
<1> USE DEF tabVars, pageVars
<1>2. /\ maps' \in [Clients -> [Entries -> 0..MAXFD]]
      /\ \A d \in Clients \ {c} : maps'[d] = maps[d]
      /\ \A i \in Entries : maps'[c][i] = 0
      /\ pc'[c] = "idle" /\ \A d \in Clients \ {c} : pc'[d] = pc[d] /\ args'[d] = args[d]
  BY <1>1, ServerAssumption DEF ServerTypeOK
<1>3. ServerTypeOK'
  BY <1>1, <1>2 DEF ServerTypeOK
<1>4. ServesWhoWaits'
  BY <1>1, <1>2, ServerAssumption DEF ServesWhoWaits, ServerTypeOK
<1>5. Absent'
  BY <1>1, <1>2 DEF Absent
<1>6. DescriptorsAreOpen' /\ Working'
  <2>1. Working' /\ (Grants' <=> Grants)
    BY <1>1 DEF Working, Grants
  <2> QED
    BY <1>1, <1>2, <2>1, NobodyHas DEF DescriptorsAreOpen
<1>7. Asked'
  <2>1. \A d \in Clients \ {c} : Fds(d)' = Fds(d)
    BY <1>2, FdsSame
  <2> QED
    BY <1>1, <1>2, <2>1 DEF Asked
<1> QED
  BY <1>3, <1>4, <1>5, <1>6, <1>7

-----------------------------------------------------------------------------
(* The server *)

LEMMA ReceiveStep ==
    ASSUME SInv, NEW c \in Clients, Receive(c)
    PROVE  SInv'
<1> USE DEF SInv
<1>1. /\ pc[c] = "send" /\ c \in alive /\ spc = "recv"
      /\ spc' = (IF args[c].type = "open" THEN "scan" ELSE "lookup")
      /\ whom' = c /\ req' = args[c] /\ o' = 0 /\ pc' = [pc EXCEPT ![c] = "sent"]
      /\ UNCHANGED <<tabVars, pageVars, maps, alive, args>>
  BY DEF Receive, At, Goto, Server
<1> USE DEF tabVars, pageVars
<1>2. args[c] \in Requests /\ 0 \in 0..MAXOPEN
  BY <1>1, ServerAssumption DEF Asked
<1>3. ServerTypeOK' /\ Absent'
  BY <1>1, <1>2 DEF ServerTypeOK, Absent
<1>4. ServesWhoWaits'
  BY <1>1, ServerAssumption DEF ServesWhoWaits, ServerTypeOK
<1>5. DescriptorsAreOpen'
  BY <1>1 DEF DescriptorsAreOpen
<1>6. Working'
  BY <1>1, <1>2 DEF Working, Asked
<1>7. Asked'
  <2>1. \A d \in Clients : Fds(d)' = Fds(d)
    BY <1>1, FdsSame
  <2> QED
    BY <1>1, <2>1 DEF Asked, ServerTypeOK
<1> QED
  BY <1>3, <1>4, <1>5, <1>6, <1>7

LEMMA ScanStep ==
    ASSUME SInv, Scan
    PROVE  SInv'
<1> USE DEF SInv
<1>1. spc = "scan" /\ o \in Entries /\ UNCHANGED <<o_file, maps, clientVars, whom, req>>
  BY ServerAssumption DEF Scan, ServerTypeOK, Entries
<1> USE DEF clientVars
<1>2. \A d \in Clients : Fds(d)' = Fds(d)
  BY <1>1, FdsSame
<1>3. CASE ~Free(o) /\ o' = o + 1 /\ UNCHANGED <<spc, opens, allocated, pageVars>>
  <2> USE DEF pageVars
  <2>1. o' \in 0..MAXOPEN
    BY <1>1, <1>3, ServerAssumption DEF Entries
  <2>2. ServerTypeOK' /\ ServesWhoWaits' /\ Absent' /\ DescriptorsAreOpen'
    BY <1>1, <1>3, <2>1 DEF ServerTypeOK, ServesWhoWaits, Absent, DescriptorsAreOpen
  <2>3. Working' /\ Asked'
    BY <1>1, <1>2, <1>3 DEF Working, Asked
  <2> QED
    BY <2>2, <2>3
<1>4. CASE /\ Free(o) /\ allocated' = allocated \cup {o} /\ opens' = [opens EXCEPT ![o] = @ + 1]
           /\ fd_id' = [fd_id EXCEPT ![o] = 0] /\ fd_offset' = Cleared(o)
           /\ spc' = "fill" /\ UNCHANGED o
  <2>1. \A c \in Clients : maps[c][o] = 0
    BY <1>1, <1>4, PageRef DEF MapTypes, ServerTypeOK, DescriptorsAreOpen
  <2>2. ServerTypeOK' /\ ServesWhoWaits' /\ Absent'
    <3>1. /\ opens' \in [Entries -> Nat] /\ fd_id' \in [Entries -> Nat]
          /\ fd_offset' \in [Entries -> 0..MaxOffset] /\ allocated' \subseteq Entries
      <4>1. 0 \in 0..MaxOffset /\ 0 \in Nat /\ opens[o] + 1 \in Nat
        BY <1>1, ServerAssumption DEF ServerTypeOK
      <4>2. opens' \in [Entries -> Nat]
        BY <1>1, <1>4, <4>1 DEF ServerTypeOK
      <4>3. fd_id' \in [Entries -> Nat] /\ fd_offset' \in [Entries -> 0..MaxOffset]
        BY <1>1, <1>4, <4>1 DEF ServerTypeOK, Cleared
      <4> QED
        BY <1>1, <1>4, <4>2, <4>3 DEF ServerTypeOK
    <3>2. ServerTypeOK'
      BY <1>1, <1>4, <3>1 DEF ServerTypeOK
    <3>3. ServesWhoWaits' /\ Absent'
      BY <1>1, <1>4 DEF ServesWhoWaits, Absent
    <3> QED
      BY <3>2, <3>3
  <2>3. DescriptorsAreOpen'
    BY <1>1, <1>4, <2>1 DEF DescriptorsAreOpen, ServerTypeOK
  <2>4. Working'
    BY <1>1, <1>4 DEF Working, Cleared, ServerTypeOK
  <2>5. Asked'
    BY <1>1, <1>2, <1>4, <2>1 DEF Asked, ServerTypeOK
  <2> QED
    BY <2>2, <2>3, <2>4, <2>5
<1> QED
  BY <1>3, <1>4 DEF Scan

LEMMA ScanFailsStep ==
    ASSUME SInv, ScanFails
    PROVE  SInv'
<1> USE DEF SInv
<1>1. /\ spc = "scan" /\ spc' = "reply" /\ o = MAXOPEN
      /\ UNCHANGED <<tabVars, pageVars, maps, clientVars, whom, req, o>>
  BY DEF ScanFails, Server
<1> USE DEF tabVars, pageVars, clientVars
<1>2. \A d \in Clients : Fds(d)' = Fds(d)
  BY <1>1, FdsSame
<1>3. ServerTypeOK' /\ ServesWhoWaits' /\ Absent'
  BY <1>1 DEF ServerTypeOK, ServesWhoWaits, Absent
<1>4. DescriptorsAreOpen' /\ Working' /\ Asked'
  BY <1>1, <1>2 DEF DescriptorsAreOpen, Working, Asked, Grants
<1> QED
  BY <1>3, <1>4

LEMMA FillStep ==
    ASSUME SInv, Fill
    PROVE  SInv'
<1> USE DEF SInv
<1>1. /\ spc = "fill" /\ spc' = "reply"
      /\ \/ /\ o_file' = [o_file EXCEPT ![o] = req.file]
            /\ fd_id' = [fd_id EXCEPT ![o] = opens[o]] /\ UNCHANGED o
         \/ o' = MAXOPEN /\ UNCHANGED <<o_file, fd_id>>
      /\ UNCHANGED <<opens, allocated, fd_offset, maps, clientVars, whom, req>>
  BY DEF Fill, Server
<1> USE DEF clientVars
<1>2. /\ o \in Entries /\ \A c \in Clients : maps[c][o] = 0
      /\ req \in Requests /\ req.type = "open" /\ req.file \in Files /\ o \in allocated
      /\ fd_offset[o] = 0
  BY <1>1, NobodyHas DEF Working
<1>3. \A d \in Clients : Fds(d)' = Fds(d)
  BY <1>1, FdsSame
<1>4. ServerTypeOK' /\ ServesWhoWaits' /\ Absent'
  BY <1>1, <1>2, ServerAssumption DEF ServerTypeOK, ServesWhoWaits, Absent
<1>5. DescriptorsAreOpen'
  BY <1>1, <1>2 DEF DescriptorsAreOpen, ServerTypeOK, Grants
<1>6. Working'
  BY <1>1, <1>2 DEF Working, Grants, ServerTypeOK
<1>7. Asked'
  BY <1>1, <1>3 DEF Asked
<1> QED
  BY <1>4, <1>5, <1>6, <1>7

(* A request of a client that lives is about a descriptor that it has. *)
LEMMA Finds == SInv => NeverRefused
<1> SUFFICES ASSUME SInv, spc = "lookup", whom # None PROVE Known(req.fd)
  BY DEF NeverRefused
<1> USE DEF SInv
<1>1. whom \in Clients /\ req = args[whom] /\ pc[whom] # "idle" /\ req.type # "open"
  BY DEF ServerTypeOK, ServesWhoWaits, Working
<1>2. req.fd \in Entries /\ maps[whom][req.fd] > 0 /\ req.id = opens[req.fd]
  BY <1>1 DEF Asked
<1>3. pageref(req.fd) > 1
  BY <1>1, <1>2, PageRef DEF MapTypes, ServerTypeOK, DescriptorsAreOpen
<1> QED
  BY <1>2, <1>3 DEF Known

LEMMA LookupStep ==
    ASSUME SInv, Lookup
    PROVE  SInv'
<1> USE DEF SInv
<1>1. /\ spc = "lookup" /\ spc' = (IF Known(req.fd) THEN "act" ELSE "reply")
      /\ o' = (IF Known(req.fd) THEN req.fd ELSE MAXOPEN)
      /\ UNCHANGED <<tabVars, pageVars, maps, clientVars, whom, req>>
  BY DEF Lookup, Server
<1> USE DEF tabVars, pageVars, clientVars
<1>2. req \in Requests /\ req.type # "open" /\ req.fd \in Entries
  BY <1>1 DEF Working
<1>3. \A d \in Clients : Fds(d)' = Fds(d)
  BY <1>1, FdsSame
<1>4. ServerTypeOK' /\ ServesWhoWaits' /\ Absent'
  BY <1>1, <1>2, ServerAssumption DEF ServerTypeOK, ServesWhoWaits, Absent, Entries
<1>5. DescriptorsAreOpen' /\ Working' /\ Asked'
  BY <1>1, <1>2, <1>3 DEF DescriptorsAreOpen, Working, Asked, Grants
<1> QED
  BY <1>4, <1>5

LEMMA ActStep ==
    ASSUME SInv, NEW n \in 0..1, Act(n)
    PROVE  SInv'
<1> USE DEF SInv
<1>1. /\ spc = "act" /\ spc' = "reply" /\ fd_offset[o] + n <= MaxOffset
      /\ fd_offset' = [fd_offset EXCEPT ![o] = @ + n]
      /\ UNCHANGED <<tabVars, fd_id, maps, clientVars, whom, req, o>>
  BY DEF Act, Server
<1> USE DEF tabVars, clientVars
<1>2. req \in Requests /\ req.type # "open" /\ o \in Entries
  BY <1>1 DEF Working
<1>3. \A d \in Clients : Fds(d)' = Fds(d)
  BY <1>1, FdsSame
<1>4. ServerTypeOK' /\ ServesWhoWaits' /\ Absent'
  BY <1>1, <1>2, ServerAssumption DEF ServerTypeOK, ServesWhoWaits, Absent
<1>5. DescriptorsAreOpen' /\ Working' /\ Asked'
  BY <1>1, <1>2, <1>3 DEF DescriptorsAreOpen, Working, Asked, Grants
<1> QED
  BY <1>4, <1>5

LEMMA ReplyStep ==
    ASSUME SInv, Reply
    PROVE  SInv'
<1> USE DEF SInv
<1>1. /\ spc = "reply" /\ spc' = "recv" /\ whom # None /\ pc[whom] = "wait" /\ maps' = Maps
      /\ IF req.type = "flush"
         THEN pc' = [pc EXCEPT ![whom] = "unmap"] /\ UNCHANGED args
         ELSE pc' = [pc EXCEPT ![whom] = "idle"] /\ args' = [args EXCEPT ![whom] = None]
      /\ whom' = None /\ req' = None /\ o' = 0
      /\ UNCHANGED <<tabVars, pageVars, alive>>
  BY DEF Reply, Server, Answers, Goto
<1> USE DEF tabVars, pageVars
<1>2. PICK c \in Clients : c = whom
  BY <1>1 DEF ServerTypeOK
<1>3. /\ c \in alive /\ req = args[c] /\ req \in Requests /\ 0 \in 0..MAXOPEN
      /\ req.type = "open" => Fds(c) < MAXFD
      /\ req.type # "open" => req.fd \in Entries /\ maps[c][req.fd] > 0 /\ req.id = opens[req.fd]
  BY <1>1, <1>2, ServerAssumption DEF Absent, ServesWhoWaits, Asked
<1>4. /\ maps' \in [Clients -> [Entries -> 0..MAXFD]]
      /\ \A d \in Clients \ {c} : maps'[d] = maps[d]
      /\ \A i \in Entries : maps'[c][i] > 0 => maps[c][i] > 0 \/ (Grants /\ i = o)
      /\ ~Grants => maps' = maps
  <2>1. CASE Grants
    <3>1. maps' = [maps EXCEPT ![c][o] = @ + 1] /\ o \in Entries /\ req.type = "open"
      BY <1>1, <1>2, <2>1, NobodyHas DEF Maps, Grants
    <3>2. maps[c][o] < MAXFD
      BY <1>3, <3>1, Room DEF MapTypes, ServerTypeOK
    <3> QED
      BY <2>1, <3>1, <3>2, ServerAssumption DEF ServerTypeOK
  <2>2. CASE ~Grants
    BY <1>1, <2>2 DEF Maps, ServerTypeOK
  <2> QED
    BY <2>1, <2>2
<1>5. ServerTypeOK'
  BY <1>1, <1>2, <1>3, <1>4 DEF ServerTypeOK
<1>6. ServesWhoWaits'
  BY <1>1, <1>2 DEF ServesWhoWaits, ServerTypeOK
<1>7. DescriptorsAreOpen'
  <2>1. Grants => o \in allocated /\ o_file[o] # None /\ fd_id[o] = opens[o]
    BY <1>1, ServerAssumption DEF Working
  <2> QED
    BY <1>1, <1>4, <2>1 DEF DescriptorsAreOpen
<1>8. Absent'
  BY <1>1, <1>2, <1>3, <1>4 DEF Absent, ServerTypeOK
<1>9. Working'
  BY <1>1 DEF Working
<1>10. Asked'
  <2>1. \A d \in Clients \ {c} : Fds(d)' = Fds(d)
    BY <1>4, FdsSame
  <2>2. \A d \in Clients \ {c} : pc'[d] = pc[d] /\ args'[d] = args[d]
    BY <1>1, <1>2 DEF ServerTypeOK
  <2>3. pc'[c] # "idle" => /\ req.type = "flush" /\ args'[c] = req /\ maps'[c] = maps[c]
    BY <1>1, <1>2, <1>3, <1>4 DEF ServerTypeOK, Grants
  <2> QED
    BY <1>1, <1>3, <1>4, <2>1, <2>2, <2>3 DEF Asked
<1> QED
  BY <1>5, <1>6, <1>7, <1>8, <1>9, <1>10

LEMMA PanicStep ==
    ASSUME SInv, Panic
    PROVE  SInv'
<1> USE DEF SInv
<1>1. /\ spc = "reply" /\ spc' = "panicked" /\ whom = None /\ req' = None /\ o' = 0
      /\ UNCHANGED <<tabVars, pageVars, maps, clientVars, whom>>
  BY DEF Panic, Server
<1> USE DEF tabVars, pageVars, clientVars
<1>2. \A d \in Clients : Fds(d)' = Fds(d)
  BY <1>1, FdsSame
<1>3. ServerTypeOK' /\ ServesWhoWaits' /\ Absent'
  BY <1>1, ServerAssumption DEF ServerTypeOK, ServesWhoWaits, Absent
<1>4. DescriptorsAreOpen' /\ Working' /\ Asked'
  BY <1>1, <1>2 DEF DescriptorsAreOpen, Working, Asked
<1> QED
  BY <1>3, <1>4

LEMMA NextSInv == SInv /\ [ServerNext]_allVars => SInv'
<1> SUFFICES ASSUME SInv, [ServerNext]_allVars PROVE SInv'
  OBVIOUS
<1>1. CASE UNCHANGED allVars
  <2> USE DEF allVars, tabVars, pageVars, clientVars, serverVars
  <2>1. \A d \in Clients : Fds(d)' = Fds(d)
    BY <1>1, FdsSame
  <2>2. ServerTypeOK' /\ ServesWhoWaits' /\ Absent'
    BY <1>1 DEF SInv, ServerTypeOK, ServesWhoWaits, Absent
  <2>3. DescriptorsAreOpen' /\ Working' /\ Asked'
    BY <1>1, <2>1 DEF SInv, DescriptorsAreOpen, Working, Asked, Grants
  <2> QED
    BY <2>2, <2>3 DEF SInv
<1>2. ASSUME NEW c \in Clients,
             \/ CallOpen(c)
             \/ \E i \in Entries : CallMove(c, i) \/ CallClose(c, i) \/ Seek(c, i) \/ Dup(c, i)
             \/ Unmap(c) \/ Wait(c) \/ Die(c)
             \/ \E k \in Clients : Fork(c, k)
      PROVE  SInv'
  BY <1>2, CallOpenStep, CallMoveStep, SeekStep, DupStep, UnmapStep, WaitStep, DieStep, ForkStep
<1>3. CASE Serve
  BY <1>3, ReceiveStep, ScanStep, ScanFailsStep, FillStep, LookupStep, ActStep, ReplyStep,
     PanicStep DEF Serve
<1> QED
  BY <1>1, <1>2, <1>3 DEF ServerNext

(* The server answers the one that waits, every descriptor a client holds  *)
(* is of an open file of the table, and no request with a descriptor that  *)
(* is held is refused (fs/serv.c, lib/file.c).                             *)
THEOREM ServerInvariance == ServerSpec => []ServerIInv
<1>1. SInv => ServerIInv
  BY Finds DEF ServerIInv, SInv
<1> QED
  BY <1>1, InitSInv, NextSInv, PTL DEF ServerSpec

-----------------------------------------------------------------------------
(* What the open files of the abstract specification are *)

HoldsMap  == [c \in Clients |-> [id \in OpenIds |-> Holds(c, id)]]
FileMap   == [id \in OpenIds |-> IF Held(id) THEN o_file[id[1]] ELSE None]
OffsetMap == [id \in OpenIds |-> IF Held(id) THEN fd_offset[id[1]] ELSE 0]

LEMMA Ids ==
    ASSUME SInv, NEW id \in OpenIds
    PROVE  /\ id[1] \in Entries /\ id[2] \in 1..MaxOpens /\ id = <<id[1], id[2]>>
           /\ \A c \in Clients : Holds(c, id) \in Nat /\ maps[c][id[1]] \in Nat
           /\ Held(id) <=> opens[id[1]] = id[2] /\ \E c \in Clients : maps[c][id[1]] > 0
<1>1. id[1] \in Entries /\ id[2] \in 1..MaxOpens /\ id = <<id[1], id[2]>>
  BY DEF OpenIds
<1>2. \A c \in Clients : maps[c][id[1]] \in Nat
  BY <1>1, ServerAssumption DEF SInv, ServerTypeOK
<1> QED
  BY <1>1, <1>2 DEF Holds, Held

(* A change of an entry that nobody has is not seen. *)
LEMMA Unseen ==
    ASSUME SInv, maps' = maps,
           \A i \in Entries : (\E c \in Clients : maps[c][i] > 0) =>
               opens'[i] = opens[i] /\ o_file'[i] = o_file[i] /\ fd_offset'[i] = fd_offset[i]
    PROVE  UNCHANGED Abstract!ovars
<1>1. ASSUME NEW id \in OpenIds
      PROVE  /\ \A c \in Clients : Holds(c, id)' = Holds(c, id)
             /\ Held(id)' = Held(id)
             /\ Held(id) => o_file'[id[1]] = o_file[id[1]] /\ fd_offset'[id[1]] = fd_offset[id[1]]
  <2>1. \A c \in Clients : Holds(c, id)' = Holds(c, id)
    BY Ids DEF Holds
  <2>2. Held(id)' = Held(id)
    BY <2>1 DEF Held
  <2> QED
    BY <2>1, <2>2, Ids
<1>2. UNCHANGED HoldsMap
  BY <1>1 DEF HoldsMap
<1>3. UNCHANGED <<FileMap, OffsetMap>>
  BY <1>1 DEF FileMap, OffsetMap
<1> QED
  BY <1>2, <1>3 DEF Abstract!ovars, HoldsMap, FileMap, OffsetMap

(* An entry given out more often than the bound has no abstract name. *)
LEMMA Unnamed ==
    ASSUME SInv, NEW i \in Entries, <<i, opens[i]>> \notin OpenIds,
           UNCHANGED <<opens, o_file>>,
           \A k \in Entries \ {i} : /\ fd_offset'[k] = fd_offset[k]
                                   /\ \A c \in Clients : maps'[c][k] = maps[c][k]
    PROVE  UNCHANGED Abstract!ovars
<1>1. ASSUME NEW id \in OpenIds
      PROVE  /\ \A c \in Clients : Holds(c, id)' = Holds(c, id)
             /\ Held(id)' = Held(id)
             /\ Held(id) => o_file'[id[1]] = o_file[id[1]] /\ fd_offset'[id[1]] = fd_offset[id[1]]
  <2>1. \A c \in Clients : Holds(c, id)' = Holds(c, id)
    BY Ids DEF Holds
  <2>2. Held(id)' = Held(id)
    BY <2>1 DEF Held
  <2> QED
    BY <2>1, <2>2, Ids
<1>2. UNCHANGED HoldsMap
  BY <1>1 DEF HoldsMap
<1>3. UNCHANGED <<FileMap, OffsetMap>>
  BY <1>1 DEF FileMap, OffsetMap
<1> QED
  BY <1>2, <1>3 DEF Abstract!ovars, HoldsMap, FileMap, OffsetMap

(* The step Drop in these terms. *)
LEMMA DropForm ==
    ASSUME NEW c \in Clients,
           \/ HoldsMap' = [HoldsMap EXCEPT ![c] = [id \in OpenIds |-> 0]]
           \/ \E id \in OpenIds : /\ HoldsMap[c][id] > 0
                                  /\ HoldsMap' = [HoldsMap EXCEPT ![c][id] = @ - 1],
           \A m \in OpenIds : (\E d \in Clients : HoldsMap'[d][m] > 0) <=> Held(m)',
           FileMap' = [m \in OpenIds |-> IF Held(m)' THEN FileMap[m] ELSE None],
           OffsetMap' = [m \in OpenIds |-> IF Held(m)' THEN OffsetMap[m] ELSE 0]
    PROVE  Abstract!Drop
<1> DEFINE kept(id) == \E d \in Clients : HoldsMap'[d][id] > 0
<1>1. FileMap' = [m \in OpenIds |-> IF kept(m) THEN FileMap[m] ELSE None]
  OBVIOUS
<1>2. OffsetMap' = [m \in OpenIds |-> IF kept(m) THEN OffsetMap[m] ELSE 0]
  OBVIOUS
<1>3. \E d \in Clients :
        \/ HoldsMap' = [HoldsMap EXCEPT ![d] = [id \in OpenIds |-> 0]]
        \/ \E id \in OpenIds : /\ HoldsMap[d][id] > 0
                               /\ HoldsMap' = [HoldsMap EXCEPT ![d][id] = @ - 1]
  OBVIOUS
<1> QED
  BY <1>1, <1>2, <1>3, Zenon DEF Abstract!Drop, HoldsMap, FileMap, OffsetMap

LEMMA UnmapDrops ==
    ASSUME SInv, NEW c \in Clients, Unmap(c)
    PROVE  Abstract!Next
<1>1. /\ pc[c] = "unmap" /\ maps' = [maps EXCEPT ![c][args[c].fd] = @ - 1]
      /\ UNCHANGED <<opens, o_file, fd_offset>>
  BY DEF Unmap, At, tabVars, pageVars
<1>2. PICK i \in Entries : i = args[c].fd /\ maps[c][i] > 0
  BY <1>1 DEF SInv, Asked
<1>3. \A d \in Clients, k \in Entries :
        maps'[d][k] = IF d = c /\ k = i THEN maps[d][k] - 1 ELSE maps[d][k]
  BY <1>1, <1>2 DEF SInv, ServerTypeOK
<1>4. CASE <<i, opens[i]>> \notin OpenIds
  BY <1>1, <1>3, <1>4, Unnamed DEF Abstract!Next
<1>5. CASE <<i, opens[i]>> \in OpenIds
  <2>1. PICK id \in OpenIds : id = <<i, opens[i]>>
    BY <1>5
  <2>2. \A d \in Clients, m \in OpenIds :
          Holds(d, m)' = IF d = c /\ m = id THEN Holds(d, m) - 1 ELSE Holds(d, m)
    BY <1>1, <1>3, <2>1, Ids DEF Holds
  <2>3. Holds(c, id) > 0
    BY <1>2, <2>1 DEF Holds
  <2>4. \A m \in OpenIds : Held(m)' => Held(m)
    BY <2>2, <2>3 DEF Held
  <2>5. HoldsMap' = [HoldsMap EXCEPT ![c][id] = @ - 1] /\ HoldsMap[c][id] > 0
    BY <2>2, <2>3 DEF HoldsMap
  <2>6. \A m \in OpenIds : (\E d \in Clients : HoldsMap'[d][m] > 0) <=> Held(m)'
    BY DEF HoldsMap, Held
  <2>7. /\ FileMap' = [m \in OpenIds |-> IF Held(m)' THEN FileMap[m] ELSE None]
        /\ OffsetMap' = [m \in OpenIds |-> IF Held(m)' THEN OffsetMap[m] ELSE 0]
    BY <1>1, <2>4 DEF FileMap, OffsetMap
  <2>8. Abstract!Drop
    BY <2>5, <2>6, <2>7, DropForm
  <2> QED
    BY <2>8 DEF Abstract!Next
<1> QED
  BY <1>4, <1>5

LEMMA DieDrops ==
    ASSUME SInv, NEW c \in Clients, Die(c)
    PROVE  Abstract!Next
<1>1. /\ maps' = [maps EXCEPT ![c] = [i \in Entries |-> 0]]
      /\ UNCHANGED <<opens, o_file, fd_offset>>
  BY DEF Die, tabVars, pageVars
<1>2. \A d \in Clients, k \in Entries : maps'[d][k] = IF d = c THEN 0 ELSE maps[d][k]
  BY <1>1 DEF SInv, ServerTypeOK
<1>3. \A d \in Clients, m \in OpenIds : Holds(d, m)' = IF d = c THEN 0 ELSE Holds(d, m)
  BY <1>1, <1>2, Ids DEF Holds
<1>4. \A m \in OpenIds : Held(m)' => Held(m)
  BY <1>3 DEF Held
<1>5. HoldsMap' = [HoldsMap EXCEPT ![c] = [m \in OpenIds |-> 0]]
  BY <1>3 DEF HoldsMap
<1>6. \A m \in OpenIds : (\E d \in Clients : HoldsMap'[d][m] > 0) <=> Held(m)'
  BY DEF HoldsMap, Held
<1>7. /\ FileMap' = [m \in OpenIds |-> IF Held(m)' THEN FileMap[m] ELSE None]
      /\ OffsetMap' = [m \in OpenIds |-> IF Held(m)' THEN OffsetMap[m] ELSE 0]
  BY <1>1, <1>4 DEF FileMap, OffsetMap
<1>8. Abstract!Drop
  BY <1>5, <1>6, <1>7, DropForm
<1> QED
  BY <1>8 DEF Abstract!Next

LEMMA DupDups ==
    ASSUME SInv, NEW c \in Clients, NEW i \in Entries, Dup(c, i)
    PROVE  Abstract!Next
<1>1. /\ maps[c][i] > 0 /\ maps' = [maps EXCEPT ![c][i] = @ + 1]
      /\ UNCHANGED <<opens, o_file, fd_offset>>
  BY DEF Dup, tabVars, pageVars
<1>2. \A d \in Clients, k \in Entries :
        maps'[d][k] = IF d = c /\ k = i THEN maps[d][k] + 1 ELSE maps[d][k]
  BY <1>1 DEF SInv, ServerTypeOK
<1>3. CASE <<i, opens[i]>> \notin OpenIds
  BY <1>1, <1>2, <1>3, Unnamed DEF Abstract!Next
<1>4. CASE <<i, opens[i]>> \in OpenIds
  <2>1. PICK id \in OpenIds : id = <<i, opens[i]>>
    BY <1>4
  <2>2. \A d \in Clients, m \in OpenIds :
          Holds(d, m)' = IF d = c /\ m = id THEN Holds(d, m) + 1 ELSE Holds(d, m)
    BY <1>1, <1>2, <2>1, Ids DEF Holds
  <2>3. Holds(c, id) > 0 /\ \A d \in Clients, m \in OpenIds : Holds(d, m) \in Nat
    BY <1>1, <2>1, Ids DEF Holds
  <2>4. \A m \in OpenIds : Held(m)' = Held(m)
    BY <2>2, <2>3 DEF Held
  <2>5. HoldsMap' = [HoldsMap EXCEPT ![c][id] = @ + 1] /\ HoldsMap[c][id] > 0
    BY <2>2, <2>3 DEF HoldsMap
  <2>6. UNCHANGED <<FileMap, OffsetMap>>
    BY <1>1, <2>4 DEF FileMap, OffsetMap
  <2>7. Abstract!Dup(c, id)
    BY <2>5, <2>6 DEF Abstract!Dup, HoldsMap, FileMap, OffsetMap
  <2> QED
    BY <2>7 DEF Abstract!Next
<1> QED
  BY <1>3, <1>4

LEMMA ForkForks ==
    ASSUME SInv, NEW c \in Clients, NEW k \in Clients, Fork(c, k)
    PROVE  Abstract!Next
<1>1. /\ k \notin alive /\ maps' = [maps EXCEPT ![k] = maps[c]]
      /\ UNCHANGED <<opens, o_file, fd_offset>>
  BY DEF Fork, tabVars, pageVars
<1>2. \A d \in Clients, i \in Entries : maps'[d][i] = IF d = k THEN maps[c][i] ELSE maps[d][i]
  BY <1>1 DEF SInv, ServerTypeOK
<1>3. \A d \in Clients, m \in OpenIds : Holds(d, m)' = IF d = k THEN Holds(c, m) ELSE Holds(d, m)
  BY <1>1, <1>2, Ids DEF Holds
<1>4. \A m \in OpenIds : Holds(k, m) = 0
  BY <1>1, Ids DEF Holds, SInv, Absent
<1>5. \A m \in OpenIds : Held(m)' = Held(m)
  BY <1>3, <1>4 DEF Held
<1>6. HoldsMap' = [HoldsMap EXCEPT ![k] = HoldsMap[c]]
  BY <1>3 DEF HoldsMap
<1>7. UNCHANGED <<FileMap, OffsetMap>>
  BY <1>1, <1>5 DEF FileMap, OffsetMap
<1>8. Abstract!Fork(c, k)
  BY <1>6, <1>7 DEF Abstract!Fork, HoldsMap, FileMap, OffsetMap
<1> QED
  BY <1>8 DEF Abstract!Next

(* A new offset of an entry that somebody has. *)
LEMMA OffsetMoves ==
    ASSUME SInv, NEW i \in Entries, NEW n \in Nat, NEW c \in Clients, maps[c][i] > 0,
           fd_offset' = [fd_offset EXCEPT ![i] = n], UNCHANGED <<opens, o_file, maps>>
    PROVE  \/ UNCHANGED Abstract!ovars
           \/ \E id \in OpenIds : /\ Abstract!Held(id) /\ id[1] = i
                                  /\ OffsetMap[id] = fd_offset[i]
                                  /\ OffsetMap' = [OffsetMap EXCEPT ![id] = n]
                                  /\ UNCHANGED <<FileMap, HoldsMap>>
<1>1. \A k \in Entries : fd_offset'[k] = IF k = i THEN n ELSE fd_offset[k]
  BY DEF SInv, ServerTypeOK
<1>2. CASE <<i, opens[i]>> \notin OpenIds
  BY <1>1, <1>2, Unnamed
<1>3. CASE <<i, opens[i]>> \in OpenIds
  <2>1. PICK id \in OpenIds : id = <<i, opens[i]>>
    BY <1>3
  <2>2. UNCHANGED HoldsMap /\ \A m \in OpenIds : Held(m)' = Held(m)
    BY DEF HoldsMap, Holds, Held
  <2>3. UNCHANGED FileMap
    BY <2>2 DEF FileMap
  <2>4. Held(id) /\ Abstract!Held(id)
    BY <2>1, Ids DEF Held, Abstract!Held
  <2>5. \A m \in OpenIds : Held(m) /\ m # id => m[1] # i
    BY <2>1, Ids
  <2>6. OffsetMap[id] = fd_offset[i]
    BY <2>1, <2>4 DEF OffsetMap
  <2>7. OffsetMap' = [OffsetMap EXCEPT ![id] = n]
    <3>1. ASSUME NEW m \in OpenIds
          PROVE  OffsetMap'[m] = IF m = id THEN n ELSE OffsetMap[m]
      <4>1. OffsetMap'[m] = IF Held(m) THEN fd_offset'[m[1]] ELSE 0
        BY <2>2 DEF OffsetMap
      <4>2. OffsetMap[m] = IF Held(m) THEN fd_offset[m[1]] ELSE 0
        BY DEF OffsetMap
      <4> QED
        BY <1>1, <2>1, <2>4, <2>5, <4>1, <4>2, Ids
    <3> QED
      BY <3>1 DEF OffsetMap
  <2> QED
    BY <2>1, <2>2, <2>3, <2>4, <2>6, <2>7
<1> QED
  BY <1>2, <1>3

LEMMA SeekSeeks ==
    ASSUME SInv, NEW c \in Clients, NEW i \in Entries, Seek(c, i)
    PROVE  Abstract!Next
<1>1. /\ maps[c][i] > 0 /\ fd_offset' = [fd_offset EXCEPT ![i] = 0]
      /\ UNCHANGED <<opens, o_file, maps>>
  BY DEF Seek, tabVars
<1>2. \/ UNCHANGED Abstract!ovars
      \/ \E id \in OpenIds : /\ Abstract!Held(id)
                             /\ OffsetMap' = [OffsetMap EXCEPT ![id] = 0]
                             /\ UNCHANGED <<FileMap, HoldsMap>>
  BY <1>1, OffsetMoves
<1>3. ASSUME NEW id \in OpenIds, Abstract!Held(id),
             OffsetMap' = [OffsetMap EXCEPT ![id] = 0], UNCHANGED <<FileMap, HoldsMap>>
      PROVE  Abstract!Seek(id)
  BY <1>3 DEF Abstract!Seek, OffsetMap, FileMap, HoldsMap
<1> QED
  BY <1>2, <1>3 DEF Abstract!Next

LEMMA ActMoves ==
    ASSUME SInv, NEW n \in 0..1, Act(n)
    PROVE  Abstract!Next
<1>1. /\ spc = "act" /\ fd_offset' = [fd_offset EXCEPT ![o] = @ + n]
      /\ UNCHANGED <<opens, o_file, maps>>
  BY DEF Act, Server, tabVars
<1>2. o \in Entries /\ fd_offset[o] \in Nat
  BY <1>1, ServerAssumption DEF SInv, Working, ServerTypeOK
<1>3. CASE \A c \in Clients : ~(maps[c][o] > 0)
  <2>1. \A i \in Entries \ {o} : fd_offset'[i] = fd_offset[i]
    BY <1>1 DEF SInv, ServerTypeOK
  <2> QED
    BY <1>1, <1>3, <2>1, Unseen DEF Abstract!Next
<1>4. ASSUME NEW c \in Clients, maps[c][o] > 0
      PROVE  Abstract!Next
  <2>1. \/ UNCHANGED Abstract!ovars
        \/ \E id \in OpenIds : /\ Abstract!Held(id)
                               /\ OffsetMap[id] = fd_offset[o]
                               /\ OffsetMap' = [OffsetMap EXCEPT ![id] = fd_offset[o] + n]
                               /\ UNCHANGED <<FileMap, HoldsMap>>
    <3>1. fd_offset[o] + n \in Nat /\ fd_offset' = [fd_offset EXCEPT ![o] = fd_offset[o] + n]
      BY <1>1, <1>2
    <3> QED
      BY <1>1, <1>2, <1>4, <3>1, OffsetMoves
  <2>2. ASSUME NEW id \in OpenIds, Abstract!Held(id), OffsetMap[id] = fd_offset[o],
               OffsetMap' = [OffsetMap EXCEPT ![id] = fd_offset[o] + n],
               UNCHANGED <<FileMap, HoldsMap>>
        PROVE  Abstract!Move(id, n)
    <3>1. OffsetMap' = [OffsetMap EXCEPT ![id] = @ + n]
      BY <2>2
    <3> QED
      BY <2>2, <3>1 DEF Abstract!Move, OffsetMap, FileMap, HoldsMap
  <2> QED
    BY <2>1, <2>2 DEF Abstract!Next
<1> QED
  BY <1>3, <1>4

LEMMA ReplyOpens ==
    ASSUME SInv, Reply
    PROVE  Abstract!Next
<1>1. /\ spc = "reply" /\ whom # None /\ maps' = Maps
      /\ UNCHANGED <<opens, o_file, fd_offset>>
  BY DEF Reply, Server, Answers, tabVars, pageVars
<1>2. CASE ~Grants
  BY <1>1, <1>2, Unseen DEF Maps, Abstract!Next
<1>3. CASE Grants
  <2>1. PICK c \in Clients : c = whom
    BY <1>1 DEF SInv, ServerTypeOK
  <2>2. o \in Entries /\ \A d \in Clients : maps[d][o] = 0
    BY <1>1, <1>3, NobodyHas
  <2>3. o_file[o] \in Files /\ fd_offset[o] = 0
    BY <1>1, <1>3 DEF SInv, Working
  <2>4. \A d \in Clients, k \in Entries :
          maps'[d][k] = IF d = c /\ k = o THEN maps[d][k] + 1 ELSE maps[d][k]
    BY <1>1, <1>3, <2>1, <2>2 DEF Maps, SInv, ServerTypeOK
  <2>5. CASE <<o, opens[o]>> \notin OpenIds
    BY <1>1, <2>2, <2>4, <2>5, Unnamed DEF Abstract!Next
  <2>6. CASE <<o, opens[o]>> \in OpenIds
    <3>1. PICK id \in OpenIds : id = <<o, opens[o]>>
      BY <2>6
    <3>2. \A d \in Clients, m \in OpenIds :
            Holds(d, m)' = IF d = c /\ m = id THEN 1 ELSE Holds(d, m)
      BY <1>1, <2>2, <2>4, <3>1, Ids DEF Holds
    <3>3. \A d \in Clients : Holds(d, id) = 0
      BY <2>2, <3>1 DEF Holds
    <3>4. /\ ~Held(id) /\ Held(id)' /\ \A m \in OpenIds \ {id} : Held(m)' = Held(m)
      BY <3>2, <3>3 DEF Held
    <3>5. HoldsMap' = [HoldsMap EXCEPT ![c][id] = 1]
      BY <3>2 DEF HoldsMap
    <3>6. ~Abstract!Held(id)
      BY <3>3 DEF Abstract!Held
    <3>7. \A m \in OpenIds :
            /\ FileMap'[m] = IF m = id THEN o_file[o] ELSE FileMap[m]
            /\ OffsetMap'[m] = IF m = id THEN 0 ELSE OffsetMap[m]
      <4>1. \A m \in OpenIds : /\ FileMap'[m] = IF Held(m)' THEN o_file[m[1]] ELSE None
                              /\ OffsetMap'[m] = IF Held(m)' THEN fd_offset[m[1]] ELSE 0
        BY <1>1 DEF FileMap, OffsetMap
      <4>2. \A m \in OpenIds : /\ FileMap[m] = IF Held(m) THEN o_file[m[1]] ELSE None
                              /\ OffsetMap[m] = IF Held(m) THEN fd_offset[m[1]] ELSE 0
        BY DEF FileMap, OffsetMap
      <4> QED
        BY <2>3, <3>1, <3>4, <4>1, <4>2
    <3>8. FileMap' = [FileMap EXCEPT ![id] = o_file[o]]
      BY <3>7 DEF FileMap
    <3>9. OffsetMap' = [OffsetMap EXCEPT ![id] = 0]
      BY <3>7 DEF OffsetMap
    <3>10. PICK f \in Files : f = o_file[o]
      BY <2>3
    <3>11. Abstract!Open(c, id, f)
      BY <3>5, <3>6, <3>8, <3>9, <3>10 DEF Abstract!Open, HoldsMap, FileMap, OffsetMap
    <3> QED
      BY <3>11 DEF Abstract!Next
  <2> QED
    BY <2>5, <2>6
<1> QED
  BY <1>2, <1>3

(* Scan and Fill change an entry that nobody has. *)
LEMMA NotYetSeen ==
    ASSUME SInv, Scan \/ Fill
    PROVE  UNCHANGED Abstract!ovars
<1>1. o \in Entries /\ maps' = maps
  BY NobodyHas, ServerAssumption DEF Scan, Fill, Server, SInv, ServerTypeOK, Entries
<1>2. \A i \in Entries \ {o} :
        opens'[i] = opens[i] /\ o_file'[i] = o_file[i] /\ fd_offset'[i] = fd_offset[i]
  BY <1>1 DEF Scan, Fill, Cleared, pageVars, SInv, ServerTypeOK
<1>3. \/ \A c \in Clients : maps[c][o] = 0
      \/ UNCHANGED <<opens, o_file, fd_offset>>
  <2>1. CASE Fill
    BY <2>1, NobodyHas DEF Fill, Server
  <2>2. CASE Scan /\ Free(o)
    BY <1>1, <2>2, PageRef DEF MapTypes, SInv, ServerTypeOK, DescriptorsAreOpen
  <2>3. CASE Scan /\ ~Free(o)
    BY <2>3 DEF Scan, pageVars
  <2> QED
    BY <2>1, <2>2, <2>3
<1> QED
  BY <1>1, <1>2, <1>3, Unseen

LEMMA StepImplements == SInv /\ [ServerNext]_allVars => Abstract!Next
<1> SUFFICES ASSUME SInv, [ServerNext]_allVars PROVE Abstract!Next
  OBVIOUS
<1>1. CASE UNCHANGED <<opens, o_file, fd_offset, maps>>
  BY <1>1, Unseen DEF Abstract!Next
<1>2. CASE UNCHANGED allVars
  BY <1>1, <1>2 DEF allVars, tabVars, pageVars
<1>3. CASE \E c \in Clients : \/ CallOpen(c) \/ Wait(c) \/ Receive(c)
                              \/ \E i \in Entries : CallMove(c, i) \/ CallClose(c, i)
  BY <1>1, <1>3 DEF CallOpen, CallMove, CallClose, Call, Wait, Receive, tabVars, pageVars
<1>4. CASE ScanFails \/ Lookup \/ Panic
  BY <1>1, <1>4 DEF ScanFails, Lookup, Panic, tabVars, pageVars
<1>5. CASE Scan \/ Fill
  BY <1>5, NotYetSeen DEF Abstract!Next
<1> QED
  BY <1>2, <1>3, <1>4, <1>5, UnmapDrops, DieDrops, DupDups, ForkForks, SeekSeeks, ActMoves,
     ReplyOpens DEF ServerNext, Serve

LEMMA InitImplements == ServerInit => Abstract!Init
<1> SUFFICES ASSUME ServerInit PROVE Abstract!Init
  OBVIOUS
<1>1. \A c \in Clients, id \in OpenIds : Holds(c, id) = 0
  BY DEF ServerInit, Holds, OpenIds
<1>2. \A id \in OpenIds : ~Held(id)
  BY <1>1 DEF Held
<1> QED
  BY <1>1, <1>2 DEF Abstract!Init

(* An open file stays the same file with one offset for all that share its *)
(* descriptor, and its entry of the table is given to another only when    *)
(* nobody holds it: openfile_alloc() of fs/serv.c goes by page references. *)
THEOREM ServerImplementation == ServerSpec => ImplementsOpenFiles
<1>1. SInv /\ [ServerNext]_allVars => [Abstract!Next]_(Abstract!ovars)
  BY StepImplements
<1> QED
  BY <1>1, InitSInv, NextSInv, InitImplements, PTL DEF ServerSpec, ImplementsOpenFiles, Abstract!Spec
=================================================================================
