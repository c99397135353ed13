------------------------------- MODULE PMapProofs -------------------------------
(***************************************************************************)
(* Theorems about module PMap, for any number of processors, environments, *)
(* addresses and pages.                                                    *)
(***************************************************************************)
EXTENDS PMap, FiniteSetTheorems, TLAPS

-----------------------------------------------------------------------------
(* Words and the pages they refer to *)

(* The words of f, a function from words to pages, that refer to p. *)
Refs(f, p) == {x \in Words : f[x] = p}

LEMMA WordsFinite == IsFiniteSet(Words)
<1>1. IsFiniteSet(VAs \cup Dirs)
  BY WordsAssumption, FS_Union
<1>2. IsFiniteSet({Root})
  BY FS_Singleton
<1>3. IsFiniteSet(Entries)
  BY <1>1, <1>2, FS_Union DEF Entries
<1> QED
  BY <1>3, EnvsAssumption, FS_Product DEF Words

LEMMA RefsFinite ==
    ASSUME NEW f, NEW p
    PROVE  IsFiniteSet(Refs(f, p)) /\ Cardinality(Refs(f, p)) \in Nat
<1>1. Refs(f, p) \in SUBSET Words
  BY DEF Refs
<1> QED
  BY <1>1, WordsFinite, FS_Subset, FS_CardinalityType

LEMMA RefsEmpty ==
    ASSUME NEW f, NEW p
    PROVE  Cardinality(Refs(f, p)) = 0 <=> Refs(f, p) = {}
BY RefsFinite, FS_EmptySet

LEMMA RefsSet ==
    ASSUME NEW f \in [Words -> Pages \cup {NoPage}], NEW x \in Words, f[x] = NoPage,
           NEW p \in Pages
    PROVE  LET g == [f EXCEPT ![x] = p]
           IN  /\ Cardinality(Refs(g, p)) = Cardinality(Refs(f, p)) + 1
               /\ Refs(g, p) # {}
               /\ \A q \in Pages \ {p} : Refs(g, q) = Refs(f, q)
<1> DEFINE g == [f EXCEPT ![x] = p]
<1>1. x \notin Refs(f, p) /\ Refs(g, p) = Refs(f, p) \cup {x}
  BY PagesAssumption DEF Refs
<1>2. Cardinality(Refs(f, p) \cup {x}) = Cardinality(Refs(f, p)) + 1
  BY <1>1, RefsFinite, FS_AddElement
<1>3. \A q \in Pages \ {p} : Refs(g, q) = Refs(f, q)
  BY PagesAssumption DEF Refs
<1> QED
  BY <1>1, <1>2, <1>3

LEMMA RefsClear ==
    ASSUME NEW f \in [Words -> Pages \cup {NoPage}], NEW x \in Words, f[x] # NoPage
    PROVE  LET g == [f EXCEPT ![x] = NoPage]
           IN  /\ Cardinality(Refs(g, f[x])) = Cardinality(Refs(f, f[x])) - 1
               /\ Refs(f, f[x]) # {}
               /\ \A q \in Pages \ {f[x]} : Refs(g, q) = Refs(f, q)
<1> DEFINE g == [f EXCEPT ![x] = NoPage]
<1>1. x \in Refs(f, f[x]) /\ Refs(g, f[x]) = Refs(f, f[x]) \ {x}
  BY DEF Refs
<1>2. Cardinality(Refs(f, f[x]) \ {x}) = Cardinality(Refs(f, f[x])) - 1
  BY <1>1, RefsFinite, FS_RemoveElement
<1>3. \A q \in Pages \ {f[x]} : Refs(g, q) = Refs(f, q)
  BY PagesAssumption DEF Refs
<1> QED
  BY <1>1, <1>2, <1>3

(* Below RefLimit a count is the number itself. *)
LEMMA NoWrap ==
    ASSUME NEW n \in Nat, n < RefLimit
    PROVE  n % RefLimit = n
BY RefAssumption

-----------------------------------------------------------------------------
(* The operations of kern/pmap.c *)

Memory == [ref   : [Pages -> 0..RefLimit-1],
           free  : SUBSET Pages,
           entry : [Words -> Pages \cup {NoPage}]]

(* Counts and free pages are exact, but for the pages that the kernel      *)
(* holds in a variable: those of A it has allocated, those of C it has     *)
(* counted already, and no word refers to them on its behalf yet.          *)
Exact(m, A, C) ==
    /\ \A p \in Pages \ {0} :
          m.ref[p] = Cardinality(Refs(m.entry, p)) + (IF p \in C THEN 1 ELSE 0)
    /\ m.free = {p \in Pages \ {0} : Refs(m.entry, p) = {} /\ p \notin A \cup C}

(* page_alloc() *)
LEMMA TakeExact ==
    ASSUME NEW m \in Memory, NEW A, Exact(m, A, {}), NEW p \in m.free
    PROVE  /\ PageAlloc(m, p) \in Memory
           /\ PageAlloc(m, p).entry = m.entry
           /\ Exact(PageAlloc(m, p), A \cup {p}, {})
           /\ p \in Pages \ {0} /\ p \notin A /\ Refs(m.entry, p) = {}
<1>1. /\ PageAlloc(m, p) \in Memory
      /\ PageAlloc(m, p).entry = m.entry
      /\ PageAlloc(m, p).ref = m.ref
      /\ PageAlloc(m, p).free = m.free \ {p}
  BY DEF Memory, PageAlloc
<1> QED
  BY <1>1 DEF Exact

(* pp_ref++ *)
LEMMA CountExact ==
    ASSUME NEW m \in Memory, NEW A, Exact(m, A, {}), NEW p \in Pages \ {0},
           p \in A \/ Refs(m.entry, p) # {},
           Cardinality(Refs(m.entry, p)) + 1 < RefLimit
    PROVE  /\ Count(m, p) \in Memory
           /\ Count(m, p).entry = m.entry
           /\ Exact(Count(m, p), A \ {p}, {p})
<1>1. m.ref[p] = Cardinality(Refs(m.entry, p)) /\ m.ref[p] \in Nat
  BY RefsFinite DEF Exact
<1>2. Up(m.ref[p]) = m.ref[p] + 1 /\ Up(m.ref[p]) \in 0..RefLimit-1
  <2>1. m.ref[p] + 1 \in Nat /\ m.ref[p] + 1 < RefLimit
    BY <1>1
  <2> QED
    BY <2>1, NoWrap, RefAssumption DEF Up
<1>3. /\ Count(m, p).ref = [m.ref EXCEPT ![p] = Up(m.ref[p])]
      /\ Count(m, p).entry = m.entry
      /\ Count(m, p).free = m.free
      /\ Count(m, p) \in Memory
  BY <1>2 DEF Count, Memory
<1>4. m.ref \in [Pages -> 0..RefLimit-1]
  BY DEF Memory
<1> HIDE DEF Count
<1>5. \A q \in Pages \ {0} :
        Count(m, p).ref[q] = Cardinality(Refs(m.entry, q)) + (IF q \in {p} THEN 1 ELSE 0)
  BY <1>1, <1>2, <1>3, <1>4, RefsFinite DEF Exact
<1>6. m.free = {q \in Pages \ {0} : Refs(m.entry, q) = {} /\ q \notin (A \ {p}) \cup {p}}
  BY DEF Exact
<1> QED
  BY <1>3, <1>5, <1>6 DEF Exact

(* The word x gets the page that was counted. *)
LEMMA StoreExact ==
    ASSUME NEW m \in Memory, NEW A, NEW p \in Pages \ {0}, Exact(m, A, {p}),
           NEW x \in Words, m.entry[x] = NoPage
    PROVE  /\ Store(m, x, p) \in Memory
           /\ Store(m, x, p).entry = [m.entry EXCEPT ![x] = p]
           /\ Exact(Store(m, x, p), A, {})
<1> DEFINE w == Store(m, x, p)
<1>1. /\ w \in Memory
      /\ w.entry = [m.entry EXCEPT ![x] = p]
      /\ w.ref = m.ref /\ w.free = m.free
  BY DEF Memory, Store
<1>2. m.entry \in [Words -> Pages \cup {NoPage}]
  BY DEF Memory
<1> HIDE DEF w
<1>3. /\ Cardinality(Refs(w.entry, p)) = Cardinality(Refs(m.entry, p)) + 1
      /\ Refs(w.entry, p) # {}
      /\ \A q \in Pages \ {p} : Refs(w.entry, q) = Refs(m.entry, q)
  BY <1>1, <1>2, RefsSet
<1>4. \A q \in Pages \ {0} : w.ref[q] = Cardinality(Refs(w.entry, q)) + (IF q \in {} THEN 1 ELSE 0)
  BY <1>1, <1>3, RefsFinite DEF Exact
<1>5. w.free = {q \in Pages \ {0} : Refs(w.entry, q) = {} /\ q \notin A \cup {}}
  BY <1>1, <1>3 DEF Exact
<1> QED
  BY <1>1, <1>4, <1>5 DEF Exact, w

(* Refer() on a page just allocated. *)
LEMMA AllocateAndStore ==
    ASSUME NEW m \in Memory, NEW A, Exact(m, A, {}), NEW p \in m.free,
           NEW x \in Words, m.entry[x] = NoPage
    PROVE  /\ Refer(PageAlloc(m, p), x, p) \in Memory
           /\ Refer(PageAlloc(m, p), x, p).entry = [m.entry EXCEPT ![x] = p]
           /\ Exact(Refer(PageAlloc(m, p), x, p), A, {})
<1> DEFINE a == PageAlloc(m, p)
           c == Count(a, p)
<1>1. /\ a \in Memory /\ a.entry = m.entry
      /\ Exact(a, A \cup {p}, {})
      /\ p \in Pages \ {0} /\ p \notin A /\ Refs(m.entry, p) = {}
  BY TakeExact
<1> HIDE DEF a
<1>2. Cardinality(Refs(a.entry, p)) + 1 < RefLimit
  BY <1>1, RefsEmpty, RefAssumption
<1>3. c \in Memory /\ c.entry = m.entry /\ Exact(c, (A \cup {p}) \ {p}, {p})
  BY <1>1, <1>2, CountExact
<1>4. (A \cup {p}) \ {p} = A
  BY <1>1
<1>5. Refer(a, x, p) = Store(c, x, p)
  BY DEF Refer
<1> HIDE DEF c
<1>6. Exact(c, A, {p}) /\ c.entry[x] = NoPage
  BY <1>3, <1>4
<1>7. /\ Store(c, x, p) \in Memory
      /\ Store(c, x, p).entry = [c.entry EXCEPT ![x] = p]
      /\ Exact(Store(c, x, p), A, {})
  BY <1>1, <1>3, <1>6, StoreExact
<1> QED
  BY <1>3, <1>5, <1>7 DEF a

(* pgdir_walk() with create *)
LEMMA Walk ==
    ASSUME NEW m \in Memory, NEW A, Exact(m, A, {}), NEW e \in Envs, NEW va \in VAs,
           NEW w \in PgdirWalk(m, e, va)
    PROVE  /\ w \in Memory /\ Exact(w, A, {})
           /\ \/ m.entry[<<e, PDX[va]>>] # NoPage /\ w = m
              \/ /\ m.entry[<<e, PDX[va]>>] = NoPage
                 /\ \E t \in Pages \ {0} :
                       /\ t \notin A /\ Refs(m.entry, t) = {}
                       /\ w.entry = [m.entry EXCEPT ![<<e, PDX[va]>>] = t]
<1>1. CASE m.entry[<<e, PDX[va]>>] # NoPage
  BY <1>1 DEF PgdirWalk
<1>2. CASE m.entry[<<e, PDX[va]>>] = NoPage
  <2>1. PICK t \in m.free : w = Refer(PageAlloc(m, t), <<e, PDX[va]>>, t)
    BY <1>2 DEF PgdirWalk
  <2>2. t \in m.free
    BY <2>1
  <2>3. <<e, PDX[va]>> \in Words
    BY WordsAssumption DEF Words, Entries
  <2>4. t \in Pages \ {0} /\ t \notin A /\ Refs(m.entry, t) = {}
    BY <2>2, TakeExact
  <2>5. /\ w \in Memory
        /\ w.entry = [m.entry EXCEPT ![<<e, PDX[va]>>] = t]
        /\ Exact(w, A, {})
    BY <1>2, <2>1, <2>2, <2>3, AllocateAndStore
  <2> QED
    BY <1>2, <2>4, <2>5
<1> QED
  BY <1>1, <1>2

(* page_remove() *)
LEMMA RemoveExact ==
    ASSUME NEW m \in Memory, NEW C, Exact(m, {}, C), NEW x \in Words, m.entry[x] # 0
    PROVE  /\ PageRemove(m, x) \in Memory
           /\ PageRemove(m, x).entry = [m.entry EXCEPT ![x] = NoPage]
           /\ Exact(PageRemove(m, x), {}, C)
<1> DEFINE w == PageRemove(m, x)
           p == m.entry[x]
<1>1. m.entry \in [Words -> Pages \cup {NoPage}] /\ m.ref \in [Pages -> 0..RefLimit-1]
  BY DEF Memory
<1>2. CASE p = NoPage
  <2>1. w = m /\ m.entry = [m.entry EXCEPT ![x] = NoPage]
    BY <1>1, <1>2 DEF PageRemove
  <2> QED
    BY <2>1
<1>3. CASE p # NoPage
  <2>1. p \in Pages \ {0}
    BY <1>1, <1>3
  <2> DEFINE g == [m.entry EXCEPT ![x] = NoPage]
  <2>2. /\ Cardinality(Refs(g, p)) = Cardinality(Refs(m.entry, p)) - 1
        /\ Refs(m.entry, p) # {}
        /\ \A q \in Pages \ {p} : Refs(g, q) = Refs(m.entry, q)
    BY <1>1, <1>3, RefsClear
  <2>3. Cardinality(Refs(g, p)) \in Nat /\ Cardinality(Refs(m.entry, p)) \in Nat
    BY RefsFinite
  <2>4. m.ref[p] = Cardinality(Refs(m.entry, p)) + (IF p \in C THEN 1 ELSE 0)
    BY <2>1 DEF Exact
  <2>5. Down(m.ref[p], 1) = m.ref[p] - 1 /\ Down(m.ref[p], 1) \in 0..RefLimit-1
    <3>1. m.ref[p] - 1 \in Nat /\ m.ref[p] - 1 < RefLimit
      BY <1>1, <2>1, <2>2, <2>3, <2>4, RefAssumption
    <3> QED
      BY <3>1, NoWrap, RefAssumption DEF Down
  <2>6. /\ w \in Memory
        /\ w.entry = g
        /\ w.ref = [m.ref EXCEPT ![p] = Down(m.ref[p], 1)]
        /\ w.free = IF Down(m.ref[p], 1) = 0 THEN m.free \cup {p} ELSE m.free
    <3> DEFINE d == PageDecref(m, p)
    <3>1. /\ d \in Memory
          /\ d.entry = m.entry
          /\ d.ref = [m.ref EXCEPT ![p] = Down(m.ref[p], 1)]
          /\ d.free = IF Down(m.ref[p], 1) = 0 THEN m.free \cup {p} ELSE m.free
      BY <2>1, <2>5 DEF PageDecref, Memory
    <3> HIDE DEF d
    <3>2. /\ Store(d, x, NoPage) \in Memory
          /\ Store(d, x, NoPage).entry = [d.entry EXCEPT ![x] = NoPage]
          /\ Store(d, x, NoPage).ref = d.ref
          /\ Store(d, x, NoPage).free = d.free
      BY <3>1 DEF Store, Memory
    <3>3. w = Store(d, x, NoPage)
      BY <1>3 DEF PageRemove, d
    <3> QED
      BY <3>1, <3>2, <3>3
  <2> HIDE DEF w, g
  <2>7. \A q \in Pages \ {0} : w.ref[q] = Cardinality(Refs(g, q)) + (IF q \in C THEN 1 ELSE 0)
    BY <1>1, <2>1, <2>2, <2>3, <2>4, <2>5, <2>6 DEF Exact
  <2>8. Down(m.ref[p], 1) = 0 <=> Refs(g, p) = {} /\ p \notin C
    BY <2>2, <2>3, <2>4, <2>5, RefsEmpty
  <2>9. p \notin m.free
    BY <2>2 DEF Exact
  <2>10. w.free = {q \in Pages \ {0} : Refs(g, q) = {} /\ q \notin {} \cup C}
    BY <2>1, <2>2, <2>6, <2>8, <2>9 DEF Exact
  <2> QED
    BY <2>6, <2>7, <2>10 DEF Exact, w, g
<1> QED
  BY <1>2, <1>3
-----------------------------------------------------------------------------
(* The shape of the address spaces *)

(* Tables and directories have one word each and are no data, an address   *)
(* needs its table and a table its directory.                              *)
Tree(f) ==
    /\ \A x \in Words : f[x] # 0
    /\ \A x, y \in Words : x[2] \notin VAs /\ f[x] # NoPage /\ f[y] = f[x] => x = y
    /\ \A e \in Envs, va \in VAs : f[<<e, va>>] # NoPage => f[<<e, PDX[va]>>] # NoPage
    /\ \A e \in Envs, d \in Dirs : f[<<e, d>>] # NoPage => f[<<e, Root>>] # NoPage

IsData(f, p) == \A x \in Words : f[x] = p => x[2] \in VAs

LEMMA WordKinds ==
    /\ \A e \in Envs, va \in VAs :
          /\ <<e, va>> \in Words /\ <<e, PDX[va]>> \in Words /\ PDX[va] \in Dirs
    /\ \A e \in Envs, d \in Dirs : <<e, d>> \in Words /\ d \notin VAs /\ d # Root
    /\ \A e \in Envs : <<e, Root>> \in Words
    /\ Root \notin VAs
    /\ \A x \in Words : x = <<x[1], x[2]>> /\ x[1] \in Envs /\ x[2] \in VAs \cup Dirs \cup {Root}
BY WordsAssumption DEF Words, Entries

LEMMA TreeData ==
    ASSUME NEW f \in [Words -> Pages \cup {NoPage}], Tree(f),
           NEW e \in Envs, NEW va \in VAs, f[<<e, PDX[va]>>] # NoPage,
           NEW p \in Pages \ {0}, IsData(f, p)
    PROVE  Tree([f EXCEPT ![<<e, va>>] = p])
<1> DEFINE g == [f EXCEPT ![<<e, va>>] = p]
<1>1. \A x \in Words : g[x] = IF x = <<e, va>> THEN p ELSE f[x]
  OBVIOUS
<1> HIDE DEF g
<1>2. \A x \in Words : g[x] # 0
  BY <1>1 DEF Tree
<1>3. ASSUME NEW x \in Words, NEW y \in Words, x[2] \notin VAs, g[x] # NoPage, g[y] = g[x]
      PROVE  x = y
  <2>1. x # <<e, va>> /\ g[x] = f[x]
    BY <1>1, <1>3
  <2>2. CASE y = <<e, va>>
    BY <1>1, <1>3, <2>1, <2>2 DEF IsData
  <2>3. CASE y # <<e, va>>
    BY <1>1, <1>3, <2>1, <2>3 DEF Tree
  <2> QED
    BY <2>2, <2>3
<1>4. \A k \in Envs, d \in Dirs \cup {Root} : g[<<k, d>>] = f[<<k, d>>]
  BY <1>1, WordKinds
<1>5. ASSUME NEW k \in Envs, NEW a \in VAs, g[<<k, a>>] # NoPage
      PROVE  g[<<k, PDX[a]>>] # NoPage
  BY <1>1, <1>4, <1>5, WordKinds DEF Tree
<1>6. ASSUME NEW k \in Envs, NEW d \in Dirs, g[<<k, d>>] # NoPage
      PROVE  g[<<k, Root>>] # NoPage
  BY <1>4, <1>6 DEF Tree
<1> QED
  BY <1>2, <1>3, <1>5, <1>6 DEF Tree, g

(* A fresh page becomes a page table, or a page directory.                 *)
LEMMA TreeTable ==
    ASSUME NEW f \in [Words -> Pages \cup {NoPage}], Tree(f),
           NEW e \in Envs, NEW d \in Dirs \cup {Root}, f[<<e, d>>] = NoPage,
           d = Root \/ f[<<e, Root>>] # NoPage,
           NEW t \in Pages \ {0}, Refs(f, t) = {}
    PROVE  Tree([f EXCEPT ![<<e, d>>] = t])
<1> DEFINE g == [f EXCEPT ![<<e, d>>] = t]
<1>1. \A x \in Words : g[x] = IF x = <<e, d>> THEN t ELSE f[x]
  OBVIOUS
<1>2. t # NoPage /\ \A x \in Words : f[x] # t
  BY PagesAssumption DEF Refs
<1> HIDE DEF g
<1>3. \A x \in Words : g[x] # 0
  BY <1>1 DEF Tree
<1>4. ASSUME NEW x \in Words, NEW y \in Words, x[2] \notin VAs, g[x] # NoPage, g[y] = g[x]
      PROVE  x = y
  BY <1>1, <1>2, <1>4 DEF Tree
<1>5. ASSUME NEW k \in Envs, NEW a \in VAs, g[<<k, a>>] # NoPage
      PROVE  g[<<k, PDX[a]>>] # NoPage
  BY <1>1, <1>2, <1>5, WordKinds DEF Tree
<1>6. ASSUME NEW k \in Envs, NEW c \in Dirs, g[<<k, c>>] # NoPage
      PROVE  g[<<k, Root>>] # NoPage
  BY <1>1, <1>2, <1>6, WordKinds DEF Tree
<1> QED
  BY <1>3, <1>4, <1>5, <1>6 DEF Tree, g

LEMMA TreeClear ==
    ASSUME NEW f \in [Words -> Pages \cup {NoPage}], Tree(f),
           NEW e \in Envs, NEW va \in VAs
    PROVE  Tree([f EXCEPT ![<<e, va>>] = NoPage])
<1> DEFINE g == [f EXCEPT ![<<e, va>>] = NoPage]
<1>1. \A x \in Words : g[x] = IF x = <<e, va>> THEN NoPage ELSE f[x]
  OBVIOUS
<1> HIDE DEF g
<1>2. \A x \in Words : g[x] # 0
  BY <1>1, PagesAssumption DEF Tree, Pages
<1>3. ASSUME NEW x \in Words, NEW y \in Words, x[2] \notin VAs, g[x] # NoPage, g[y] = g[x]
      PROVE  x = y
  BY <1>1, <1>3 DEF Tree
<1>4. \A k \in Envs, d \in Dirs \cup {Root} : g[<<k, d>>] = f[<<k, d>>]
  BY <1>1, WordKinds
<1>5. ASSUME NEW k \in Envs, NEW a \in VAs, g[<<k, a>>] # NoPage
      PROVE  g[<<k, PDX[a]>>] # NoPage
  BY <1>1, <1>4, <1>5, WordKinds DEF Tree
<1>6. ASSUME NEW k \in Envs, NEW d \in Dirs, g[<<k, d>>] # NoPage
      PROVE  g[<<k, Root>>] # NoPage
  BY <1>4, <1>6 DEF Tree
<1> QED
  BY <1>2, <1>3, <1>5, <1>6 DEF Tree, g

(* The address space of e without its words.                               *)
Without(f, e) == [x \in Words |-> IF x[1] = e THEN NoPage ELSE f[x]]

LEMMA TreeWithout ==
    ASSUME NEW f \in [Words -> Pages \cup {NoPage}], Tree(f), NEW e \in Envs
    PROVE  Tree(Without(f, e))
<1> DEFINE g == Without(f, e)
<1>1. \A x \in Words : g[x] = IF x[1] = e THEN NoPage ELSE f[x]
  BY DEF Without
<1> HIDE DEF g
<1>2. \A x \in Words : g[x] # 0
  BY <1>1, PagesAssumption DEF Tree, Pages
<1>3. ASSUME NEW x \in Words, NEW y \in Words, x[2] \notin VAs, g[x] # NoPage, g[y] = g[x]
      PROVE  x = y
  BY <1>1, <1>3 DEF Tree
<1>4. ASSUME NEW k \in Envs, NEW a \in VAs, g[<<k, a>>] # NoPage
      PROVE  g[<<k, PDX[a]>>] # NoPage
  BY <1>1, <1>4, WordKinds DEF Tree
<1>5. ASSUME NEW k \in Envs, NEW d \in Dirs, g[<<k, d>>] # NoPage
      PROVE  g[<<k, Root>>] # NoPage
  BY <1>1, <1>5, WordKinds DEF Tree
<1> QED
  BY <1>2, <1>3, <1>4, <1>5 DEF Tree, g
-----------------------------------------------------------------------------
(* The operations on address spaces *)

(* page_insert() of a page that is mapped, or that the caller has just     *)
(* allocated, into an address space that exists.                           *)
LEMMA Insert ==
    ASSUME NEW m \in Memory, NEW A, Exact(m, A, {}), Tree(m.entry),
           NEW e \in Envs, NEW va \in VAs, m.entry[<<e, Root>>] # NoPage,
           NEW p \in Pages \ {0}, A \subseteq {p}, p \in A \/ Refs(m.entry, p) # {},
           Cardinality(Refs(m.entry, p)) + 1 < RefLimit, IsData(m.entry, p),
           NEW w \in PageInsert(m, e, p, va)
    PROVE  /\ w \in Memory /\ Exact(w, {}, {}) /\ Tree(w.entry)
           /\ \A x \in Envs \X VAs : w.entry[x] = IF x = <<e, va>> THEN p ELSE m.entry[x]
           /\ \A k \in Envs : w.entry[<<k, Root>>] = m.entry[<<k, Root>>]
<1> DEFINE x == <<e, va>>
           y == <<e, PDX[va]>>
<1>1. PICK v \in PgdirWalk(m, e, va) : w = Store(PageRemove(Count(v, p), x), x, p)
  BY DEF PageInsert
<1>2. /\ v \in Memory /\ Exact(v, A, {})
      /\ \/ m.entry[y] # NoPage /\ v = m
         \/ /\ m.entry[y] = NoPage
            /\ \E t \in Pages \ {0} :
                  /\ t \notin A /\ Refs(m.entry, t) = {}
                  /\ v.entry = [m.entry EXCEPT ![y] = t]
  BY Walk, SMTT(20)
<1>3. /\ m.entry \in [Words -> Pages \cup {NoPage}]
      /\ v.entry \in [Words -> Pages \cup {NoPage}]
  BY <1>2 DEF Memory
<1>4. x \in Words /\ y \in Words /\ PDX[va] \in Dirs /\ PDX[va] \notin VAs /\ PDX[va] # Root
  BY WordKinds
<1>5. /\ Tree(v.entry) /\ v.entry[y] # NoPage
      /\ Refs(v.entry, p) = Refs(m.entry, p)
      /\ IsData(v.entry, p)
      /\ \A z \in Words : z # y => v.entry[z] = m.entry[z]
  <2>1. CASE m.entry[y] # NoPage /\ v = m
    BY <2>1
  <2>2. CASE m.entry[y] = NoPage
    <3>1. PICK t \in Pages \ {0} :
            /\ t \notin A /\ Refs(m.entry, t) = {}
            /\ v.entry = [m.entry EXCEPT ![y] = t]
      BY <1>2, <2>2
    <3>2. t # p /\ t # NoPage
      BY <3>1, PagesAssumption
    <3>3. Tree(v.entry)
      BY <1>3, <1>4, <2>2, <3>1, TreeTable
    <3>4. Refs(v.entry, p) = Refs(m.entry, p)
      BY <1>3, <1>4, <2>2, <3>1, RefsSet, <3>2, SMTT(20)
    <3>5. IsData(v.entry, p)
      BY <1>3, <1>4, <3>1, <3>2 DEF IsData
    <3> QED
      BY <1>3, <1>4, <3>1, <3>2, <3>3, <3>4, <3>5
  <2> QED
    BY <1>2, <2>1, <2>2
<1> DEFINE c == Count(v, p)
           r == PageRemove(c, x)
<1>6. c \in Memory /\ c.entry = v.entry /\ Exact(c, {}, {p})
  <2>1. A \ {p} = {}
    OBVIOUS
  <2>2. /\ c \in Memory /\ c.entry = v.entry /\ Exact(c, A \ {p}, {p})
    BY <1>2, <1>5, CountExact
  <2> QED
    BY <2>1, <2>2
<1> HIDE DEF c
<1>7. r \in Memory /\ r.entry = [v.entry EXCEPT ![x] = NoPage] /\ Exact(r, {}, {p})
  <2>1. c.entry[x] # 0
    BY <1>4, <1>5, <1>6 DEF Tree
  <2>2. /\ r \in Memory /\ r.entry = [c.entry EXCEPT ![x] = NoPage] /\ Exact(r, {}, {p})
    BY <1>4, <1>6, <2>1, RemoveExact
  <2> QED
    BY <1>6, <2>2
<1> HIDE DEF r
<1>8. w \in Memory /\ w.entry = [r.entry EXCEPT ![x] = p] /\ Exact(w, {}, {})
  <2>1. r.entry[x] = NoPage
    BY <1>3, <1>4, <1>7
  <2>2. w = Store(r, x, p)
    BY <1>1 DEF r, c
  <2> QED
    <3>1. x \in Words /\ r \in Memory /\ Exact(r, {}, {p})
      BY <1>4, <1>7
    <3> HIDE DEF x
    <3>2. /\ Store(r, x, p) \in Memory
          /\ Store(r, x, p).entry = [r.entry EXCEPT ![x] = p]
          /\ Exact(Store(r, x, p), {}, {})
      BY <2>1, <3>1, StoreExact
    <3> QED
      BY <2>2, <3>2
<1>9. w.entry = [v.entry EXCEPT ![x] = p]
  BY <1>3, <1>4, <1>7, <1>8
<1>10. Tree(w.entry)
  BY <1>3, <1>5, <1>9, TreeData
<1>11. \A z \in Envs \X VAs : z \in Words /\ z # y
  BY <1>4 DEF Words, Entries
<1>12. \A k \in Envs : <<k, Root>> \in Words /\ <<k, Root>> # y /\ <<k, Root>> # x
  BY <1>4, WordKinds
<1>13. \A z \in Envs \X VAs : w.entry[z] = IF z = x THEN p ELSE m.entry[z]
  BY <1>3, <1>5, <1>9, <1>11
<1>14. \A k \in Envs : w.entry[<<k, Root>>] = m.entry[<<k, Root>>]
  BY <1>3, <1>5, <1>9, <1>12
<1> QED
  BY <1>8, <1>10, <1>13, <1>14

(* page_remove() of an address *)
LEMMA Remove ==
    ASSUME NEW m \in Memory, Exact(m, {}, {}), Tree(m.entry), NEW e \in Envs, NEW va \in VAs
    PROVE  LET w == PageRemove(m, <<e, va>>)
           IN  /\ w \in Memory /\ Exact(w, {}, {}) /\ Tree(w.entry)
               /\ w.entry = [m.entry EXCEPT ![<<e, va>>] = NoPage]
<1>1. <<e, va>> \in Words /\ m.entry \in [Words -> Pages \cup {NoPage}]
  BY WordKinds DEF Memory
<1>2. m.entry[<<e, va>>] # 0
  BY <1>1 DEF Tree
<1> QED
  BY <1>1, <1>2, RemoveExact, TreeClear

(* The pages of e are given back one by one: a page loses as many          *)
(* references as e has words that refer to it.                             *)
LEMMA WordsOfRefs ==
    ASSUME NEW m, NEW e \in Envs, NEW p \in Pages
    PROVE  /\ Cardinality(WordsOf(m, e, p)) \in Nat
           /\ Cardinality(Refs(Without(m.entry, e), p))
                 = Cardinality(Refs(m.entry, p)) - Cardinality(WordsOf(m, e, p))
<1> DEFINE S == WordsOf(m, e, p)
           T == {x \in Refs(m.entry, p) : x[1] = e}
           f == [x \in T |-> x[2]]
<1>1. IsFiniteSet(T)
  BY RefsFinite, FS_Subset
<1>2. f \in Bijection(T, S)
  <2>1. \A x \in T : x = <<e, x[2]>> /\ x[2] \in S
    BY DEF WordsOf, Refs, Words
  <2>2. f \in [T -> S]
    BY <2>1
  <2>3. \A x, y \in T : f[x] = f[y] => x = y
    BY <2>1
  <2>4. ASSUME NEW s \in S PROVE \E x \in T : f[x] = s
    <3>1. <<e, s>> \in T
      BY DEF WordsOf, Refs, Words
    <3>2. f[<<e, s>>] = s
      BY <3>1
    <3> QED
      BY <3>1, <3>2
  <2> HIDE DEF f, S, T
  <2> QED
    BY <2>2, <2>3, <2>4 DEF Bijection, Injection, Surjection, IsInjective
<1>3. Cardinality(S) = Cardinality(T) /\ Cardinality(S) \in Nat
  <2>1. ExistsBijection(T, S)
    BY <1>2 DEF ExistsBijection
  <2> HIDE DEF S, T
  <2> QED
    BY <1>1, <2>1, FS_Bijection, FS_CardinalityType
<1>4. Refs(Without(m.entry, e), p) = Refs(m.entry, p) \ T
  BY PagesAssumption DEF Refs, Without
<1>5. Refs(m.entry, p) \cap T = T
  OBVIOUS
<1> HIDE DEF S, T
<1>6. Cardinality(Refs(m.entry, p) \ T) = Cardinality(Refs(m.entry, p)) - Cardinality(T)
  BY <1>5, RefsFinite, FS_Difference
<1> QED
  BY <1>3, <1>4, <1>6 DEF S

(* env_free() *)
LEMMA EnvFreeExact ==
    ASSUME NEW m \in Memory, Exact(m, {}, {}), Tree(m.entry), NEW e \in Envs
    PROVE  /\ EnvFree(m, e) \in Memory
           /\ EnvFree(m, e).entry = Without(m.entry, e)
           /\ Exact(EnvFree(m, e), {}, {})
           /\ Tree(EnvFree(m, e).entry)
<1> DEFINE w == EnvFree(m, e)
           n(p) == Cardinality(WordsOf(m, e, p))
           g == Without(m.entry, e)
<1>1. /\ w.ref = [p \in Pages |-> Down(m.ref[p], n(p))]
      /\ w.free = m.free \cup {p \in Pages : \E k \in 1..n(p) : Down(m.ref[p], k) = 0}
      /\ w.entry = g
      /\ w = [ref |-> w.ref, free |-> w.free, entry |-> w.entry]
  BY DEF EnvFree, Without
<1>2. m.entry \in [Words -> Pages \cup {NoPage}] /\ m.ref \in [Pages -> 0..RefLimit-1]
  BY DEF Memory
<1>3. 0 \in Pages /\ Cardinality(WordsOf(m, e, 0)) = 0
  <2>1. WordsOf(m, e, 0) = {}
    BY DEF WordsOf, Tree, Words
  <2> QED
    BY <2>1, PagesAssumption, FS_EmptySet DEF Pages
<1> HIDE DEF w, g
<1>4. \A p \in Pages :
        /\ n(p) \in Nat
        /\ Cardinality(Refs(g, p)) = Cardinality(Refs(m.entry, p)) - n(p)
        /\ Cardinality(Refs(g, p)) \in Nat /\ Cardinality(Refs(m.entry, p)) \in Nat
  BY WordsOfRefs, RefsFinite DEF g
<1> HIDE DEF n
<1>5. \A p \in Pages : \A k \in 0..n(p) :
        Down(m.ref[p], k) = m.ref[p] - k /\ Down(m.ref[p], k) \in 0..RefLimit-1
  <2> SUFFICES ASSUME NEW p \in Pages, NEW k \in 0..n(p)
               PROVE  Down(m.ref[p], k) = m.ref[p] - k /\ Down(m.ref[p], k) \in 0..RefLimit-1
    OBVIOUS
  <2>1. m.ref[p] - k \in Nat /\ m.ref[p] - k < RefLimit
    <3>1. CASE p = 0
      BY <1>2, <1>3, <3>1, RefAssumption DEF n
    <3>2. CASE p # 0
      BY <1>2, <1>4, <3>2, RefAssumption DEF Exact
    <3> QED
      BY <3>1, <3>2
  <2> QED
    BY <2>1, NoWrap, RefAssumption DEF Down
<1>6. w \in Memory
  <2>1. w.ref \in [Pages -> 0..RefLimit-1]
    BY <1>1, <1>4, <1>5
  <2>2. w.free \in SUBSET Pages
    BY <1>1 DEF Memory
  <2>3. w.entry \in [Words -> Pages \cup {NoPage}]
    BY <1>1, <1>2 DEF g, Without
  <2> QED
    BY <1>1, <2>1, <2>2, <2>3 DEF Memory
<1>7. \A p \in Pages \ {0} : w.ref[p] = Cardinality(Refs(g, p))
  BY <1>1, <1>4, <1>5 DEF Exact
<1>8. \A p \in Pages \ {0} :
        (\E k \in 1..n(p) : Down(m.ref[p], k) = 0) <=> Refs(m.entry, p) # {} /\ Refs(g, p) = {}
  <2> SUFFICES ASSUME NEW p \in Pages \ {0}
               PROVE  (\E k \in 1..n(p) : Down(m.ref[p], k) = 0)
                         <=> Refs(m.entry, p) # {} /\ Refs(g, p) = {}
    OBVIOUS
  <2>1. m.ref[p] = Cardinality(Refs(m.entry, p))
    BY <1>4 DEF Exact
  <2>2. (\E k \in 1..n(p) : Down(m.ref[p], k) = 0) <=> m.ref[p] = n(p) /\ n(p) # 0
    BY <1>4, <1>5, <2>1
  <2>3. /\ Cardinality(Refs(g, p)) = 0 <=> Refs(g, p) = {}
        /\ Cardinality(Refs(m.entry, p)) = 0 <=> Refs(m.entry, p) = {}
    BY RefsEmpty
  <2> QED
    BY <1>4, <2>1, <2>2, <2>3
<1>9. ~ \E k \in 1..n(0) : Down(m.ref[0], k) = 0
  BY <1>3 DEF n
<1>10. \A p \in Pages \ {0} : Refs(m.entry, p) = {} => Refs(g, p) = {}
  BY <1>4, RefsEmpty
<1>11. w.free = {p \in Pages \ {0} : Refs(g, p) = {} /\ p \notin {} \cup {}}
  BY <1>1, <1>8, <1>9, <1>10 DEF Exact
<1>12. Exact(w, {}, {})
  BY <1>1, <1>4, <1>7, <1>11 DEF Exact
<1>13. Tree(g)
  BY <1>2, TreeWithout DEF g
<1> QED
  BY <1>1, <1>6, <1>12, <1>13 DEF w, g

-----------------------------------------------------------------------------
(* The parts of the invariant *)

MemOK == mem \in Memory /\ Exact(mem, {}, {}) /\ Tree(entry)

RightsOK ==
    /\ writable \in SUBSET (Envs \X VAs) /\ \A x \in writable : entry[x] # NoPage
    /\ parent \in [Envs -> Envs \cup {NoEnv}]
    /\ dying \in SUBSET Envs

CpuOK ==
    /\ cr3 \in [CPUS -> Envs \cup {NoEnv}]
    /\ tlb \in [CPUS -> [VAs -> Pages \cup {NoPage}]]
    /\ Loaded /\ TlbFresh

LEMMA Parts == IInv <=> MemOK /\ RightsOK /\ CpuOK
<1>1. mem \in Memory <=> /\ pp_ref \in [Pages -> 0..RefLimit-1]
                         /\ page_free_list \in SUBSET Pages
                         /\ entry \in [Words -> Pages \cup {NoPage}]
  BY DEF mem, Memory
<1>2. Exact(mem, {}, {}) <=> RefExact /\ FreeExact
  <2>1. \A p \in Pages \ {0} : Users(p) = Refs(entry, p) /\ Cardinality(Refs(entry, p)) \in Nat
    BY RefsFinite DEF Users, Refs
  <2> QED
    BY <2>1 DEF mem, Exact, RefExact, FreeExact
<1>3. Tree(entry) /\ (\A x \in writable : entry[x] # NoPage) <=> TablesArePrivate /\ Shape
  BY DEF Tree, TablesArePrivate, Shape, HasTable, Exists
<1> QED
  BY <1>1, <1>2, <1>3 DEF IInv, TypeOK, MemOK, RightsOK, CpuOK

LEMMA PartsNext == IInv' <=> MemOK' /\ RightsOK' /\ CpuOK'
BY Parts, PTL

LEMMA NewMemory ==
    ASSUME NEW m \in Memory, Exact(m, {}, {}), Tree(m.entry), SetMem(m)
    PROVE  MemOK' /\ entry' = m.entry
<1>1. mem' = m
  BY DEF mem, SetMem, Memory
<1>2. entry' = m.entry
  BY DEF SetMem
<1> QED
  BY <1>1, <1>2 DEF MemOK

(* No page has as many references as pp_ref can count.                     *)
Below == \A p \in Pages : Cardinality(Users(p)) + 1 < RefLimit

-----------------------------------------------------------------------------
(* Processors *)

(* What a processor loads exists and runs nowhere else, and nothing has    *)
(* changed for the others.                                                 *)
LEMMA Loading ==
    ASSUME CpuOK, NEW c \in CPUS, NEW k \in Envs \cup {NoEnv}, Load(c, k),
           k # NoEnv => entry'[<<k, Root>>] # NoPage /\ ~Elsewhere(c, k),
           \A d \in CPUS \ {c} : cr3[d] # NoEnv =>
               /\ entry'[<<cr3[d], Root>>] # NoPage
               /\ \A va \in VAs : entry'[<<cr3[d], va>>] = entry[<<cr3[d], va>>],
           \A e \in dying' : (e \in dying /\ e # cr3[c]) \/ e = k \/ Elsewhere(c, e)
    PROVE  CpuOK'
<1>1. /\ cr3' \in [CPUS -> Envs \cup {NoEnv}]
      /\ tlb' \in [CPUS -> [VAs -> Pages \cup {NoPage}]]
  BY DEF CpuOK, Load, NoTranslation
<1>2. /\ cr3'[c] = k
      /\ \A d \in CPUS \ {c} : cr3'[d] = cr3[d] /\ tlb'[d] = tlb[d]
      /\ \A va \in VAs : tlb'[c][va] = NoPage
  BY DEF CpuOK, Load, NoTranslation
<1>3. Loaded'
  <2>1. \A d \in CPUS : cr3'[d] # NoEnv => entry'[<<cr3'[d], Root>>] # NoPage
    BY <1>2
  <2>2. \A d, b \in CPUS : cr3'[d] = cr3'[b] /\ cr3'[d] # NoEnv => d = b
    BY <1>2 DEF CpuOK, Loaded, Elsewhere
  <2>3. \A e \in dying' : \E d \in CPUS : cr3'[d] = e
    BY <1>2 DEF CpuOK, Loaded, Elsewhere
  <2> QED
    BY <2>1, <2>2, <2>3 DEF Loaded, Exists
<1>4. \A d \in CPUS, va \in VAs : tlb'[d][va] # NoPage =>
         cr3'[d] # NoEnv /\ tlb'[d][va] = entry'[<<cr3'[d], va>>]
  <2> SUFFICES ASSUME NEW d \in CPUS, NEW va \in VAs, tlb'[d][va] # NoPage
               PROVE  cr3'[d] # NoEnv /\ tlb'[d][va] = entry'[<<cr3'[d], va>>]
    OBVIOUS
  <2>1. d # c /\ cr3'[d] = cr3[d] /\ tlb'[d] = tlb[d]
    BY <1>2
  <2>2. cr3[d] # NoEnv /\ tlb[d][va] = entry[<<cr3[d], va>>]
    BY <2>1 DEF CpuOK, TlbFresh
  <2>3. entry'[<<cr3[d], va>>] = entry[<<cr3[d], va>>]
    BY <2>1, <2>2
  <2> QED
    BY <2>1, <2>2, <2>3
<1>5. TlbFresh'
  BY <1>4 DEF TlbFresh
<1> QED
  BY <1>1, <1>3, <1>5 DEF CpuOK

(* A system call returns: only words of e have changed, which does not run *)
(* on another processor, and every address space that was there still is.  *)
LEMMA Returning ==
    ASSUME CpuOK, NEW c \in CPUS, NEW e \in Envs, Return(c), ~Elsewhere(c, e),
           \A k \in Envs : cr3[c] = k \/ k # e =>
               (entry[<<k, Root>>] # NoPage => entry'[<<k, Root>>] # NoPage),
           \A k \in Envs \ {e}, va \in VAs : entry'[<<k, va>>] = entry[<<k, va>>],
           dying' = dying
    PROVE  CpuOK'
<1>1. cr3[c] \in Envs \cup {NoEnv} /\ Load(c, cr3[c])
  BY DEF CpuOK, Return
<1>2. cr3[c] # NoEnv => entry'[<<cr3[c], Root>>] # NoPage /\ ~Elsewhere(c, cr3[c])
  BY DEF CpuOK, Loaded, Exists, Elsewhere
<1>3. \A d \in CPUS \ {c} : cr3[d] # NoEnv =>
               /\ entry'[<<cr3[d], Root>>] # NoPage
               /\ \A va \in VAs : entry'[<<cr3[d], va>>] = entry[<<cr3[d], va>>]
  <2> SUFFICES ASSUME NEW d \in CPUS \ {c}, cr3[d] # NoEnv
               PROVE  /\ entry'[<<cr3[d], Root>>] # NoPage
                      /\ \A va \in VAs : entry'[<<cr3[d], va>>] = entry[<<cr3[d], va>>]
    OBVIOUS
  <2>1. cr3[d] \in Envs \ {e} /\ entry[<<cr3[d], Root>>] # NoPage
    BY DEF CpuOK, Loaded, Exists, Elsewhere
  <2> QED
    BY <2>1
<1>4. \A k \in dying' : (k \in dying /\ k # cr3[c]) \/ k = cr3[c] \/ Elsewhere(c, k)
  OBVIOUS
<1> QED
  BY <1>1, <1>2, <1>3, <1>4, Loading

(* The processor turns to something else: what it ran may be gone.         *)
LEMMA Scheduling ==
    ASSUME CpuOK, NEW c \in CPUS, NEW gone, gone = NoEnv \/ gone = cr3[c],
           Schedule(c, gone),
           \A k \in Envs \ {gone} : entry'[<<k, Root>>] = entry[<<k, Root>>],
           \A k \in Envs \ {gone}, va \in VAs : entry'[<<k, va>>] = entry[<<k, va>>],
           dying' = dying \ {cr3[c]}
    PROVE  CpuOK'
<1>1. PICK k \in (Envs \ {gone}) \cup {NoEnv} :
         Load(c, k) /\ (k # NoEnv => Exists(k) /\ ~Elsewhere(c, k))
  BY DEF Schedule
<1>2. k # NoEnv => entry'[<<k, Root>>] # NoPage /\ ~Elsewhere(c, k)
  BY <1>1 DEF Exists
<1>3. \A d \in CPUS \ {c} : cr3[d] # NoEnv =>
               /\ entry'[<<cr3[d], Root>>] # NoPage
               /\ \A va \in VAs : entry'[<<cr3[d], va>>] = entry[<<cr3[d], va>>]
  <2> SUFFICES ASSUME NEW d \in CPUS \ {c}, cr3[d] # NoEnv
               PROVE  /\ entry'[<<cr3[d], Root>>] # NoPage
                      /\ \A va \in VAs : entry'[<<cr3[d], va>>] = entry[<<cr3[d], va>>]
    OBVIOUS
  <2>1. cr3[d] \in Envs \ {gone} /\ entry[<<cr3[d], Root>>] # NoPage
    BY DEF CpuOK, Loaded, Exists
  <2> QED
    BY <2>1
<1>4. \A e \in dying' : (e \in dying /\ e # cr3[c]) \/ e = k \/ Elsewhere(c, e)
  OBVIOUS
<1> QED
  BY <1>1, <1>2, <1>3, <1>4, Loading

-----------------------------------------------------------------------------
(* The steps *)

(* What Insert needs of a page that is mapped, and what it leaves.         *)
LEMMA InsertStep ==
    ASSUME MemOK, RightsOK, CpuOK, NEW A, NEW m \in Memory, Exact(m, A, {}),
           m.entry = entry, NEW c \in CPUS, NEW e \in Envs, NEW va \in VAs,
           NEW w \in BOOLEAN, Exists(e), ~Elsewhere(c, e),
           NEW p \in Pages \ {0}, A \subseteq {p}, p \in A \/ Refs(entry, p) # {},
           Cardinality(Refs(entry, p)) + 1 < RefLimit, IsData(entry, p),
           NEW n \in PageInsert(m, e, p, va), SetMem(n),
           SetWritable(<<e, va>>, w), Return(c), UNCHANGED <<parent, dying>>
    PROVE  /\ MemOK' /\ RightsOK' /\ CpuOK'
           /\ space' = [space EXCEPT ![<<e, va>>] = p] /\ alive' = alive
<1>1. Tree(m.entry) /\ m.entry[<<e, Root>>] # NoPage
  BY DEF MemOK, Exists
<1>2. /\ n \in Memory /\ Exact(n, {}, {}) /\ Tree(n.entry)
      /\ \A x \in Envs \X VAs : n.entry[x] = IF x = <<e, va>> THEN p ELSE entry[x]
      /\ \A k \in Envs : n.entry[<<k, Root>>] = entry[<<k, Root>>]
  BY <1>1, Insert
<1>3. MemOK' /\ entry' = n.entry
  BY <1>2, NewMemory
<1>4. RightsOK'
  <2>1. p # NoPage /\ writable' \subseteq writable \cup {<<e, va>>}
    BY PagesAssumption DEF SetWritable
  <2>2. writable' \in SUBSET (Envs \X VAs)
    BY <2>1 DEF RightsOK
  <2>3. \A x \in writable' : entry'[x] # NoPage
    BY <1>2, <1>3, <2>1, <2>2 DEF RightsOK
  <2> QED
    BY <2>2, <2>3 DEF RightsOK
<1>5. \A k \in Envs \ {e}, a \in VAs : entry'[<<k, a>>] = entry[<<k, a>>]
  BY <1>2, <1>3
<1>6. CpuOK'
  BY <1>2, <1>3, <1>5, Returning
<1>7. space' = [space EXCEPT ![<<e, va>>] = p] /\ alive' = alive
  BY <1>2, <1>3 DEF space, alive, Exists
<1> QED
  BY <1>3, <1>4, <1>6, <1>7

(* What the steps do to the address spaces.                                *)
Allocated(x, w) ==
    \E p \in page_free_list :
        /\ p \in Pages \ {0} /\ Refs(entry, p) = {} /\ Exists(x[1])
        /\ space' = [space EXCEPT ![x] = p] /\ alive' = alive
        /\ SetWritable(x, w)

Mapped(x, y, w) ==
    /\ space[x] # NoPage /\ Exists(y[1]) /\ MayGrant(x[1], x[2], w)
    /\ space' = [space EXCEPT ![y] = space[x]] /\ alive' = alive
    /\ SetWritable(y, w)

Unmapped(x) ==
    space' = [space EXCEPT ![x] = NoPage] /\ alive' = alive /\ SetWritable(x, FALSE)

Created(e) ==
    ~Exists(e) /\ space' = space /\ alive' = alive \cup {e} /\ writable' = writable

Destroyed(e) ==
    /\ space' = [x \in Envs \X VAs |-> IF x[1] = e THEN NoPage ELSE space[x]]
    /\ writable' = {x \in writable : x[1] # e}
    /\ alive' = alive \ {e}

Kept == space' = space /\ alive' = alive /\ writable' = writable

LEMMA AllocStep ==
    ASSUME MemOK, RightsOK, CpuOK,
           NEW c \in CPUS, NEW e \in Envs, NEW va \in VAs, NEW w \in BOOLEAN,
           Alloc(c, e, va, w)
    PROVE  /\ MemOK' /\ RightsOK' /\ CpuOK'
           /\ Allocated(<<e, va>>, w)
<1>1. PICK p \in page_free_list :
         \E n \in PageInsert(PageAlloc(mem, p), e, p, va) : SetMem(n)
  BY DEF Alloc, SysPageAlloc
<1>2. PICK n \in PageInsert(PageAlloc(mem, p), e, p, va) : SetMem(n)
  BY <1>1
<1>3. p \in mem.free /\ mem.entry = entry
  BY DEF mem
<1>4. /\ PageAlloc(mem, p) \in Memory /\ PageAlloc(mem, p).entry = entry
      /\ Exact(PageAlloc(mem, p), {p}, {})
      /\ p \in Pages \ {0} /\ Refs(entry, p) = {}
  <2>1. mem \in Memory /\ Exact(mem, {}, {})
    BY DEF MemOK
  <2>2. {} \cup {p} = {p}
    OBVIOUS
  <2> QED
    BY <1>3, <2>1, <2>2, TakeExact
<1>5. Cardinality(Refs(entry, p)) + 1 < RefLimit /\ IsData(entry, p)
  <2>1. Cardinality(Refs(entry, p)) = 0
    BY <1>4, RefsEmpty
  <2>2. \A x \in Words : entry[x] # p
    BY <1>4 DEF Refs
  <2> QED
    BY <2>1, <2>2, RefAssumption DEF IsData
<1>6. /\ Exists(e) /\ ~Elsewhere(c, e) /\ SetWritable(<<e, va>>, w) /\ Return(c)
      /\ UNCHANGED <<parent, dying>>
  BY DEF Alloc, SysPageAlloc, Permitted
<1>7. /\ MemOK' /\ RightsOK' /\ CpuOK'
      /\ space' = [space EXCEPT ![<<e, va>>] = p] /\ alive' = alive
  <2>1. PICK m : m = PageAlloc(mem, p)
    OBVIOUS
  <2>2. m \in Memory /\ m.entry = entry /\ Exact(m, {p}, {}) /\ n \in PageInsert(m, e, p, va)
    BY <1>2, <1>4, <2>1
  <2>3. {p} \subseteq {p} /\ p \in {p} /\ p \in Pages \ {0}
    BY <1>4
  <2> QED
    BY <1>2, <1>5, <1>6, <2>2, <2>3, InsertStep
<1>8. p \in page_free_list /\ <<e, va>>[1] = e
  BY <1>1
<1>9. Allocated(<<e, va>>, w)
  BY <1>4, <1>6, <1>7, <1>8 DEF Allocated
<1> QED
  BY <1>7, <1>9

(* sys_page_map() and sys_ipc_try_send() of a page that is there           *)
LEMMA MapStep ==
    ASSUME MemOK, RightsOK, CpuOK, Below,
           NEW c \in CPUS, NEW src \in Envs, NEW sva \in VAs,
           NEW dst \in Envs, NEW dva \in VAs, NEW w \in BOOLEAN,
           entry[<<src, sva>>] # NoPage, Exists(dst), ~Elsewhere(c, dst),
           MapPage(src, sva, dst, dva, w), Return(c), UNCHANGED <<parent, dying>>
    PROVE  /\ MemOK' /\ RightsOK' /\ CpuOK'
           /\ Mapped(<<src, sva>>, <<dst, dva>>, w)
<1> DEFINE p == entry[<<src, sva>>]
<1>1. mem \in Memory /\ Exact(mem, {}, {}) /\ mem.entry = entry /\ Tree(entry)
  BY DEF MemOK, mem
<1>2. entry \in [Words -> Pages \cup {NoPage}] /\ <<src, sva>> \in Words
  BY <1>1, WordKinds DEF Memory
<1>3. p \in Pages \ {0}
  BY <1>1, <1>2 DEF Tree
<1>4. Refs(entry, p) # {}
  BY <1>2 DEF Refs
<1>5. Cardinality(Refs(entry, p)) + 1 < RefLimit
  BY <1>3 DEF Below, Users, Refs
<1>6. IsData(entry, p)
  <2> SUFFICES ASSUME NEW x \in Words, entry[x] = p PROVE x[2] \in VAs
    BY DEF IsData
  <2>1. x[2] \notin VAs => x = <<src, sva>>
    BY <1>1, <1>2 DEF Tree
  <2> QED
    BY <2>1
<1>7. PICK n \in PageInsert(mem, dst, p, dva) : SetMem(n)
  BY DEF MapPage, PageLookup
<1>8. SetWritable(<<dst, dva>>, w) /\ MayGrant(src, sva, w)
  BY DEF MapPage
<1>9. space[<<src, sva>>] = p /\ p # NoPage
  BY DEF space
<1> HIDE DEF p
<1>10. {} \subseteq {p}
  OBVIOUS
<1>11. /\ MemOK' /\ RightsOK' /\ CpuOK'
       /\ space' = [space EXCEPT ![<<dst, dva>>] = p] /\ alive' = alive
  BY <1>1, <1>3, <1>4, <1>5, <1>6, <1>7, <1>8, <1>10, InsertStep
<1> QED
  BY <1>8, <1>9, <1>11 DEF Mapped

LEMMA UnmapStep ==
    ASSUME MemOK, RightsOK, CpuOK,
           NEW c \in CPUS, NEW e \in Envs, NEW va \in VAs, Unmap(c, e, va)
    PROVE  /\ MemOK' /\ RightsOK' /\ CpuOK'
           /\ Unmapped(<<e, va>>)
<1> DEFINE n == PageRemove(mem, <<e, va>>)
<1>1. /\ SetMem(n) /\ SetWritable(<<e, va>>, FALSE) /\ Return(c) /\ ~Elsewhere(c, e)
      /\ UNCHANGED <<parent, dying>>
  BY DEF Unmap, SysPageUnmap
<1>2. mem \in Memory /\ Exact(mem, {}, {}) /\ mem.entry = entry /\ Tree(entry)
  BY DEF MemOK, mem
<1>3. /\ n \in Memory /\ Exact(n, {}, {}) /\ Tree(n.entry)
      /\ n.entry = [entry EXCEPT ![<<e, va>>] = NoPage]
  BY <1>2, Remove
<1> HIDE DEF n
<1>4. PICK q : q = n
  OBVIOUS
<1>5. MemOK' /\ entry' = q.entry
  BY <1>1, <1>3, <1>4, NewMemory
<1>6. \A x \in Words : entry'[x] = IF x = <<e, va>> THEN NoPage ELSE entry[x]
  BY <1>2, <1>3, <1>4, <1>5 DEF Memory
<1>7. RightsOK'
  <2>1. writable' = writable \ {<<e, va>>} /\ \A x \in writable : x \in Words
    BY <1>1 DEF SetWritable, RightsOK, Words, Entries
  <2> QED
    BY <1>1, <1>6, <2>1 DEF RightsOK
<1>8. /\ \A k \in Envs : entry'[<<k, Root>>] = entry[<<k, Root>>]
      /\ \A k \in Envs \ {e}, a \in VAs : entry'[<<k, a>>] = entry[<<k, a>>]
  BY <1>6, WordKinds
<1>9. CpuOK'
  BY <1>1, <1>8, Returning
<1>10. \A x \in Envs \X VAs : entry'[x] = IF x = <<e, va>> THEN NoPage ELSE entry[x]
  BY <1>6 DEF Words, Entries
<1>11. Unmapped(<<e, va>>)
  BY <1>1, <1>8, <1>10 DEF Unmapped, space, alive, Exists
<1> QED
  BY <1>5, <1>7, <1>9, <1>11

LEMMA ExoforkStep ==
    ASSUME MemOK, RightsOK, CpuOK, NEW c \in CPUS, NEW e \in Envs, SysExofork(c, e)
    PROVE  /\ MemOK' /\ RightsOK' /\ CpuOK'
           /\ Created(e)
<1>1. PICK p \in page_free_list : SetMem(Refer(PageAlloc(mem, p), <<e, Root>>, p))
  BY DEF SysExofork
<1>2. PICK n : n = Refer(PageAlloc(mem, p), <<e, Root>>, p)
  OBVIOUS
<1>3. mem \in Memory /\ Exact(mem, {}, {}) /\ mem.entry = entry /\ Tree(entry)
  BY DEF MemOK, mem
<1>4. p \in mem.free /\ <<e, Root>> \in Words /\ entry[<<e, Root>>] = NoPage
  BY WordKinds DEF mem, SysExofork, Exists
<1>5. n \in Memory /\ n.entry = [entry EXCEPT ![<<e, Root>>] = p] /\ Exact(n, {}, {})
  BY <1>2, <1>3, <1>4, AllocateAndStore
<1>6. entry \in [Words -> Pages \cup {NoPage}] /\ p \in Pages \ {0} /\ Refs(entry, p) = {}
  BY <1>3, <1>4, TakeExact DEF Memory
<1>7. Tree(n.entry)
  <2>1. Root \in Dirs \cup {Root}
    OBVIOUS
  <2>2. Tree([entry EXCEPT ![<<e, Root>>] = p])
    BY <1>3, <1>4, <1>6, <2>1, TreeTable
  <2> QED
    BY <1>5, <2>2
<1>8. MemOK' /\ entry' = n.entry
  BY <1>1, <1>2, <1>5, <1>7, NewMemory
<1>9. \A x \in Words : entry'[x] = IF x = <<e, Root>> THEN p ELSE entry[x]
  BY <1>5, <1>6, <1>8
<1>10. p # NoPage
  BY <1>6, PagesAssumption
<1>11. RightsOK'
  <2>1. \A x \in writable : x \in Words
    BY DEF RightsOK, Words, Entries
  <2> QED
    BY <1>9, <1>10, <2>1 DEF SysExofork, RightsOK, Enter, CpuOK
<1>12. /\ \A k \in Envs : entry[<<k, Root>>] # NoPage => entry'[<<k, Root>>] # NoPage
       /\ \A k \in Envs, a \in VAs : entry'[<<k, a>>] = entry[<<k, a>>]
  BY <1>9, <1>10, WordKinds
<1>13. ~Elsewhere(c, e)
  <2>1. e # NoEnv
    BY EnvsAssumption
  <2> QED
    BY <1>4, <2>1 DEF Elsewhere, CpuOK, Loaded, Exists
<1>14. Return(c) /\ dying' = dying
  BY DEF SysExofork
<1>15. CpuOK'
  BY <1>12, <1>13, <1>14, Returning
<1>16. Created(e)
  <2>1. \A x \in Envs \X VAs : entry'[x] = entry[x]
    BY <1>12
  <2>2. \A k \in Envs : entry'[<<k, Root>>] # NoPage <=> entry[<<k, Root>>] # NoPage \/ k = e
    BY <1>9, <1>10, WordKinds
  <2> QED
    BY <2>1, <2>2 DEF Created, SysExofork, space, alive, Exists
<1> QED
  BY <1>8, <1>11, <1>15, <1>16

(* env_free()                                                              *)
LEMMA ForgetStep ==
    ASSUME MemOK, RightsOK, NEW e \in Envs, Forget(e), dying' \in SUBSET Envs
    PROVE  /\ MemOK' /\ RightsOK' /\ Destroyed(e)
           /\ \A k \in Envs \ {e} : entry'[<<k, Root>>] = entry[<<k, Root>>]
           /\ \A k \in Envs \ {e}, va \in VAs : entry'[<<k, va>>] = entry[<<k, va>>]
<1>1. mem \in Memory /\ Exact(mem, {}, {}) /\ mem.entry = entry /\ Tree(entry)
  BY DEF MemOK, mem
<1>2. PICK n : n = EnvFree(mem, e)
  OBVIOUS
<1>3. n \in Memory /\ n.entry = Without(entry, e) /\ Exact(n, {}, {}) /\ Tree(n.entry)
  BY <1>1, <1>2, EnvFreeExact
<1>4. SetMem(n)
  BY <1>2 DEF Forget
<1>5. MemOK' /\ entry' = n.entry
  BY <1>3, <1>4, NewMemory
<1>6. \A x \in Words : entry'[x] = IF x[1] = e THEN NoPage ELSE entry[x]
  BY <1>3, <1>5 DEF Without
<1>7. RightsOK'
  <2>1. \A x \in writable : x \in Words
    BY DEF RightsOK, Words, Entries
  <2>2. writable' = {x \in writable : x[1] # e}
    BY DEF Forget
  <2>3. parent' \in [Envs -> Envs \cup {NoEnv}]
    BY DEF Forget, RightsOK
  <2> QED
    BY <1>6, <2>1, <2>2, <2>3 DEF RightsOK
<1>8. /\ \A k \in Envs \ {e} : entry'[<<k, Root>>] = entry[<<k, Root>>]
      /\ \A k \in Envs \ {e}, va \in VAs : entry'[<<k, va>>] = entry[<<k, va>>]
  BY <1>6, WordKinds
<1>9. Destroyed(e)
  <2>1. \A x \in Envs \X VAs : entry'[x] = IF x[1] = e THEN NoPage ELSE entry[x]
    BY <1>6 DEF Words, Entries
  <2>2. \A k \in Envs : entry'[<<k, Root>>] # NoPage <=> entry[<<k, Root>>] # NoPage /\ k # e
    BY <1>6, WordKinds
  <2>3. writable' = {x \in writable : x[1] # e}
    BY DEF Forget
  <2> QED
    BY <2>1, <2>2, <2>3 DEF Destroyed, space, alive, Exists
<1> QED
  BY <1>5, <1>7, <1>8, <1>9

LEMMA DestroyStep ==
    ASSUME MemOK, RightsOK, CpuOK, NEW c \in CPUS, NEW e \in Envs, DestroyChild(c, e)
    PROVE  /\ MemOK' /\ RightsOK' /\ CpuOK'
           /\ Destroyed(e) \/ Kept
<1>1. e # cr3[c] /\ Return(c)
  BY DEF DestroyChild
<1>2. CASE /\ Elsewhere(c, e)
           /\ dying' = dying \cup {e}
           /\ UNCHANGED <<memVars, writable, parent>>
  <2>1. UNCHANGED <<pp_ref, page_free_list, entry, writable, parent>>
    BY <1>2 DEF memVars
  <2>2. MemOK'
    BY <2>1 DEF MemOK, mem
  <2>3. RightsOK'
    BY <1>2, <2>1 DEF RightsOK
  <2>4. cr3[c] \in Envs \cup {NoEnv} /\ Load(c, cr3[c])
    BY <1>1 DEF CpuOK, Return
  <2>5. cr3[c] # NoEnv => entry'[<<cr3[c], Root>>] # NoPage /\ ~Elsewhere(c, cr3[c])
    BY <2>1 DEF CpuOK, Loaded, Exists, Elsewhere
  <2>6. \A d \in CPUS \ {c} : cr3[d] # NoEnv =>
               /\ entry'[<<cr3[d], Root>>] # NoPage
               /\ \A va \in VAs : entry'[<<cr3[d], va>>] = entry[<<cr3[d], va>>]
    BY <2>1 DEF CpuOK, Loaded, Exists
  <2>7. \A k \in dying' : (k \in dying /\ k # cr3[c]) \/ k = cr3[c] \/ Elsewhere(c, k)
    BY <1>2
  <2>8. CpuOK'
    BY <2>4, <2>5, <2>6, <2>7, Loading
  <2>9. Kept
    BY <2>1 DEF Kept, space, alive, Exists
  <2> QED
    BY <2>2, <2>3, <2>8, <2>9
<1>3. CASE ~Elsewhere(c, e) /\ Forget(e) /\ UNCHANGED dying
  <2>1. dying' \in SUBSET Envs
    BY <1>3 DEF RightsOK
  <2>2. /\ MemOK' /\ RightsOK' /\ Destroyed(e)
        /\ \A k \in Envs \ {e} : entry'[<<k, Root>>] = entry[<<k, Root>>]
        /\ \A k \in Envs \ {e}, va \in VAs : entry'[<<k, va>>] = entry[<<k, va>>]
    BY <1>3, <2>1, ForgetStep
  <2>3. \A k \in Envs : cr3[c] = k \/ k # e =>
               (entry[<<k, Root>>] # NoPage => entry'[<<k, Root>>] # NoPage)
    BY <1>1, <2>2
  <2>4. CpuOK'
    BY <1>1, <1>3, <2>2, <2>3, Returning
  <2> QED
    BY <2>2, <2>4
<1> QED
  BY <1>2, <1>3 DEF DestroyChild

(* A processor that leaves the environment it ran, which is gone.          *)
LEMMA LeaveStep ==
    ASSUME MemOK, RightsOK, CpuOK, NEW c \in CPUS, cr3[c] # NoEnv,
           Forget(cr3[c]), Schedule(c, cr3[c]), dying' = dying \ {cr3[c]}
    PROVE  /\ MemOK' /\ RightsOK' /\ CpuOK'
           /\ \E e \in Envs : Destroyed(e)
<1>1. cr3[c] \in Envs /\ dying' \in SUBSET Envs
  BY DEF CpuOK, RightsOK
<1>2. PICK e \in Envs : e = cr3[c]
  BY <1>1
<1>3. /\ MemOK' /\ RightsOK' /\ Destroyed(e)
      /\ \A k \in Envs \ {e} : entry'[<<k, Root>>] = entry[<<k, Root>>]
      /\ \A k \in Envs \ {e}, va \in VAs : entry'[<<k, va>>] = entry[<<k, va>>]
  BY <1>1, <1>2, ForgetStep
<1>4. CpuOK'
  BY <1>2, <1>3, Scheduling
<1> QED
  BY <1>3, <1>4

LEMMA SwitchStep ==
    ASSUME MemOK, RightsOK, CpuOK, NEW c \in CPUS, Switch(c)
    PROVE  /\ MemOK' /\ RightsOK' /\ CpuOK'
           /\ Kept
<1>1. UNCHANGED <<pp_ref, page_free_list, entry, writable, parent, dying>>
  BY DEF Switch, memVars
<1>2. Schedule(c, NoEnv) /\ dying' = dying \ {cr3[c]}
  BY <1>1 DEF Switch
<1>3. MemOK' /\ RightsOK'
  BY <1>1 DEF MemOK, mem, RightsOK
<1>4. CpuOK'
  BY <1>1, <1>2, Scheduling
<1>5. Kept
  BY <1>1 DEF Kept, space, alive, Exists
<1> QED
  BY <1>3, <1>4, <1>5

LEMMA TouchStep ==
    ASSUME MemOK, RightsOK, CpuOK, NEW c \in CPUS, NEW va \in VAs, Touch(c, va)
    PROVE  /\ MemOK' /\ RightsOK' /\ CpuOK'
           /\ Kept
<1>1. UNCHANGED <<pp_ref, page_free_list, entry, writable, parent, dying, cr3>>
  BY DEF Touch, memVars
<1>2. MemOK' /\ RightsOK'
  BY <1>1 DEF MemOK, mem, RightsOK
<1>3. cr3[c] \in Envs /\ entry[<<cr3[c], va>>] \in Pages
  BY WordKinds DEF Touch, CpuOK, MemOK, mem, Memory
<1>4. tlb' = [tlb EXCEPT ![c][va] = entry[<<cr3[c], va>>]]
  BY DEF Touch
<1>5. tlb' \in [CPUS -> [VAs -> Pages \cup {NoPage}]]
  BY <1>3, <1>4 DEF CpuOK
<1>6. \A d \in CPUS, a \in VAs :
         tlb'[d][a] = IF d = c /\ a = va THEN entry[<<cr3[c], va>>] ELSE tlb[d][a]
  BY <1>4 DEF CpuOK
<1>7. TlbFresh'
  <2>1. \A d \in CPUS, a \in VAs : tlb[d][a] # NoPage =>
           cr3[d] # NoEnv /\ tlb[d][a] = entry[<<cr3[d], a>>]
    BY DEF CpuOK, TlbFresh
  <2>2. cr3[c] # NoEnv /\ cr3' = cr3 /\ entry' = entry
    BY <1>1 DEF Touch
  <2>3. \A d \in CPUS, a \in VAs : tlb'[d][a] # NoPage =>
           cr3'[d] # NoEnv /\ tlb'[d][a] = entry'[<<cr3'[d], a>>]
    BY <1>6, <2>1, <2>2
  <2> QED
    BY <2>3 DEF TlbFresh
<1>8. Loaded'
  BY <1>1 DEF Loaded, CpuOK, Exists
<1>9. Kept
  BY <1>1 DEF Kept, space, alive, Exists
<1> QED
  BY <1>1, <1>2, <1>5, <1>7, <1>8, <1>9 DEF CpuOK

Change ==
    \/ \E x \in Envs \X VAs, w \in BOOLEAN :
          Allocated(x, w) \/ \E y \in Envs \X VAs : Mapped(x, y, w)
    \/ \E x \in Envs \X VAs : Unmapped(x)
    \/ \E e \in Envs : Created(e) \/ Destroyed(e)
    \/ Kept

LEMMA Steps ==
    ASSUME IInv, Below, NEW c \in CPUS, Step(c)
    PROVE  IInv' /\ Change
<1> USE Parts, PartsNext DEF Change
<1>1. CASE Switch(c)
  BY <1>1, SwitchStep
<1>2. CASE Exit(c)
  <2>1. /\ cr3[c] # NoEnv /\ Forget(cr3[c]) /\ Schedule(c, cr3[c])
        /\ dying' = dying \ {cr3[c]}
    BY <1>2 DEF Exit, Enter
  <2> QED
    BY <2>1, LeaveStep
<1>3. CASE Reap(c)
  <2>1. /\ cr3[c] # NoEnv /\ Forget(cr3[c]) /\ Schedule(c, cr3[c])
        /\ dying' = dying \ {cr3[c]}
    BY <1>3, EnvsAssumption DEF Reap, RightsOK
  <2> QED
    BY <2>1, LeaveStep
<1>4. ASSUME NEW va \in VAs, Touch(c, va) PROVE IInv' /\ Change
  BY <1>4, TouchStep
<1>5. ASSUME NEW e \in Envs, SysExofork(c, e) PROVE IInv' /\ Change
  BY <1>5, ExoforkStep
<1>6. ASSUME NEW e \in Envs, DestroyChild(c, e) PROVE IInv' /\ Change
  BY <1>6, DestroyStep
<1>7. ASSUME NEW e \in Envs, NEW va \in VAs, Unmap(c, e, va) PROVE IInv' /\ Change
  BY <1>7, UnmapStep
<1>8. ASSUME NEW e \in Envs, NEW va \in VAs, NEW w \in BOOLEAN, Alloc(c, e, va, w)
      PROVE  IInv' /\ Change
  BY <1>8, AllocStep
<1>9. ASSUME NEW e \in Envs, NEW va \in VAs, NEW sva \in VAs, NEW w \in BOOLEAN,
             Send(c, sva, e, va, w)
      PROVE  IInv' /\ Change
  <2>1. /\ cr3[c] \in Envs /\ entry[<<cr3[c], sva>>] # NoPage
        /\ Exists(e) /\ ~Elsewhere(c, e) /\ MapPage(cr3[c], sva, e, va, w)
        /\ Return(c) /\ UNCHANGED <<parent, dying>>
    BY <1>9 DEF Send, Enter, SysIpcTrySend, CpuOK
  <2> QED
    BY <2>1, MapStep
<1>10. ASSUME NEW e \in Envs, NEW va \in VAs, NEW sva \in VAs, NEW w \in BOOLEAN,
              NEW src \in Envs, Share(c, src, sva, e, va, w)
       PROVE  IInv' /\ Change
  <2>1. /\ entry[<<src, sva>>] # NoPage
        /\ Exists(e) /\ ~Elsewhere(c, e) /\ MapPage(src, sva, e, va, w)
        /\ Return(c) /\ UNCHANGED <<parent, dying>>
    BY <1>10 DEF Share, SysPageMap, Permitted
  <2> QED
    BY <2>1, MapStep
<1> QED
  BY <1>1, <1>2, <1>3, <1>4, <1>5, <1>6, <1>7, <1>8, <1>9, <1>10 DEF Step

(* The first environment has a page, its page table and its directory.     *)
LEMMA Start == Init => IInv
<1> SUFFICES ASSUME Init PROVE MemOK /\ RightsOK /\ CpuOK
  BY Parts
<1> DEFINE dir   == NPAGES-1
           page  == NPAGES-2
           table == NPAGES-3
           x == <<BootEnv, Root>>
           y == <<BootEnv, BootVa>>
           z == <<BootEnv, PDX[BootVa]>>
<1>1. /\ x \in Words /\ y \in Words /\ z \in Words /\ x # y /\ y # z /\ x # z
      /\ x[2] \notin VAs /\ z[2] \notin VAs
  BY EnvsAssumption, WordsAssumption, WordKinds
<1>2. /\ dir \in Pages \ {0} /\ page \in Pages \ {0} /\ table \in Pages \ {0}
      /\ dir # page /\ dir # table /\ page # table
      /\ NoPage \notin Pages /\ 0 \in Pages
      /\ \A p \in Pages : p >= table <=> p \in {dir, page, table}
      /\ \A p \in Pages : p \in 1..table-1 <=> p # 0 /\ p \notin {dir, page, table}
  BY PagesAssumption DEF Pages
<1>3. entry = [w \in Words |-> IF w = x THEN dir ELSE IF w = y THEN page
                               ELSE IF w = z THEN table ELSE NoPage]
  BY DEF Init
<1>4. /\ pp_ref = [p \in Pages |-> IF p = 0 \/ p \in {dir, page, table} THEN 1 ELSE 0]
      /\ page_free_list = 1..table-1 /\ 1..table-1 \subseteq Pages
  BY <1>2, PagesAssumption DEF Init, Pages
<1> HIDE DEF dir, page, table
<1>5. /\ Refs(entry, dir) = {x} /\ Refs(entry, page) = {y} /\ Refs(entry, table) = {z}
      /\ \A p \in Pages : p \notin {dir, page, table} => Refs(entry, p) = {}
  <2> HIDE DEF x, y, z
  <2> QED
    BY <1>1, <1>2, <1>3 DEF Refs
<1>6. mem \in Memory
  <2>1. pp_ref \in [Pages -> 0..RefLimit-1]
    BY <1>4, RefAssumption
  <2>2. entry \in [Words -> Pages \cup {NoPage}]
    BY <1>2, <1>3
  <2> QED
    BY <1>4, <2>1, <2>2 DEF mem, Memory
<1>7. Exact(mem, {}, {})
  <2>1. /\ \A p \in {dir, page, table} : Cardinality(Refs(entry, p)) = 1 /\ Refs(entry, p) # {}
        /\ \A p \in Pages : p \notin {dir, page, table} => Cardinality(Refs(entry, p)) = 0
    BY <1>5, FS_Singleton, FS_EmptySet
  <2>2. \A p \in Pages \ {0} : pp_ref[p] = Cardinality(Refs(entry, p))
    BY <1>4, <2>1
  <2>3. page_free_list = {p \in Pages \ {0} : Refs(entry, p) = {}}
    BY <1>2, <1>4, <1>5, <2>1
  <2>4. \A p \in Pages : Cardinality(Refs(entry, p)) \in Nat
    BY RefsFinite
  <2> QED
    BY <2>2, <2>3, <2>4 DEF Exact, mem
<1>8. Tree(entry)
  <2>1. \A w \in Words : entry[w] # 0
    BY <1>2, <1>3
  <2>2. \A v, w \in Words : v[2] \notin VAs /\ entry[v] # NoPage /\ entry[w] = entry[v] => v = w
    <3> HIDE DEF x, y, z
    <3> QED
      BY <1>1, <1>2, <1>3
  <2>3. entry[x] # NoPage /\ entry[z] # NoPage
    <3> HIDE DEF x, y, z
    <3> QED
      BY <1>1, <1>2, <1>3
  <2>4. ASSUME NEW e \in Envs, NEW va \in VAs, entry[<<e, va>>] # NoPage
        PROVE  entry[<<e, PDX[va]>>] # NoPage
    <3>1. <<e, va>> = y
      BY <1>1, <1>3, <2>4, WordKinds
    <3> QED
      BY <2>3, <3>1
  <2>5. ASSUME NEW e \in Envs, NEW d \in Dirs, entry[<<e, d>>] # NoPage
        PROVE  entry[<<e, Root>>] # NoPage
    <3>1. <<e, d>> = z
      BY <1>1, <1>3, <2>5, WordKinds, WordsAssumption
    <3> QED
      BY <2>3, <3>1
  <2> QED
    BY <2>1, <2>2, <2>4, <2>5 DEF Tree
<1>9. RightsOK
  <2>1. writable = {y} /\ y \in Envs \X VAs /\ entry[y] # NoPage
    BY <1>1, <1>2, <1>3, EnvsAssumption, WordsAssumption DEF Init
  <2> QED
    BY <2>1 DEF RightsOK, Init
<1>10. CpuOK
  BY EnvsAssumption DEF Init, CpuOK, Loaded, TlbFresh, NoTranslation
<1> QED
  BY <1>6, <1>7, <1>8, <1>9, <1>10 DEF MemOK

-----------------------------------------------------------------------------
(* What every step preserves and does *)

(* The invariant and what the steps do to the address spaces, for every    *)
(* step of the specification.                                              *)
LEMMA Moves ==
    ASSUME IInv, Below, [Next]_vars
    PROVE  IInv' /\ Change
<1>1. CASE Next
  BY <1>1, Steps DEF Next
<1>2. CASE UNCHANGED vars
  <2>1. UNCHANGED <<pp_ref, page_free_list, entry, writable, parent, dying, cr3, tlb>>
    BY <1>2 DEF vars, memVars
  <2>2. MemOK /\ RightsOK /\ CpuOK
    BY Parts
  <2>3. MemOK' /\ RightsOK' /\ CpuOK'
    BY <2>1, <2>2 DEF MemOK, mem, RightsOK, CpuOK, Loaded, Exists, TlbFresh
  <2>4. Kept
    BY <2>1 DEF Kept, space, alive, Exists
  <2> QED
    BY <2>3, <2>4, PartsNext DEF Change
<1> QED
  BY <1>1, <1>2

(* Where the right to write comes from.                                    *)
LEMMA Granted ==
    ASSUME IInv, Change, IInv'
    PROVE  WriteIsGiven
<1>1. /\ writable \subseteq Envs \X VAs /\ writable' \subseteq Envs \X VAs
      /\ \A x \in Envs \X VAs : space[x] = entry[x] /\ space'[x] = entry'[x]
      /\ space \in [Envs \X VAs -> Pages \cup {NoPage}]
  <2>1. \A x \in Envs \X VAs : x \in Words
    BY DEF Words, Entries
  <2> QED
    BY <2>1 DEF IInv, TypeOK, space
<1>2. SUFFICES ASSUME NEW p \in Pages, NEW x \in writable', space'[x] = p, ~CanWrite(p)
               PROVE  p \in page_free_list
  BY <1>1 DEF WriteIsGiven, CanWrite
<1>3. x \in Envs \X VAs /\ \A y \in writable : space[y] # p
  BY <1>1, <1>2 DEF CanWrite
<1>4. CASE \E y \in Envs \X VAs, w \in BOOLEAN : Allocated(y, w)
  BY <1>1, <1>2, <1>3, <1>4 DEF Allocated, SetWritable
<1>5. CASE \E y, z \in Envs \X VAs, w \in BOOLEAN : Mapped(y, z, w)
  <2>1. PICK y \in Envs \X VAs, z \in Envs \X VAs, w \in BOOLEAN : Mapped(y, z, w)
    BY <1>5
  <2>2. y = <<y[1], y[2]>>
    OBVIOUS
  <2> QED
    BY <1>1, <1>2, <1>3, <2>1, <2>2 DEF Mapped, MayGrant, SetWritable
<1>6. CASE \E y \in Envs \X VAs : Unmapped(y)
  BY <1>1, <1>2, <1>3, <1>6 DEF Unmapped, SetWritable
<1>7. CASE \E e \in Envs : Created(e)
  BY <1>2, <1>3, <1>7 DEF Created
<1>8. CASE \E e \in Envs : Destroyed(e)
  BY <1>1, <1>2, <1>3, <1>8 DEF Destroyed
<1>9. CASE Kept
  BY <1>2, <1>3, <1>9 DEF Kept
<1> QED
  BY <1>4, <1>5, <1>6, <1>7, <1>8, <1>9 DEF Change

(* Each of them is a step of the abstract address spaces.                  *)
LEMMA Refines ==
    ASSUME IInv, Change
    PROVE  [Abstract!Next]_(Abstract!avars)
<1> USE DEF Abstract!SetWritable, SetWritable
<1>1. \A x \in Envs \X VAs : x = <<x[1], x[2]>> /\ x[1] \in Envs /\ x \in Words
  BY DEF Words, Entries
<1>2. \A x \in Envs \X VAs : space[x] = entry[x]
  BY DEF space
<1>3. ASSUME NEW x \in Envs \X VAs, NEW w \in BOOLEAN, Allocated(x, w)
      PROVE  Abstract!Next
  <2>1. PICK p \in Pages \ {0} :
          /\ Refs(entry, p) = {} /\ Exists(x[1])
          /\ space' = [space EXCEPT ![x] = p] /\ alive' = alive
          /\ SetWritable(x, w)
    BY <1>3 DEF Allocated
  <2>2. Abstract!Allocate(x, p, w)
    BY <1>1, <1>2, <2>1 DEF Abstract!Allocate, Refs, alive
  <2> QED
    BY <2>2 DEF Abstract!Next
<1>4. ASSUME NEW x \in Envs \X VAs, NEW y \in Envs \X VAs, NEW w \in BOOLEAN,
             Mapped(x, y, w)
      PROVE  Abstract!Next
  <2>1. x[1] \in alive /\ y[1] \in alive
    <3>1. entry[<<x[1], x[2]>>] # NoPage /\ x[2] \in VAs /\ Exists(y[1])
      BY <1>1, <1>2, <1>4 DEF Mapped
    <3>2. entry[<<x[1], PDX[x[2]]>>] # NoPage /\ PDX[x[2]] \in Dirs
      BY <1>1, <3>1, WordsAssumption DEF IInv, Shape, HasTable
    <3>3. Exists(x[1])
      BY <1>1, <3>2 DEF IInv, Shape
    <3> QED
      BY <1>1, <3>1, <3>3 DEF alive
  <2>2. Abstract!Map(x, y, w)
    BY <1>1, <1>4, <2>1 DEF Mapped, MayGrant, Abstract!Map
  <2> QED
    BY <2>2 DEF Abstract!Next
<1>5. ASSUME NEW x \in Envs \X VAs, Unmapped(x) PROVE Abstract!Next
  BY <1>5 DEF Unmapped, Abstract!Unmap, Abstract!Next
<1>6. ASSUME NEW e \in Envs, Created(e) PROVE Abstract!Next
  BY <1>6 DEF Created, alive, Abstract!Create, Abstract!Next
<1>7. ASSUME NEW e \in Envs, Destroyed(e) PROVE Abstract!Next
  BY <1>7 DEF Destroyed, Abstract!Destroy, Abstract!Next
<1>8. ASSUME Kept PROVE UNCHANGED Abstract!avars
  BY <1>8 DEF Kept, Abstract!avars
<1> QED
  BY <1>3, <1>4, <1>5, <1>6, <1>7, <1>8 DEF Change

LEMMA AbstractStart == Init => Abstract!Init
<1> SUFFICES ASSUME Init PROVE Abstract!Init
  OBVIOUS
<1>1. /\ <<BootEnv, Root>> # <<BootEnv, BootVa>>
      /\ <<BootEnv, PDX[BootVa]>> # <<BootEnv, BootVa>>
      /\ \A x \in Envs \X VAs : x[2] # Root /\ x[2] # PDX[BootVa] /\ x \in Words
      /\ \A e \in Envs : <<e, Root>> \in Words
      /\ PDX[BootVa] # Root
  BY WordsAssumption, WordKinds DEF Words, Entries
<1>2. NPAGES-2 \in Pages /\ NPAGES-1 # NoPage
  BY PagesAssumption DEF Pages
<1>3. space = [x \in Envs \X VAs |-> IF x = <<BootEnv, BootVa>> THEN NPAGES-2 ELSE NoPage]
  BY <1>1 DEF Init, space
<1>4. alive = {BootEnv}
  BY <1>1, <1>2, EnvsAssumption DEF Init, alive, Exists
<1> QED
  BY <1>2, <1>3, <1>4 DEF Init, Abstract!Init

-----------------------------------------------------------------------------
(* Theorems *)

(* As long as no page has as many references as pp_ref can count, the      *)
(* counts and the free list stay exact and the page tables private,        *)
(* whatever the processors do.                                             *)
THEOREM Invariance == Spec /\ []Below => []IInv
<1>1. IInv /\ Below /\ [Next]_vars => IInv'
  BY Moves
<1> QED
  BY <1>1, Start, PTL DEF Spec

(* No page is free while a word refers to it, and none is lost.            *)
THEOREM Frees == Spec /\ []Below => []FreeExact
<1>1. IInv => FreeExact
  BY DEF IInv
<1> QED
  BY <1>1, Invariance, PTL

(* No program reaches a page table, its own or another's.                  *)
THEOREM Tables == Spec /\ []Below => []TablesArePrivate
<1>1. IInv => TablesArePrivate
  BY DEF IInv
<1> QED
  BY <1>1, Invariance, PTL

(* No processor uses a translation that has been unmapped or replaced.     *)
THEOREM Translations == Spec /\ []Below => []TlbFresh
<1>1. IInv => TlbFresh
  BY DEF IInv
<1> QED
  BY <1>1, Invariance, PTL

(* Write access to a page comes from its allocation or from a writer.      *)
THEOREM Rights == Spec /\ []Below => WriteDescends
<1>1. IInv /\ Below /\ [Next]_vars => WriteIsGiven
  BY Moves, Granted
<1> QED
  BY <1>1, Invariance, PTL DEF Spec, WriteDescends

(* The memory implements the abstract address spaces.                      *)
THEOREM Implementation == Spec /\ []Below => ImplementsAddressSpaces
<1>1. IInv /\ Below /\ [Next]_vars => [Abstract!Next]_(Abstract!avars)
  BY Moves, Refines
<1> QED
  BY <1>1, AbstractStart, Invariance, PTL DEF Spec, ImplementsAddressSpaces, Abstract!Spec

(* In a machine with fewer words than pp_ref can count, always.            *)
THEOREM SmallMachines ==
    ASSUME Cardinality(Words) + 1 < RefLimit
    PROVE  Spec => []IInv
<1>1. Below
  <2> SUFFICES ASSUME NEW p \in Pages PROVE Cardinality(Users(p)) + 1 < RefLimit
    BY DEF Below
  <2>1. /\ IsFiniteSet(Users(p)) /\ Cardinality(Users(p)) \in Nat
        /\ Cardinality(Users(p)) <= Cardinality(Words) /\ Cardinality(Words) \in Nat
    BY WordsFinite, FS_Subset, FS_CardinalityType DEF Users
  <2> QED
    BY <2>1, RefAssumption
<1> QED
  BY <1>1, Invariance, PTL
=============================================================================
