---------------------------- MODULE DatabaseProofs ----------------------------
(***************************************************************************)
(* Of the migrations, for any variables, rows and routing code and any     *)
(* commands: the version decides the schema, which commands run, and what  *)
(* the cells hold stays.  The theorems take from the 42 scripts what       *)
(* ScriptsAssumption says of each of them on its own, without any row.     *)
(* Of the lifecycle, for any organizations, users and projects and any     *)
(* number of stops: deletions that follow the keys of the schema leave no  *)
(* objects behind without a reason, and no work of a user goes with the    *)
(* user.  Of the rules of the keys only AuthorsAssumption is used.         *)
(***************************************************************************)
EXTENDS MCDatabase, WellFoundedInduction, TLAPS

-----------------------------------------------------------------------------
\* A set of numbers that is not empty has a least one: the library states it
\* for every relation that is well-founded, and < on the numbers is.
LEMMA Least ==
  ASSUME NEW T \in SUBSET Nat, T # {}
  PROVE  \E x \in T : \A y \in T : x <= y
<1> DEFINE R == OpToRel(<, Nat)
<1>1. IsWellFoundedOn(R, Nat)
  BY NatLessThanWellFounded
<1>2. \A x, y \in Nat : x < y => <<x, y>> \in R
  BY DEF OpToRel
<1> HIDE DEF R
<1>3. PICK x \in T : \A y \in T : <<y, x>> \notin R
  BY <1>1, WFMin
<1>4. ASSUME NEW y \in T PROVE x <= y
  <2>1. x \in Nat /\ y \in Nat /\ ~(y < x)
    BY <1>2, <1>3
  <2> QED
    BY <2>1
<1> QED
  BY <1>4

\* Induction, for a set of numbers instead of a predicate.
LEMMA Induct ==
  ASSUME NEW S, 0 \in S, \A n \in Nat : n \in S => n + 1 \in S
  PROVE  \A n \in Nat : n \in S
<1> SUFFICES ASSUME Nat \ S # {} PROVE FALSE
  OBVIOUS
<1>1. PICK x \in Nat \ S : \A y \in Nat \ S : x <= y
  BY Least
<1>2. x # 0 /\ x - 1 \in Nat
  BY <1>1
<1>3. x - 1 \in S
  BY <1>1, <1>2
<1> QED
  BY <1>1, <1>2, <1>3

\* The recursive functions of the model are what their definitions say: there is
\* such a function up to 0, and one up to m gives one up to m + 1.
LEMMA AfterDef ==
  ASSUME NEW base, NEW script, Len(script) \in Nat
  PROVE  After(base, script) =
           [n \in 0..Len(script) |->
              IF n = 0 THEN base ELSE RunOp(After(base, script)[n - 1], script[n])]
<1> DEFINE F(g, m) == [n \in 0..m |-> IF n = 0 THEN base ELSE RunOp(g[n - 1], script[n])]
           S == {m \in Nat : \E g : g = F(g, m)}
<1>1. 0 \in S
  <2>1. [n \in 0..0 |-> base] = F([n \in 0..0 |-> base], 0)
    OBVIOUS
  <2> QED
    BY <2>1
<1>2. ASSUME NEW m \in Nat, m \in S PROVE m + 1 \in S
  <2>1. PICK g : g = F(g, m)
    BY <1>2
  <2> DEFINE h == [n \in 0..(m + 1) |-> IF n = m + 1 THEN RunOp(g[m], script[m + 1]) ELSE g[n]]
  <2>2. \A n \in 0..m : h[n] = g[n]
    OBVIOUS
  <2>3. ASSUME NEW n \in 0..(m + 1) PROVE h[n] = IF n = 0 THEN base ELSE RunOp(h[n - 1], script[n])
    <3>1. CASE n = m + 1
      <4>1. n # 0 /\ n - 1 = m /\ h[n - 1] = g[m]
        BY <3>1, <2>2
      <4>2. h[n] = RunOp(g[m], script[m + 1])
        BY <3>1
      <4> QED
        BY <3>1, <4>1, <4>2
    <3>2. CASE n \in 0..m
      <4>1. h[n] = g[n] /\ (n # 0 => n - 1 \in 0..m /\ h[n - 1] = g[n - 1])
        BY <2>2, <3>2
      <4>2. g[n] = IF n = 0 THEN base ELSE RunOp(g[n - 1], script[n])
        BY <2>1, <3>2
      <4> QED
        BY <4>1, <4>2
    <3> QED
      BY <3>1, <3>2
  <2>4. h = [n \in 0..(m + 1) |-> h[n]]
    OBVIOUS
  <2> HIDE DEF h
  <2>5. h = F(h, m + 1)
    BY <2>3, <2>4
  <2> QED
    BY <2>5
<1>3. Len(script) \in S
  BY <1>1, <1>2, Induct
<1>4. \E g : g = F(g, Len(script))
  BY <1>3
<1>5. After(base, script) = CHOOSE g : g = F(g, Len(script))
  BY DEF After
<1> QED
  BY <1>4, <1>5

LEMMA PathsDef ==
  ASSUME NEW script, Len(script) \in Nat
  PROVE  Paths(script) =
           [n \in 0..Len(script) |->
              IF n = 0 THEN {<<k, k>> : k \in Carrying} ELSE Follow(Paths(script)[n - 1], script[n])]
<1> DEFINE F(g, m) == [n \in 0..m |-> IF n = 0 THEN {<<k, k>> : k \in Carrying} ELSE Follow(g[n - 1], script[n])]
           S == {m \in Nat : \E g : g = F(g, m)}
<1>1. 0 \in S
  <2>1. [n \in 0..0 |-> {<<k, k>> : k \in Carrying}] = F([n \in 0..0 |-> {<<k, k>> : k \in Carrying}], 0)
    OBVIOUS
  <2> QED
    BY <2>1
<1>2. ASSUME NEW m \in Nat, m \in S PROVE m + 1 \in S
  <2>1. PICK g : g = F(g, m)
    BY <1>2
  <2> DEFINE h == [n \in 0..(m + 1) |-> IF n = m + 1 THEN Follow(g[m], script[m + 1]) ELSE g[n]]
  <2>2. \A n \in 0..m : h[n] = g[n]
    OBVIOUS
  <2>3. ASSUME NEW n \in 0..(m + 1) PROVE h[n] = IF n = 0 THEN {<<k, k>> : k \in Carrying} ELSE Follow(h[n - 1], script[n])
    <3>1. CASE n = m + 1
      <4>1. n # 0 /\ n - 1 = m /\ h[n - 1] = g[m]
        BY <3>1, <2>2
      <4>2. h[n] = Follow(g[m], script[m + 1])
        BY <3>1
      <4> QED
        BY <3>1, <4>1, <4>2
    <3>2. CASE n \in 0..m
      <4>1. h[n] = g[n] /\ (n # 0 => n - 1 \in 0..m /\ h[n - 1] = g[n - 1])
        BY <2>2, <3>2
      <4>2. g[n] = IF n = 0 THEN {<<k, k>> : k \in Carrying} ELSE Follow(g[n - 1], script[n])
        BY <2>1, <3>2
      <4> QED
        BY <4>1, <4>2
    <3> QED
      BY <3>1, <3>2
  <2>4. h = [n \in 0..(m + 1) |-> h[n]]
    OBVIOUS
  <2> HIDE DEF h
  <2>5. h = F(h, m + 1)
    BY <2>3, <2>4
  <2> QED
    BY <2>5
<1>3. Len(script) \in S
  BY <1>1, <1>2, Induct
<1>4. \E g : g = F(g, Len(script))
  BY <1>3
<1>5. Paths(script) = CHOOSE g : g = F(g, Len(script))
  BY DEF Paths
<1> QED
  BY <1>4, <1>5

LEMMA UpgradesDef ==
  ASSUME NEW d, NEW v \in Nat, NEW w \in Nat, v <= w
  PROVE  Upgrades(d, v, w) =
           [n \in v..w |->
              IF n = v THEN d ELSE RunScript(Upgrades(d, v, w)[n - 1], Revisions[n].up)]
<1> DEFINE F(g, m) == [n \in v..m |-> IF n = v THEN d ELSE RunScript(g[n - 1], Revisions[n].up)]
           S == {m \in Nat : \E g : g = F(g, v + m)}
<1>1. 0 \in S
  <2>1. [n \in v..v |-> d] = F([n \in v..v |-> d], v)
    OBVIOUS
  <2>2. v + 0 = v
    OBVIOUS
  <2> QED
    BY <2>1, <2>2
<1>2. ASSUME NEW m \in Nat, m \in S PROVE m + 1 \in S
  <2>1. PICK g : g = F(g, v + m)
    BY <1>2
  <2> DEFINE q == v + m
             h == [n \in v..(q + 1) |-> IF n = q + 1 THEN RunScript(g[q], Revisions[q + 1].up) ELSE g[n]]
  <2>0. q \in Nat /\ v <= q /\ q + 1 = v + (m + 1)
    OBVIOUS
  <2> HIDE DEF q
  <2>2. \A n \in v..q : h[n] = g[n]
    BY <2>0
  <2>3. ASSUME NEW n \in v..(q + 1) PROVE h[n] = IF n = v THEN d ELSE RunScript(h[n - 1], Revisions[n].up)
    <3>1. CASE n = q + 1
      <4>1. n # v /\ n - 1 = q /\ h[n - 1] = g[q]
        BY <3>1, <2>0, <2>2
      <4>2. h[n] = RunScript(g[q], Revisions[q + 1].up)
        BY <3>1
      <4> QED
        BY <3>1, <4>1, <4>2
    <3>2. CASE n \in v..q
      <4>1. h[n] = g[n] /\ (n # v => n - 1 \in v..q /\ h[n - 1] = g[n - 1])
        BY <2>0, <2>2, <3>2
      <4>2. g[n] = IF n = v THEN d ELSE RunScript(g[n - 1], Revisions[n].up)
        BY <2>1, <3>2 DEF q
      <4> QED
        BY <4>1, <4>2
    <3> QED
      BY <2>0, <3>1, <3>2
  <2>4. h = [n \in v..(q + 1) |-> h[n]]
    OBVIOUS
  <2> HIDE DEF h
  <2>5. h = F(h, q + 1)
    BY <2>3, <2>4
  <2>6. h = F(h, v + (m + 1))
    BY <2>0, <2>5
  <2>7. \E f : f = F(f, v + (m + 1))
    <3> HIDE DEF F
    <3> QED
      BY <2>6
  <2> QED
    BY <2>7
<1>3. w - v \in S
  <2>1. w - v \in Nat
    OBVIOUS
  <2> QED
    BY <1>1, <1>2, <2>1, Induct
<1>4. \E g : g = F(g, w)
  <2>1. v + (w - v) = w
    OBVIOUS
  <2> QED
    BY <1>3, <2>1
<1>5. Upgrades(d, v, w) = CHOOSE g : g = F(g, w)
  BY DEF Upgrades
<1> QED
  BY <1>4, <1>5

\* No script has run at the version a command starts from.
LEMMA UpgradesStart ==
  ASSUME NEW d, NEW v \in Nat, NEW w \in Nat, v <= w
  PROVE  Upgrades(d, v, w)[v] = d
<1>1. v \in v..w
  OBVIOUS
<1> DEFINE f == Upgrades(d, v, w)
<1>2. f = [n \in v..w |-> IF n = v THEN d ELSE RunScript(f[n - 1], Revisions[n].up)]
  BY UpgradesDef
<1> HIDE DEF f
<1>3. f[v] = d
  BY <1>1, <1>2
<1> QED
  BY <1>3 DEF f

-----------------------------------------------------------------------------
\* A database as a record, and what is left of it without its cells.
IsDatabase(b) ==
  b = [spaces |-> b.spaces, tables |-> b.tables, columns |-> b.columns, keys |-> b.keys,
       indexes |-> b.indexes, cells |-> b.cells, ok |-> b.ok]
Bare(b) == [b EXCEPT !.cells = {}]
\* What an operation asks of the cells.
Resolved(cells, o) ==
  o.op = "key" => \A c \in cells : <<c[1], c[2]>> = <<o.table, o.ref.column>> => IdCell(o.ref.to, c[4]) \in cells

\* Fields of a database without its cells.
LEMMA BareIs ==
  ASSUME NEW b, IsDatabase(b)
  PROVE  /\ IsDatabase(Bare(b)) /\ Bare(b).cells = {} /\ Bare(b).ok = b.ok
         /\ Bare(b).spaces = b.spaces /\ Bare(b).tables = b.tables /\ Bare(b).columns = b.columns
         /\ Bare(b).keys = b.keys /\ Bare(b).indexes = b.indexes
BY DEF IsDatabase, Bare

\* New cells leave everything else alone.
LEMMA CellsOnly ==
  ASSUME NEW b, IsDatabase(b), NEW s
  PROVE  LET e == [b EXCEPT !.cells = s]
         IN /\ IsDatabase(e) /\ e.ok = b.ok /\ Bare(e) = Bare(b) /\ e.cells = s
            /\ e.tables = b.tables /\ e.columns = b.columns
<1> DEFINE e == [b EXCEPT !.cells = s]
<1>1. /\ e.spaces = b.spaces /\ e.tables = b.tables /\ e.columns = b.columns /\ e.keys = b.keys
      /\ e.indexes = b.indexes /\ e.cells = s /\ e.ok = b.ok
  BY DEF IsDatabase
<1>2. IsDatabase(e)
  BY DEF IsDatabase
<1>3. Bare(e) = Bare(b)
  <2> HIDE DEF e
  <2> QED
    BY <1>1, <1>2 DEF IsDatabase, Bare
<1> QED
  BY <1>1, <1>2, <1>3

\* Whether an operation runs is a matter of the schema, and for a key of the
\* cells in its column.
LEMMA RunsBare ==
  ASSUME NEW b, IsDatabase(b), NEW o
  PROVE  Runs(b, o) <=> Runs(Bare(b), o) /\ Resolved(b.cells, o)
<1> DEFINE a == Bare(b)
<1>1. /\ a.cells = {} /\ a.spaces = b.spaces /\ a.tables = b.tables /\ a.columns = b.columns
      /\ a.keys = b.keys /\ a.indexes = b.indexes
  BY BareIs
<1> HIDE DEF a
<1>2. Runs(b, o) <=> Runs(a, o) /\ Resolved(b.cells, o)
  BY <1>1 DEF Runs, Resolved, Resolves
<1> QED
  BY <1>2 DEF a

\* An operation changes the schema in the same way whatever the cells are.
LEMMA EffectBare ==
  ASSUME NEW b, IsDatabase(b), NEW o, Runs(b, o)
  PROVE  /\ IsDatabase(Effect(b, o)) /\ Effect(b, o).ok = b.ok
         /\ Bare(Effect(b, o)) = Effect(Bare(b), o)
<1> DEFINE a == Bare(b)
<1>0. /\ IsDatabase(a) /\ a.cells = {} /\ a.ok = b.ok /\ a.spaces = b.spaces /\ a.tables = b.tables
      /\ a.columns = b.columns /\ a.keys = b.keys /\ a.indexes = b.indexes
  BY BareIs
<1> HIDE DEF a
<1> DEFINE e == Effect(b, o)
           f == Effect(a, o)
<1>1. ASSUME IsDatabase(e), IsDatabase(f), e.ok = b.ok, f.ok = b.ok, f.cells = {},
             f.spaces = e.spaces, f.tables = e.tables, f.columns = e.columns, f.keys = e.keys,
             f.indexes = e.indexes
      PROVE  Bare(e) = f
  <2> HIDE DEF e, f
  <2>1. /\ IsDatabase(Bare(e)) /\ Bare(e).cells = {} /\ Bare(e).ok = e.ok
        /\ Bare(e).spaces = e.spaces /\ Bare(e).tables = e.tables /\ Bare(e).columns = e.columns
        /\ Bare(e).keys = e.keys /\ Bare(e).indexes = e.indexes
    BY <1>1, BareIs
  <2> QED
    BY <1>1, <2>1 DEF IsDatabase
<1>2. CASE o.op = "table"
  <2>1. IsDatabase(e) /\ e.ok = b.ok
    BY <1>2 DEF Effect, IsDatabase
  <2>2. /\ IsDatabase(f) /\ f.ok = b.ok /\ f.cells = {}
    BY <1>0, <1>2 DEF Effect, IsDatabase
  <2>3. /\ f.spaces = e.spaces /\ f.tables = e.tables /\ f.columns = e.columns /\ f.keys = e.keys
        /\ f.indexes = e.indexes
    BY <1>0, <1>2 DEF Effect, IsDatabase
  <2> QED
    BY <1>1, <2>1, <2>2, <2>3 DEF a
<1>3. CASE o.op = "drop"
  <2>1. IsDatabase(e) /\ e.ok = b.ok
    BY <1>3 DEF Effect, IsDatabase
  <2>2. /\ IsDatabase(f) /\ f.ok = b.ok /\ f.cells = {}
    BY <1>0, <1>3 DEF Effect, IsDatabase, Without
  <2>3. /\ f.spaces = e.spaces /\ f.tables = e.tables /\ f.columns = e.columns /\ f.keys = e.keys
        /\ f.indexes = e.indexes
    BY <1>0, <1>3 DEF Effect, IsDatabase
  <2> QED
    BY <1>1, <2>1, <2>2, <2>3 DEF a
<1>4. CASE o.op = "index"
  <2>1. IsDatabase(e) /\ e.ok = b.ok
    BY <1>4 DEF Effect, IsDatabase
  <2>2. /\ IsDatabase(f) /\ f.ok = b.ok /\ f.cells = {}
    BY <1>0, <1>4 DEF Effect, IsDatabase
  <2>3. /\ f.spaces = e.spaces /\ f.tables = e.tables /\ f.columns = e.columns /\ f.keys = e.keys
        /\ f.indexes = e.indexes
    BY <1>0, <1>4 DEF Effect, IsDatabase
  <2> QED
    BY <1>1, <2>1, <2>2, <2>3 DEF a
<1>5. CASE o.op = "unindex"
  <2>1. IsDatabase(e) /\ e.ok = b.ok
    BY <1>5 DEF Effect, IsDatabase
  <2>2. /\ IsDatabase(f) /\ f.ok = b.ok /\ f.cells = {}
    BY <1>0, <1>5 DEF Effect, IsDatabase
  <2>3. /\ f.spaces = e.spaces /\ f.tables = e.tables /\ f.columns = e.columns /\ f.keys = e.keys
        /\ f.indexes = e.indexes
    BY <1>0, <1>5 DEF Effect, IsDatabase
  <2> QED
    BY <1>1, <2>1, <2>2, <2>3 DEF a
<1>6. CASE o.op = "add"
  <2>1. IsDatabase(e) /\ e.ok = b.ok
    BY <1>6 DEF Effect, IsDatabase
  <2>2. /\ IsDatabase(f) /\ f.ok = b.ok /\ f.cells = {}
    BY <1>0, <1>6 DEF Effect, IsDatabase
  <2>3. /\ f.spaces = e.spaces /\ f.tables = e.tables /\ f.columns = e.columns /\ f.keys = e.keys
        /\ f.indexes = e.indexes
    BY <1>0, <1>6 DEF Effect, IsDatabase
  <2> QED
    BY <1>1, <2>1, <2>2, <2>3 DEF a
<1>7. CASE o.op = "remove"
  <2>1. IsDatabase(e) /\ e.ok = b.ok
    BY <1>7 DEF Effect, IsDatabase
  <2>2. /\ IsDatabase(f) /\ f.ok = b.ok /\ f.cells = {}
    BY <1>0, <1>7 DEF Effect, IsDatabase, Off
  <2>3. /\ f.spaces = e.spaces /\ f.tables = e.tables /\ f.columns = e.columns /\ f.keys = e.keys
        /\ f.indexes = e.indexes
    BY <1>0, <1>7 DEF Effect, IsDatabase
  <2> QED
    BY <1>1, <2>1, <2>2, <2>3 DEF a
<1>8. CASE o.op = "key"
  <2>1. IsDatabase(e) /\ e.ok = b.ok
    BY <1>8 DEF Effect, IsDatabase
  <2>2. /\ IsDatabase(f) /\ f.ok = b.ok /\ f.cells = {}
    BY <1>0, <1>8 DEF Effect, IsDatabase
  <2>3. /\ f.spaces = e.spaces /\ f.tables = e.tables /\ f.columns = e.columns /\ f.keys = e.keys
        /\ f.indexes = e.indexes
    BY <1>0, <1>8 DEF Effect, IsDatabase
  <2> QED
    BY <1>1, <2>1, <2>2, <2>3 DEF a
<1>9. CASE o.op = "unkey"
  <2>1. IsDatabase(e) /\ e.ok = b.ok
    BY <1>9 DEF Effect, IsDatabase
  <2>2. /\ IsDatabase(f) /\ f.ok = b.ok /\ f.cells = {}
    BY <1>0, <1>9 DEF Effect, IsDatabase, Off
  <2>3. /\ f.spaces = e.spaces /\ f.tables = e.tables /\ f.columns = e.columns /\ f.keys = e.keys
        /\ f.indexes = e.indexes
    BY <1>0, <1>9 DEF Effect, IsDatabase
  <2> QED
    BY <1>1, <2>1, <2>2, <2>3 DEF a
<1>10. CASE o.op = "space"
  <2>1. IsDatabase(e) /\ e.ok = b.ok
    BY <1>10 DEF Effect, IsDatabase
  <2>2. /\ IsDatabase(f) /\ f.ok = b.ok /\ f.cells = {}
    BY <1>0, <1>10 DEF Effect, IsDatabase
  <2>3. /\ f.spaces = e.spaces /\ f.tables = e.tables /\ f.columns = e.columns /\ f.keys = e.keys
        /\ f.indexes = e.indexes
    BY <1>0, <1>10 DEF Effect, IsDatabase
  <2> QED
    BY <1>1, <2>1, <2>2, <2>3 DEF a
<1>11. CASE o.op = "unspace"
  <2>1. IsDatabase(e) /\ e.ok = b.ok
    BY <1>11 DEF Effect, IsDatabase
  <2>2. /\ IsDatabase(f) /\ f.ok = b.ok /\ f.cells = {}
    BY <1>0, <1>11 DEF Effect, IsDatabase
  <2>3. /\ f.spaces = e.spaces /\ f.tables = e.tables /\ f.columns = e.columns /\ f.keys = e.keys
        /\ f.indexes = e.indexes
    BY <1>0, <1>11 DEF Effect, IsDatabase
  <2> QED
    BY <1>1, <2>1, <2>2, <2>3 DEF a
<1>12. CASE o.op = "copy"
  <2>1. IsDatabase(e) /\ e.ok = b.ok
    BY <1>12 DEF Effect, IsDatabase
  <2>2. /\ IsDatabase(f) /\ f.ok = b.ok /\ f.cells = {}
    BY <1>0, <1>12 DEF Effect, IsDatabase
  <2>3. /\ f.spaces = e.spaces /\ f.tables = e.tables /\ f.columns = e.columns /\ f.keys = e.keys
        /\ f.indexes = e.indexes
    BY <1>0, <1>12 DEF Effect, IsDatabase
  <2> QED
    BY <1>1, <2>1, <2>2, <2>3 DEF a
<1> QED
  BY <1>2, <1>3, <1>4, <1>5, <1>6, <1>7, <1>8, <1>9, <1>10, <1>11, <1>12 DEF Runs, a

\* The cells that come of some first ones along the paths.
Reached(first, paths, x) ==
  \E c \in first : /\ <<<<c[1], c[2]>>, <<x[1], x[2]>>>> \in paths
                   /\ x = <<x[1], x[2], c[3], c[4]>>

\* The cells after an operation.
LEMMA EffectCells ==
  ASSUME NEW b, IsDatabase(b), NEW o, Runs(b, o)
  PROVE  Effect(b, o).cells =
           IF o.op = "drop" THEN {x \in b.cells : x[1] # o.table}
           ELSE IF o.op = "remove" THEN {x \in b.cells : <<x[1], x[2]>> \notin Pairs(o.table, o.columns)}
           ELSE IF o.op = "copy"
             THEN b.cells \cup {<<o.table, o.to, c[3], c[4]>> : c \in {d \in b.cells : <<d[1], d[2]>> = <<o.table, o.from>>}}
           ELSE b.cells
<1>1. CASE o.op = "drop"
  BY <1>1 DEF Effect, IsDatabase, Without
<1>2. CASE o.op = "remove"
  BY <1>2 DEF Effect, IsDatabase, Off
<1>3. CASE o.op = "copy"
  BY <1>3 DEF Effect, IsDatabase
<1>4. CASE o.op \in {"table", "index", "unindex", "add"}
  BY <1>4 DEF Effect, IsDatabase
<1>5. CASE o.op \in {"key", "unkey", "space", "unspace"}
  BY <1>5 DEF Effect, IsDatabase
<1> QED
  BY <1>1, <1>2, <1>3, <1>4, <1>5 DEF Runs

\* The cells go where the paths of their columns lead.
LEMMA CellsFollow ==
  ASSUME NEW b, IsDatabase(b), NEW o, Runs(b, o), NEW first, NEW paths,
         \A x : x \in b.cells <=> Reached(first, paths, x),
         \A m \in paths : m = <<m[1], m[2]>>
  PROVE  \A x : x \in Effect(b, o).cells <=> Reached(first, Follow(paths, o), x)
<1>1. CASE o.op = "drop"
  <2>1. Effect(b, o).cells = {x \in b.cells : x[1] # o.table}
    BY <1>1, EffectCells
  <2>2. Follow(paths, o) = {m \in paths : m[2][1] # o.table}
    BY <1>1 DEF Follow
  <2> QED
    BY <2>1, <2>2 DEF Reached
<1>2. CASE o.op = "remove"
  <2> DEFINE gone == Pairs(o.table, o.columns)
  <2>1. Effect(b, o).cells = {x \in b.cells : <<x[1], x[2]>> \notin gone}
    BY <1>2, EffectCells
  <2>2. Follow(paths, o) = {m \in paths : m[2] \notin gone}
    BY <1>2 DEF Follow
  <2> HIDE DEF gone
  <2> QED
    BY <2>1, <2>2 DEF Reached
<1>3. CASE o.op = "copy"
  <2> DEFINE copied == {<<o.table, o.to, c[3], c[4]>> : c \in {d \in b.cells : <<d[1], d[2]>> = <<o.table, o.from>>}}
             added == {<<m[1], <<o.table, o.to>>>> : m \in {n \in paths : n[2] = <<o.table, o.from>>}}
  <2>1. Effect(b, o).cells = b.cells \cup copied
    BY <1>3, EffectCells
  <2>2. Follow(paths, o) = paths \cup added
    BY <1>3 DEF Follow
  <2>3. ASSUME NEW x, x \in copied PROVE Reached(first, added, x)
    <3>1. PICK d \in b.cells : <<d[1], d[2]>> = <<o.table, o.from>> /\ x = <<o.table, o.to, d[3], d[4]>>
      BY <2>3
    <3>2. PICK c \in first : <<<<c[1], c[2]>>, <<d[1], d[2]>>>> \in paths /\ d = <<d[1], d[2], c[3], c[4]>>
      BY DEF Reached
    <3>3. <<<<c[1], c[2]>>, <<o.table, o.to>>>> \in added
      BY <3>1, <3>2
    <3>4. x[1] = o.table /\ x[2] = o.to /\ x = <<o.table, o.to, c[3], c[4]>>
      BY <3>1, <3>2
    <3> HIDE DEF added
    <3> QED
      BY <3>3, <3>4 DEF Reached
  <2>4. ASSUME NEW x, Reached(first, added, x) PROVE x \in copied
    <3>1. PICK c \in first : <<<<c[1], c[2]>>, <<x[1], x[2]>>>> \in added /\ x = <<x[1], x[2], c[3], c[4]>>
      BY <2>4 DEF Reached
    <3>2. PICK m \in paths : m[2] = <<o.table, o.from>> /\ <<<<c[1], c[2]>>, <<x[1], x[2]>>>> = <<m[1], <<o.table, o.to>>>>
      BY <3>1
    <3> DEFINE d == <<o.table, o.from, c[3], c[4]>>
    <3>3. <<c[1], c[2]>> = m[1] /\ x[1] = o.table /\ x[2] = o.to
      BY <3>2
    <3>4. <<<<c[1], c[2]>>, <<o.table, o.from>>>> \in paths
      <4>1. m = <<m[1], m[2]>>
        OBVIOUS
      <4> QED
        BY <3>2, <3>3, <4>1
    <3>5. d[1] = o.table /\ d[2] = o.from /\ d[3] = c[3] /\ d[4] = c[4]
      OBVIOUS
    <3>6. Reached(first, paths, d)
      <4> HIDE DEF d
      <4>1. d = <<d[1], d[2], c[3], c[4]>>
        BY <3>5 DEF d
      <4> QED
        BY <3>4, <3>5, <4>1 DEF Reached
    <3>7. d \in b.cells /\ x = <<o.table, o.to, d[3], d[4]>>
      <4>1. x = <<o.table, o.to, d[3], d[4]>>
        BY <3>1, <3>3, <3>5
      <4> HIDE DEF d
      <4> QED
        BY <3>6, <4>1
    <3> HIDE DEF d
    <3> QED
      BY <3>5, <3>7
  <2> HIDE DEF copied, added
  <2>5. ASSUME NEW x PROVE Reached(first, paths \cup added, x) <=> Reached(first, paths, x) \/ Reached(first, added, x)
    BY DEF Reached
  <2> QED
    BY <2>1, <2>2, <2>3, <2>4, <2>5
<1>4. CASE o.op \notin {"drop", "remove", "copy"}
  BY <1>4, EffectCells DEF Follow
<1> QED
  BY <1>1, <1>2, <1>3, <1>4

\* A path leads from a carrying column to one of the same table.
LEMMA FollowPairs ==
  ASSUME NEW paths, NEW o, \A m \in paths : m = <<m[1], m[2]>> /\ m[1] \in Carrying /\ m[2] = <<m[1][1], m[2][2]>>
  PROVE  \A m \in Follow(paths, o) : m = <<m[1], m[2]>> /\ m[1] \in Carrying /\ m[2] = <<m[1][1], m[2][2]>>
<1>1. CASE o.op = "copy"
  <2> DEFINE added == {<<m[1], <<o.table, o.to>>>> : m \in {n \in paths : n[2] = <<o.table, o.from>>}}
  <2>1. Follow(paths, o) = paths \cup added
    BY <1>1 DEF Follow
  <2>2. ASSUME NEW m \in added PROVE m = <<m[1], m[2]>> /\ m[1] \in Carrying /\ m[2] = <<m[1][1], m[2][2]>>
    <3>1. PICK n \in paths : n[2] = <<o.table, o.from>> /\ m = <<n[1], <<o.table, o.to>>>>
      OBVIOUS
    <3>2. n[1] \in Carrying /\ n[2][1] = n[1][1] /\ n[2][1] = o.table
      BY <3>1
    <3>3. m[1] = n[1] /\ m[2] = <<o.table, o.to>>
      BY <3>1
    <3> QED
      BY <3>1, <3>2, <3>3
  <2> HIDE DEF added
  <2> QED
    BY <2>1, <2>2
<1>2. CASE o.op # "copy"
  <2>1. Follow(paths, o) \subseteq paths
    BY <1>2 DEF Follow
  <2> QED
    BY <2>1
<1> QED
  BY <1>1, <1>2

\* The cells every database of the migrations has: whole ones, of carrying columns.
Whole(cells) == \A c \in cells : c = <<c[1], c[2], c[3], c[4]>> /\ <<c[1], c[2]>> \in Carrying

\* What the operations up to the n-th ask of the cells that started as first.
Settled(first, script, n) ==
  \A m \in 1..n : script[m].op = "key" =>
    \A x : /\ Reached(first, Paths(script)[m - 1], x)
           /\ <<x[1], x[2]>> = <<script[m].table, script[m].ref.column>>
           => Reached(first, Paths(script)[m - 1], IdCell(script[m].ref.to, x[4]))

\* A script on a database and on its schema alone, after n operations: the
\* schemas agree, and the cells are those that come of the first ones along
\* the paths.
Along(b, script, n) ==
  LET a == After(b, script)[n]
      s == After(Bare(b), script)[n]
  IN /\ IsDatabase(a) /\ IsDatabase(s)
     /\ (a.ok <=> s.ok /\ Settled(b.cells, script, n))
     /\ a.ok => Bare(a) = s /\ \A x : x \in a.cells <=> Reached(b.cells, Paths(script)[n], x)
     /\ \A m \in Paths(script)[n] : m = <<m[1], m[2]>> /\ m[1] \in Carrying /\ m[2] = <<m[1][1], m[2][2]>>

\* After no operation, after one more, and so after all of a script.
LEMMA AlongStart ==
  ASSUME NEW b, IsDatabase(b), b.ok, Whole(b.cells), NEW script, Len(script) \in Nat
  PROVE  Along(b, script, 0)
<1>1. After(b, script)[0] = b /\ After(Bare(b), script)[0] = Bare(b)
  BY AfterDef
<1>2. Paths(script)[0] = {<<k, k>> : k \in Carrying}
  BY PathsDef
<1>3. Settled(b.cells, script, 0)
  BY DEF Settled
<1>4. \A k \in Carrying : k = <<k[1], k[2]>>
  BY DEF Carrying, ReferenceColumns, RoutingColumns
<1>5. ASSUME NEW x PROVE x \in b.cells <=> Reached(b.cells, {<<k, k>> : k \in Carrying}, x)
  <2>1. ASSUME x \in b.cells PROVE Reached(b.cells, {<<k, k>> : k \in Carrying}, x)
    BY <2>1 DEF Whole, Reached
  <2>2. ASSUME Reached(b.cells, {<<k, k>> : k \in Carrying}, x) PROVE x \in b.cells
    <3>1. PICK c \in b.cells : /\ <<<<c[1], c[2]>>, <<x[1], x[2]>>>> \in {<<k, k>> : k \in Carrying}
                               /\ x = <<x[1], x[2], c[3], c[4]>>
      BY <2>2 DEF Reached
    <3>2. c[1] = x[1] /\ c[2] = x[2]
      BY <3>1
    <3> QED
      BY <3>1, <3>2 DEF Whole
  <2> QED
    BY <2>1, <2>2
<1> QED
  BY <1>1, <1>2, <1>3, <1>4, <1>5, BareIs DEF Along

LEMMA AlongStep ==
  ASSUME NEW b, IsDatabase(b), b.ok, Whole(b.cells), NEW script, Len(script) \in Nat,
         NEW n \in Nat, n < Len(script), Along(b, script, n)
  PROVE  Along(b, script, n + 1)
<1> DEFINE a == After(b, script)[n]
           s == After(Bare(b), script)[n]
           a1 == After(b, script)[n + 1]
           s1 == After(Bare(b), script)[n + 1]
           p == Paths(script)[n]
           p1 == Paths(script)[n + 1]
           o == script[n + 1]
<1>1. a1 = RunOp(a, o) /\ s1 = RunOp(s, o)
  <2>1. n + 1 \in 0..Len(script) /\ n + 1 # 0 /\ (n + 1) - 1 = n
    OBVIOUS
  <2> QED
    BY <2>1, AfterDef
<1>2. p1 = Follow(p, o)
  <2>1. n + 1 \in 0..Len(script) /\ n + 1 # 0 /\ (n + 1) - 1 = n
    OBVIOUS
  <2> QED
    BY <2>1, PathsDef
<1>3. /\ IsDatabase(a) /\ IsDatabase(s)
      /\ (a.ok <=> s.ok /\ Settled(b.cells, script, n))
      /\ a.ok => Bare(a) = s /\ \A x : x \in a.cells <=> Reached(b.cells, p, x)
      /\ \A m \in p : m = <<m[1], m[2]>> /\ m[1] \in Carrying /\ m[2] = <<m[1][1], m[2][2]>>
  BY DEF Along
<1>4. Settled(b.cells, script, n + 1) <=>
        /\ Settled(b.cells, script, n)
        /\ o.op = "key" =>
             \A x : /\ Reached(b.cells, p, x) /\ <<x[1], x[2]>> = <<o.table, o.ref.column>>
                    => Reached(b.cells, p, IdCell(o.ref.to, x[4]))
  <2>1. 1..(n + 1) = 1..n \cup {n + 1} /\ (n + 1) - 1 = n
    OBVIOUS
  <2> QED
    BY <2>1 DEF Settled
<1>5. \A m \in p1 : m = <<m[1], m[2]>> /\ m[1] \in Carrying /\ m[2] = <<m[1][1], m[2][2]>>
  BY <1>2, <1>3, FollowPairs
<1> SUFFICES /\ IsDatabase(a1) /\ IsDatabase(s1)
             /\ (a1.ok <=> s1.ok /\ Settled(b.cells, script, n + 1))
             /\ a1.ok => Bare(a1) = s1 /\ \A x : x \in a1.cells <=> Reached(b.cells, p1, x)
  BY <1>5 DEF Along
<1> HIDE DEF a, s, a1, s1, p, p1, o
<1>6. ASSUME NEW d, IsDatabase(d) PROVE IsDatabase(RunOp(d, o)) /\ (RunOp(d, o).ok <=> d.ok /\ Runs(d, o))
  <2>1. CASE d.ok /\ Runs(d, o)
    BY <1>6, <2>1, EffectBare DEF RunOp
  <2>2. CASE ~(d.ok /\ Runs(d, o))
    BY <1>6, <2>2 DEF RunOp, IsDatabase
  <2> QED
    BY <2>1, <2>2
<1>7. IsDatabase(a1) /\ IsDatabase(s1)
  BY <1>1, <1>3, <1>6
<1>8. CASE ~a.ok
  <2>1. ~a1.ok
    BY <1>1, <1>3, <1>6, <1>8
  <2>2. ~(s1.ok /\ Settled(b.cells, script, n + 1))
    BY <1>1, <1>3, <1>4, <1>6, <1>8
  <2> QED
    BY <1>7, <2>1, <2>2
<1>9. CASE a.ok
  <2>1. s = Bare(a) /\ s.ok /\ Settled(b.cells, script, n) /\ \A x : x \in a.cells <=> Reached(b.cells, p, x)
    BY <1>3, <1>9
  <2>2. a1.ok <=> Runs(a, o)
    BY <1>1, <1>3, <1>6, <1>9
  <2>3. s1.ok <=> Runs(s, o)
    BY <1>1, <1>3, <1>6, <2>1
  <2>4. Runs(a, o) <=> Runs(s, o) /\ Resolved(a.cells, o)
    BY <1>3, <2>1, RunsBare
  <2>5. Settled(b.cells, script, n + 1) <=> Resolved(a.cells, o)
    BY <1>4, <2>1 DEF Resolved
  <2>6. ASSUME Runs(a, o) PROVE Bare(a1) = s1 /\ \A x : x \in a1.cells <=> Reached(b.cells, p1, x)
    <3>1. a1 = Effect(a, o) /\ s1 = Effect(s, o)
      BY <1>1, <1>9, <2>1, <2>4, <2>6 DEF RunOp
    <3>2. Bare(a1) = s1
      BY <1>3, <2>1, <2>6, <3>1, EffectBare
    <3>3. \A x : x \in a1.cells <=> Reached(b.cells, p1, x)
      BY <1>2, <1>3, <2>1, <2>6, <3>1, CellsFollow
    <3> QED
      BY <3>2, <3>3
  <2> QED
    BY <1>7, <2>2, <2>3, <2>4, <2>5, <2>6
<1> QED
  BY <1>8, <1>9

LEMMA AlongAll ==
  ASSUME NEW b, IsDatabase(b), b.ok, Whole(b.cells), NEW script, Len(script) \in Nat
  PROVE  Along(b, script, Len(script)) /\ \A n \in 0..Len(script) : Along(b, script, n)
<1> DEFINE S == {n \in Nat : n <= Len(script) => Along(b, script, n)}
<1>1. 0 \in S
  BY AlongStart
<1>2. ASSUME NEW n \in Nat, n \in S PROVE n + 1 \in S
  <2>1. ASSUME n + 1 <= Len(script) PROVE Along(b, script, n + 1)
    <3>1. n < Len(script) /\ Along(b, script, n)
      BY <1>2, <2>1
    <3> QED
      BY <3>1, AlongStep
  <2> QED
    BY <2>1
<1>3. \A n \in Nat : n \in S
  <2> HIDE DEF S
  <2> QED
    BY <1>1, <1>2, Induct
<1> QED
  BY <1>3

-----------------------------------------------------------------------------
\* A database in a version: its schema is the version's, and its cells are
\* whole and in columns that are there.
Good(d, v) ==
  /\ IsDatabase(d) /\ d.ok /\ Bare(d) = SchemaAt[v] /\ Whole(d.cells)
  /\ \A c \in d.cells : Present(d, <<c[1], c[2]>>)

\* The schema of a version is that of the one before and one script.
LEMMA SchemaStep ==
  ASSUME NEW v \in 1..Newest
  PROVE  SchemaAt[v] = RunScript(SchemaAt[v - 1], Revisions[v].up)
<1>1. 0 <= Newest /\ Newest \in Nat /\ v \in 0..Newest /\ v # 0
  BY ScriptsAssumption
<1> QED
  BY <1>1, UpgradesDef DEF SchemaAt

\* A script on a database in version v, when on the schema of v it leads to "to".
LEMMA ScriptRuns ==
  ASSUME NEW d, NEW v, Good(d, v), NEW script, Len(script) \in Nat, NEW to,
         RunScript(SchemaAt[v], script) = to
  PROVE  LET e == RunScript(d, script)
         IN /\ e.ok <=> to.ok /\ Settled(d.cells, script, Len(script))
            /\ e.ok /\ Kept(script, SchemaAt[v], to) =>
                 /\ IsDatabase(e) /\ Bare(e) = to /\ Whole(e.cells) /\ Held(e) = Held(d)
                 /\ \A c \in e.cells : Present(e, <<c[1], c[2]>>)
<1> DEFINE e == RunScript(d, script)
           ends == Paths(script)[Len(script)]
<1>1. e = After(d, script)[Len(script)] /\ to = After(Bare(d), script)[Len(script)]
  BY BareIs DEF Good, RunScript
<1>2. Along(d, script, Len(script))
  BY AlongAll DEF Good
<1>3. /\ IsDatabase(e) /\ IsDatabase(to) /\ (e.ok <=> to.ok /\ Settled(d.cells, script, Len(script)))
      /\ e.ok => Bare(e) = to /\ \A x : x \in e.cells <=> Reached(d.cells, ends, x)
      /\ \A m \in ends : m = <<m[1], m[2]>> /\ m[1] \in Carrying /\ m[2] = <<m[1][1], m[2][2]>>
  BY <1>1, <1>2 DEF Along
<1> HIDE DEF e, ends
<1>4. ASSUME e.ok, Kept(script, SchemaAt[v], to)
      PROVE  /\ Bare(e) = to /\ Whole(e.cells) /\ Held(e) = Held(d)
             /\ \A c \in e.cells : Present(e, <<c[1], c[2]>>)
  <2>1. Bare(e) = to /\ \A x : x \in e.cells <=> Reached(d.cells, ends, x)
    BY <1>3, <1>4
  <2>2. \A k : Present(to, k) <=> Present(e, k)
    BY <1>3, <2>1, BareIs DEF Present
  <2>3. \A k : Present(SchemaAt[v], k) <=> Present(d, k)
    BY BareIs DEF Present, Good
  <2>4. ASSUME NEW k \in Carrying, Present(d, k)
        PROVE  /\ \E m \in ends : m[1] = k
               /\ \A m \in ends : m[1] = k => m[2] \in Carrying /\ Present(e, m[2])
    BY <1>4, <2>2, <2>3, <2>4 DEF Kept, ends
  <2>5. ASSUME NEW x \in e.cells
        PROVE  /\ x = <<x[1], x[2], x[3], x[4]>> /\ <<x[1], x[2]>> \in Carrying /\ Present(e, <<x[1], x[2]>>)
               /\ \E c \in d.cells : c[1] = x[1] /\ c[3] = x[3] /\ c[4] = x[4]
    <3>1. PICK c \in d.cells : <<<<c[1], c[2]>>, <<x[1], x[2]>>>> \in ends /\ x = <<x[1], x[2], c[3], c[4]>>
      BY <2>1 DEF Reached
    <3> DEFINE m == <<<<c[1], c[2]>>, <<x[1], x[2]>>>>
    <3>2. m[1] = <<c[1], c[2]>> /\ m[2] = <<x[1], x[2]>> /\ m \in ends
      BY <3>1
    <3>3. <<c[1], c[2]>> \in Carrying /\ Present(d, <<c[1], c[2]>>)
      BY DEF Good, Whole
    <3>4. c[1] = x[1] /\ c[3] = x[3] /\ c[4] = x[4]
      BY <1>3, <3>1, <3>2
    <3> HIDE DEF m
    <3>5. <<x[1], x[2]>> \in Carrying /\ Present(e, <<x[1], x[2]>>)
      BY <2>4, <3>2, <3>3
    <3> QED
      BY <3>1, <3>4, <3>5
  <2>6. ASSUME NEW c \in d.cells
        PROVE  \E x \in e.cells : c[1] = x[1] /\ c[3] = x[3] /\ c[4] = x[4]
    <3>1. <<c[1], c[2]>> \in Carrying /\ Present(d, <<c[1], c[2]>>)
      BY DEF Good, Whole
    <3>2. PICK m \in ends : m[1] = <<c[1], c[2]>>
      BY <2>4, <3>1
    <3> DEFINE x == <<m[2][1], m[2][2], c[3], c[4]>>
    <3>3. m = <<m[1], m[2]>> /\ m[2] = <<m[1][1], m[2][2]>> /\ m[2][1] = c[1]
      BY <1>3, <3>2
    <3>4. x[1] = m[2][1] /\ x[2] = m[2][2] /\ x[3] = c[3] /\ x[4] = c[4]
      OBVIOUS
    <3>5. x = <<x[1], x[2], c[3], c[4]>>
      OBVIOUS
    <3> HIDE DEF x
    <3>6. <<x[1], x[2]>> = m[2]
      BY <3>3, <3>4
    <3>7. x \in e.cells
      BY <2>1, <3>2, <3>3, <3>5, <3>6 DEF Reached
    <3> QED
      BY <3>3, <3>4, <3>7
  <2>7. Held(e) = Held(d)
    <3>1. ASSUME NEW z \in Held(e) PROVE z \in Held(d)
      <4>1. PICK x \in e.cells : z = <<x[1], x[3], x[4]>>
        BY DEF Held
      <4>2. PICK c \in d.cells : c[1] = x[1] /\ c[3] = x[3] /\ c[4] = x[4]
        BY <2>5
      <4> QED
        BY <4>1, <4>2 DEF Held
    <3>2. ASSUME NEW z \in Held(d) PROVE z \in Held(e)
      <4>1. PICK c \in d.cells : z = <<c[1], c[3], c[4]>>
        BY DEF Held
      <4>2. PICK x \in e.cells : c[1] = x[1] /\ c[3] = x[3] /\ c[4] = x[4]
        BY <2>6
      <4> QED
        BY <4>1, <4>2 DEF Held
    <3> QED
      BY <3>1, <3>2
  <2> QED
    BY <2>1, <2>5, <2>7 DEF Whole
<1> QED
  BY <1>3, <1>4 DEF e

\* One upgrade runs, whatever the cells are, and keeps what they hold.
LEMMA UpgradeScript ==
  ASSUME NEW v \in 1..Newest, NEW d, Good(d, v - 1)
  PROVE  LET e == RunScript(d, Revisions[v].up) IN Good(e, v) /\ Held(e) = Held(d)
<1> DEFINE up == Revisions[v].up
           e == RunScript(d, up)
<1>1. /\ Len(up) \in Nat /\ SchemaAt[v].ok /\ Kept(up, SchemaAt[v - 1], SchemaAt[v])
      /\ Keyed(up, SchemaAt[v - 1]) = {}
  BY ScriptsAssumption DEF UpgradeFacts
<1>2. SchemaAt[v] = RunScript(SchemaAt[v - 1], up)
  BY SchemaStep
<1> HIDE DEF up
<1>3. Settled(d.cells, up, Len(up))
  <2>1. ASSUME NEW n \in 1..Len(up), up[n].op = "key", NEW x,
               Reached(d.cells, Paths(up)[n - 1], x), <<x[1], x[2]>> = <<up[n].table, up[n].ref.column>>
        PROVE  FALSE
    <3>1. PICK c \in d.cells : <<<<c[1], c[2]>>, <<up[n].table, up[n].ref.column>>>> \in Paths(up)[n - 1]
      BY <2>1 DEF Reached
    <3>2. <<c[1], c[2]>> \in Carrying /\ Present(SchemaAt[v - 1], <<c[1], c[2]>>)
      BY BareIs DEF Good, Whole, Present
    <3>3. <<c[1], c[2]>> \in Keyed(up, SchemaAt[v - 1])
      BY <2>1, <3>1, <3>2 DEF Keyed, Keying
    <3> QED
      BY <1>1, <3>3
  <2> QED
    BY <2>1 DEF Settled
<1> QED
  BY <1>1, <1>2, <1>3, ScriptRuns DEF Good, up

\* The keys that a downgrade adds are satisfied, except those of 0d587af700ce
\* when a reference dangles.
LEMMA Keys0d587af700ce ==
  ASSUME NEW v \in 1..Newest, v \notin OneWay, NEW d, Good(d, v)
  PROVE  LET down == Revisions[v].down
         IN Settled(d.cells, down, Len(down)) <=> ~(MovesReferences(v) /\ Dangling(d))
<1> DEFINE down == Revisions[v].down
           idColumn == <<VariableTable, "id">>
<1>1. /\ Len(down) \in Nat /\ ToVariables(down)
      /\ Keyed(down, SchemaAt[v]) = IF MovesReferences(v) THEN Parked ELSE {}
  BY ScriptsAssumption DEF DowngradeFacts
<1> HIDE DEF down
<1>2. \A c \in d.cells : /\ <<c[1], c[2]>> \in Carrying /\ Present(SchemaAt[v], <<c[1], c[2]>>)
                         /\ c = <<c[1], c[2], c[3], c[4]>>
  BY BareIs DEF Good, Whole, Present
<1>3. ASSUME NEW n \in 1..Len(down)
      PROVE  \A m \in Paths(down)[n - 1] : m = <<m[1], m[2]>> /\ m[1] \in Carrying /\ m[2] = <<m[1][1], m[2][2]>>
  <2>1. n - 1 \in 0..Len(down)
    BY <1>1
  <2>2. Along(d, down, n - 1)
    BY <1>1, <2>1, AlongAll DEF Good
  <2> QED
    BY <2>2 DEF Along
<1>4. ASSUME ~(MovesReferences(v) /\ Dangling(d)) PROVE Settled(d.cells, down, Len(down))
  <2>1. ASSUME NEW n \in 1..Len(down), down[n].op = "key", NEW x,
               Reached(d.cells, Paths(down)[n - 1], x), <<x[1], x[2]>> = <<down[n].table, down[n].ref.column>>
        PROVE  Reached(d.cells, Paths(down)[n - 1], IdCell(down[n].ref.to, x[4]))
    <3>1. PICK c \in d.cells : /\ <<<<c[1], c[2]>>, <<down[n].table, down[n].ref.column>>>> \in Paths(down)[n - 1]
                               /\ x = <<x[1], x[2], c[3], c[4]>>
      BY <2>1 DEF Reached
    <3>2. Keying(down, <<c[1], c[2]>>, n)
      BY <2>1, <3>1 DEF Keying
    <3>3. <<c[1], c[2]>> \in Keyed(down, SchemaAt[v])
      BY <1>2, <3>2 DEF Keyed
    <3>4. MovesReferences(v) /\ <<c[1], c[2]>> \in Parked
      BY <1>1, <3>3
    <3>5. VariableRow(c[4]) \in d.cells
      BY <1>4, <3>4 DEF Dangling
    <3>6. down[n].ref.to = VariableTable /\ <<idColumn, idColumn>> \in Paths(down)[n - 1]
      BY <1>1, <1>2, <3>2 DEF ToVariables
    <3>7. x[4] = c[4]
      BY <3>1
    <3> DEFINE i == VariableRow(c[4])
    <3>8. i[1] = VariableTable /\ i[2] = "id" /\ i = <<i[1], i[2], i[3], i[4]>> /\ IdCell(down[n].ref.to, x[4]) = i
      BY <3>6, <3>7 DEF VariableRow, IdCell
    <3> HIDE DEF i
    <3>9. Reached(d.cells, Paths(down)[n - 1], i)
      BY <3>5, <3>6, <3>8 DEF Reached, i
    <3> QED
      BY <3>8, <3>9
  <2> QED
    BY <2>1 DEF Settled
<1>5. ASSUME MovesReferences(v), Dangling(d), Settled(d.cells, down, Len(down)) PROVE FALSE
  <2>1. PICK c \in d.cells : <<c[1], c[2]>> \in Parked /\ VariableRow(c[4]) \notin d.cells
    BY <1>5 DEF Dangling
  <2>2. <<c[1], c[2]>> \in Keyed(down, SchemaAt[v])
    BY <1>1, <1>5, <2>1
  <2>3. PICK n \in 1..Len(down) : Keying(down, <<c[1], c[2]>>, n)
    BY <2>2 DEF Keyed
  <2>4. down[n].ref.to = VariableTable
    BY <1>1, <1>2, <2>3 DEF ToVariables
  <2> DEFINE x == <<down[n].table, down[n].ref.column, c[3], c[4]>>
  <2>5. x[1] = down[n].table /\ x[2] = down[n].ref.column /\ x[4] = c[4] /\ x = <<x[1], x[2], c[3], c[4]>>
    OBVIOUS
  <2> HIDE DEF x
  <2>6. Reached(d.cells, Paths(down)[n - 1], x) /\ down[n].op = "key"
    BY <2>3, <2>5 DEF Reached, Keying
  <2>7. Reached(d.cells, Paths(down)[n - 1], VariableRow(c[4]))
    BY <1>5, <2>4, <2>5, <2>6 DEF Settled, VariableRow
  <2> DEFINE i == VariableRow(c[4])
  <2>8. i[1] = VariableTable /\ i[2] = "id" /\ i[3] = c[4] /\ i[4] = c[4] /\ i = <<VariableTable, "id", c[4], c[4]>>
    BY DEF VariableRow, IdCell
  <2> HIDE DEF i
  <2>9. PICK k \in d.cells : <<<<k[1], k[2]>>, <<i[1], i[2]>>>> \in Paths(down)[n - 1] /\ i = <<i[1], i[2], k[3], k[4]>>
    BY <2>7 DEF Reached, i
  <2>10. k[3] = c[4] /\ k[4] = c[4]
    BY <2>8, <2>9
  <2>11. k[1] = VariableTable
    BY <1>3, <2>8, <2>9
  <2>12. k[2] = "id"
    BY <1>2, <2>11 DEF Carrying, ReferenceColumns, RoutingColumns, VariableTable
  <2>13. k = i
    BY <1>2, <2>8, <2>10, <2>11, <2>12
  <2> QED
    BY <2>1, <2>13 DEF i
<1> QED
  BY <1>4, <1>5 DEF down

\* One downgrade runs on the versions and cells DowngradesRun names, and then
\* keeps what the cells hold.
LEMMA DowngradeScript ==
  ASSUME NEW v \in 1..Newest, NEW d, Good(d, v)
  PROVE  LET e == Downgraded(d, v)
         IN /\ e.ok <=> v \notin OneWay /\ ~(MovesReferences(v) /\ Dangling(d))
            /\ e.ok => Good(e, v - 1) /\ Held(e) = Held(d)
<1> DEFINE down == Revisions[v].down
           to == RunScript(SchemaAt[v], down)
<1>1. /\ Len(down) \in Nat /\ (to.ok <=> v \notin OneWay)
      /\ v \notin OneWay => to = SchemaAt[v - 1] /\ Kept(down, SchemaAt[v], SchemaAt[v - 1])
  BY ScriptsAssumption DEF DowngradeFacts, Downgraded
<1>2. v \notin OneWay => (Settled(d.cells, down, Len(down)) <=> ~(MovesReferences(v) /\ Dangling(d)))
  BY Keys0d587af700ce
<1> DEFINE e == RunScript(d, down)
<1> HIDE DEF down
<1>3. (e.ok <=> to.ok /\ Settled(d.cells, down, Len(down)))
  BY <1>1, ScriptRuns
<1>4. ASSUME e.ok PROVE Good(e, v - 1) /\ Held(e) = Held(d)
  <2>1. v \notin OneWay /\ to = SchemaAt[v - 1] /\ Kept(down, SchemaAt[v], to)
    BY <1>1, <1>3, <1>4
  <2>2. /\ IsDatabase(e) /\ Bare(e) = to /\ Whole(e.cells) /\ Held(e) = Held(d)
        /\ \A c \in e.cells : Present(e, <<c[1], c[2]>>)
    BY <1>1, <1>4, <2>1, ScriptRuns
  <2> QED
    BY <1>4, <2>1, <2>2 DEF Good
<1>5. Downgraded(d, v) = e
  BY DEF Downgraded, down
<1> QED
  BY <1>1, <1>2, <1>3, <1>4, <1>5

-----------------------------------------------------------------------------
\* The database is one of its version.
MigrationsInv == version \in 0..Newest /\ Good(db, version)

\* The invariant holds at first, through an upgrade of any length, when the
\* cognition gateway writes or deletes, and through every command.
LEMMA EmptyIsGood == Good(EmptyDatabase, 0)
<1>1. 0 <= Newest /\ Newest \in Nat
  BY ScriptsAssumption
<1>2. SchemaAt[0] = EmptyDatabase
  <2>1. Upgrades(EmptyDatabase, 0, Newest)[0] = EmptyDatabase
    BY <1>1, UpgradesStart
  <2> QED
    BY <2>1 DEF SchemaAt
<1>3. IsDatabase(EmptyDatabase) /\ EmptyDatabase.ok /\ EmptyDatabase.cells = {}
  BY DEF EmptyDatabase, IsDatabase
<1>4. Bare(EmptyDatabase) = EmptyDatabase
  <2> DEFINE e == EmptyDatabase
  <2>1. IsDatabase(e) /\ e.cells = {}
    BY <1>3
  <2> HIDE DEF e
  <2>2. Bare(e) = e
    BY <2>1, BareIs DEF IsDatabase
  <2> QED
    BY <2>2 DEF e
<1> QED
  BY <1>2, <1>3, <1>4 DEF Good, Whole

LEMMA UpgradesGood ==
  ASSUME NEW v \in 0..Newest, NEW w \in v..Newest, NEW d, Good(d, v)
  PROVE  Good(Upgraded(d, v, w), w) /\ Held(Upgraded(d, v, w)) = Held(d)
<1> DEFINE at == Upgrades(d, v, w)
           S == {m \in Nat : v + m <= w => Good(at[v + m], v + m) /\ Held(at[v + m]) = Held(d)}
<1>0. Newest \in Nat /\ v \in Nat /\ w \in Nat /\ v <= w
  BY ScriptsAssumption
<1>1. at[v] = d
  BY <1>0, UpgradesStart
<1>2. ASSUME NEW n \in v..w, n # v PROVE at[n] = RunScript(at[n - 1], Revisions[n].up)
  BY <1>0, <1>2, UpgradesDef
<1> HIDE DEF at
<1>3. 0 \in S
  BY <1>0, <1>1
<1>4. ASSUME NEW m \in Nat, m \in S PROVE m + 1 \in S
  <2> DEFINE n == v + (m + 1)
  <2>1. ASSUME n <= w PROVE Good(at[n], n) /\ Held(at[n]) = Held(d)
    <3>1. n \in v..w /\ n # v /\ n \in 1..Newest /\ n - 1 = v + m /\ v + m <= w
      BY <1>0, <2>1
    <3>2. Good(at[n - 1], n - 1) /\ Held(at[n - 1]) = Held(d)
      BY <1>4, <3>1
    <3>3. at[n] = RunScript(at[n - 1], Revisions[n].up)
      BY <1>2, <3>1
    <3> HIDE DEF n
    <3> QED
      BY <3>1, <3>2, <3>3, UpgradeScript
  <2> QED
    BY <2>1
<1>5. w - v \in S
  <2>1. w - v \in Nat
    BY <1>0
  <2> HIDE DEF S
  <2> QED
    BY <1>3, <1>4, <2>1, Induct
<1>6. v + (w - v) = w
  BY <1>0
<1> QED
  BY <1>0, <1>5, <1>6 DEF Upgraded, at

LEMMA ConfigureGood ==
  ASSUME MigrationsInv, Configure \/ DeleteVariable
  PROVE  MigrationsInv'
<1> DEFINE Cells(c) == [db EXCEPT !.cells = c]
<1>1. IsDatabase(db) /\ db.ok /\ Bare(db) = SchemaAt[version] /\ Whole(db.cells)
      /\ \A c \in db.cells : Present(db, <<c[1], c[2]>>)
  BY DEF MigrationsInv, Good
<1>2. ASSUME NEW s, Whole(s), \A c \in s : Present(db, <<c[1], c[2]>>)
      PROVE  Good(Cells(s), version)
  <2>1. /\ IsDatabase(Cells(s)) /\ Cells(s).ok /\ Bare(Cells(s)) = Bare(db) /\ Cells(s).cells = s
        /\ Cells(s).tables = db.tables /\ Cells(s).columns = db.columns
    BY <1>1, CellsOnly
  <2> HIDE DEF Cells
  <2> QED
    BY <1>1, <1>2, <2>1 DEF Good, Present
<1>3. version' = version
  BY DEF Configure, DeleteVariable
<1>4. ASSUME NEW s, db' = Cells(s), Whole(s), \A c \in s : Present(db, <<c[1], c[2]>>) PROVE MigrationsInv'
  <2>1. Good(Cells(s), version)
    BY <1>2, <1>4
  <2> QED
    BY <1>3, <1>4, <2>1 DEF MigrationsInv
<1>5. ASSUME NEW k \in ReferenceColumns \cup RoutingColumns, NEW h, NEW x, Write(k, h, x) PROVE MigrationsInv'
  <2> DEFINE new == <<k[1], k[2], h, x>>
             s == {c \in db.cells : <<<<c[1], c[2]>>, c[3]>> # <<k, h>>} \cup {new}
  <2>1. k = <<k[1], k[2]>> /\ k \in Carrying /\ k[2] # "id"
    BY DEF Carrying, ReferenceColumns, RoutingColumns
  <2>2. k \in db.columns /\ db' = Cells(s)
    BY <1>5 DEF Write
  <2>3. new[1] = k[1] /\ new[2] = k[2] /\ new = <<new[1], new[2], new[3], new[4]>>
    OBVIOUS
  <2>4. <<new[1], new[2]>> \in Carrying /\ Present(db, <<new[1], new[2]>>)
    BY <2>1, <2>2, <2>3 DEF Present
  <2> HIDE DEF new
  <2>5. Whole(s) /\ \A c \in s : Present(db, <<c[1], c[2]>>)
    BY <1>1, <2>3, <2>4 DEF Whole
  <2> HIDE DEF s
  <2> QED
    BY <1>4, <2>2, <2>5
<1>6. ASSUME NEW v, VariableTable \in db.tables, db' = Cells(db.cells \cup {VariableRow(v)}) PROVE MigrationsInv'
  <2> DEFINE new == VariableRow(v)
  <2>1. new[1] = VariableTable /\ new[2] = "id" /\ new = <<new[1], new[2], new[3], new[4]>>
    BY DEF VariableRow, IdCell
  <2> HIDE DEF new
  <2>2. <<new[1], new[2]>> \in Carrying /\ Present(db, <<new[1], new[2]>>)
    BY <1>6, <2>1 DEF Present, Carrying
  <2>3. Whole(db.cells \cup {new}) /\ \A c \in db.cells \cup {new} : Present(db, <<c[1], c[2]>>)
    BY <1>1, <2>1, <2>2 DEF Whole
  <2> QED
    BY <1>4, <1>6, <2>3 DEF new
<1>7. CASE Configure
  BY <1>5, <1>6, <1>7 DEF Configure
<1>8. CASE DeleteVariable
  <2>1. PICK gone : db' = Cells(db.cells \ gone)
    BY <1>8 DEF DeleteVariable
  <2>2. Whole(db.cells \ gone) /\ \A c \in db.cells \ gone : Present(db, <<c[1], c[2]>>)
    BY <1>1 DEF Whole
  <2> QED
    BY <1>4, <2>1, <2>2
<1> QED
  BY <1>7, <1>8

LEMMA MigrateGood ==
  ASSUME MigrationsInv, Migrate
  PROVE  MigrationsInv' /\ Held(db') = Held(db)
<1>0. Newest \in Nat /\ version \in 0..Newest /\ Good(db, version) /\ db.ok
  BY ScriptsAssumption DEF MigrationsInv, Good
<1>1. ASSUME NEW result, NEW target \in 0..Newest, run_migrations_online(result, target),
             result.ok => Good(result, target) /\ Held(result) = Held(db)
      PROVE  MigrationsInv' /\ Held(db') = Held(db)
  <2>1. CASE result.ok
    BY <1>1, <2>1 DEF run_migrations_online, MigrationsInv
  <2>2. CASE ~result.ok
    BY <1>0, <1>1, <2>2 DEF run_migrations_online, MigrationsInv
  <2> QED
    BY <2>1, <2>2
<1>2. CASE UpgradeHead
  <2>1. Newest \in 0..Newest /\ Newest \in version..Newest
    BY <1>0
  <2> QED
    BY <1>0, <1>1, <1>2, <2>1, UpgradesGood DEF UpgradeHead
<1>3. CASE UpgradeOne
  <2>1. version + 1 \in 0..Newest /\ version + 1 \in version..Newest
    BY <1>0, <1>3 DEF UpgradeOne
  <2> QED
    BY <1>0, <1>1, <1>3, <2>1, UpgradesGood DEF UpgradeOne
<1>4. CASE DowngradeOne
  <2>1. version \in 1..Newest /\ version - 1 \in 0..Newest
    BY <1>0, <1>4 DEF DowngradeOne
  <2> QED
    BY <1>0, <1>1, <1>4, <2>1, DowngradeScript DEF DowngradeOne
<1> QED
  BY <1>2, <1>3, <1>4 DEF Migrate

LEMMA MigrationsInvariant == MigrationsSpec => []MigrationsInv
<1>1. MigrationsInit => MigrationsInv
  BY EmptyIsGood, ScriptsAssumption DEF MigrationsInit, MigrationsInv
<1>2. MigrationsInv /\ [MigrationsNext]_migrationVars => MigrationsInv'
  BY MigrateGood, ConfigureGood DEF MigrationsNext, migrationVars, MigrationsInv
<1> QED
  BY <1>1, <1>2, PTL DEF MigrationsSpec

\* On whatever way of upgrades and downgrades, and whatever variables, projects
\* and datasets were written in between, the schema is the one its version
\* stands for.
THEOREM VersionDecides == MigrationsSpec => []VersionDeterminesSchema
<1>1. MigrationsInv => VersionDeterminesSchema
  BY DEF MigrationsInv, Good, Bare, VersionDeterminesSchema
<1> QED
  BY <1>1, MigrationsInvariant, PTL

\* No upgrade and no downgrade loses, adds or moves to another row what the
\* references to environment variables and the routing code hold.
THEOREM DataStays == MigrationsSpec => MigrationsKeepData
<1>1. MigrationsInv /\ [MigrationsNext]_migrationVars => [version' # version => Held(db') = Held(db)]_migrationVars
  <2>1. (Configure \/ DeleteVariable) => version' = version
    BY DEF Configure, DeleteVariable
  <2> QED
    BY <2>1, MigrateGood DEF MigrationsNext
<1> QED
  BY <1>1, MigrationsInvariant, PTL DEF MigrationsSpec, MigrationsKeepData

\* In every state "upgrade head" runs, and a downgrade fails exactly on the
\* revisions of OneWay and on 0d587af700ce with a dangling reference.
THEOREM CommandsSucceed == Spec => []CommandsRun
<1>1. Init => MigrationsInit
  BY DEF Init
<1>2. [Next]_allVars => [MigrationsNext]_migrationVars
  BY DEF Next, allVars, migrationVars
<1>3. MigrationsInv => CommandsRun
  <2> SUFFICES ASSUME MigrationsInv PROVE UpgradesRun /\ DowngradesRun
    BY DEF CommandsRun
  <2>0. Newest \in Nat /\ version \in 0..Newest /\ Good(db, version)
    BY ScriptsAssumption DEF MigrationsInv
  <2>1. UpgradesRun
    <3>1. ASSUME version < Newest PROVE Upgraded(db, version, Newest).ok
      <4>1. Newest \in version..Newest
        BY <2>0
      <4> QED
        BY <2>0, <4>1, UpgradesGood DEF Good
    <3> QED
      BY <3>1 DEF UpgradesRun
  <2>2. DowngradesRun
    <3>1. ASSUME version > 0
          PROVE  Downgraded(db, version).ok <=> version \notin OneWay /\ ~(MovesReferences(version) /\ Dangling(db))
      <4>1. version \in 1..Newest
        BY <2>0, <3>1
      <4> QED
        BY <2>0, <4>1, DowngradeScript
    <3> QED
      BY <3>1 DEF DowngradesRun
  <2> QED
    BY <2>1, <2>2
<1> QED
  BY <1>1, <1>2, <1>3, MigrationsInvariant, PTL DEF Spec, MigrationsSpec

-----------------------------------------------------------------------------
\* The specification without fairness.
Behaviour == LifecycleInit /\ [][LifecycleNext]_vars

(* The rows there are, and the columns with a key that each has.             *)
IsRow(r) ==
  \/ \E o \in Organizations : r = Org(o)
  \/ \E u \in Users : r = User(u)
  \/ \E p \in Projects : r \in {Proj(p), Rec(p), Weak(p)}
  \/ \E p \in Projects, u \in Users : r \in {Task(p, u), ByHand(p, u)}
IsLink(l) ==
  \/ \E u \in Users, o \in Organizations : l = <<User(u), "organization_id", Org(o)>>
  \/ \E p \in Projects, o \in Organizations : l = <<Proj(p), "organization_id", Org(o)>>
  \/ \E p \in Projects, u \in Users : l = <<Proj(p), "created_by", User(u)>>
  \/ \E p \in Projects : l = <<Rec(p), "project_id", Proj(p)>>
  \/ \E p \in Projects, u \in Users :
       l \in {<<Task(p, u), "project_id", Proj(p)>>, <<Task(p, u), "created_by", User(u)>>}
  \/ \E p \in Projects, u \in Users :
       l \in {<<ByHand(p, u), "project_id", Proj(p)>>, <<ByHand(p, u), "record_id", Rec(p)>>,
              <<ByHand(p, u), "created_by", User(u)>>}
  \/ \E p \in Projects, u \in Users :
       l \in {<<Weak(p), "project_id", Proj(p)>>, <<Weak(p), "record_id", Rec(p)>>,
              <<Weak(p), "created_by", User(u)>>, <<Weak(p), "weak_supervision_id", Task(p, u)>>}

RowsKnown == \A r \in rows : IsRow(r)
LinksKnown == \A l \in links : IsLink(l) /\ l[1] \in rows

-----------------------------------------------------------------------------
(* What a deletion takes along, one level of keys at a time.                 *)

USE DEF Org, User, Proj, Rec, Task, ByHand, Weak

LEMMA Apart ==
  \A p, o, u : Proj(p) # Org(o) /\ Proj(p) # User(u) /\ Org(o) # User(u)
<1>1. \A p, o, u : Proj(p)[1] = "project" /\ Org(o)[1] = "organization" /\ User(u)[1] = "user"
  OBVIOUS
<1>2. "project" # "organization" /\ "project" # "user" /\ "organization" # "user"
  OBVIOUS
<1> HIDE DEF Org, User, Proj
<1> QED
  BY <1>1, <1>2

LEMMA NoOrganization ==
  ASSUME LinksKnown, NEW S, NEW o, Org(o) \in Owns(S) PROVE Org(o) \in S
<1>1. SUFFICES ASSUME NEW l \in links, l[1] = Org(o) PROVE FALSE
  BY DEF Owns
<1>2. IsLink(l) /\ l[1][1] = "organization"
  BY <1>1 DEF LinksKnown
<1> QED
  BY <1>2 DEF IsLink

(* A project goes by itself or with its organization, not with its author.   *)
LEMMA ProjectGoes ==
  ASSUME LinksKnown, NEW S, NEW p, Proj(p) \in Owns(S)
  PROVE  Proj(p) \in S \/ \E o \in Organizations : Org(o) \in S /\ Belongs(Proj(p), o)
<1>1. SUFFICES ASSUME NEW l \in links, l[1] = Proj(p), l[3] \in S, Rule(l) = "CASCADE"
               PROVE  \E o \in Organizations : Org(o) \in S /\ Belongs(Proj(p), o)
  BY DEF Owns
<1>2. IsLink(l) /\ l[1][1] = "project"
  BY <1>1 DEF LinksKnown
<1>3. l[2] # "created_by"
  BY <1>1, <1>2, AuthorsAssumption DEF Rule
<1>4. PICK q \in Projects, o \in Organizations : l = <<Proj(q), "organization_id", Org(o)>>
  BY <1>2, <1>3 DEF IsLink
<1> QED
  BY <1>1, <1>4 DEF Belongs

(* Records and labels by hand go by themselves or with their project, labels *)
(* also with their record.                                                   *)
LEMMA RecordGoes ==
  ASSUME LinksKnown, NEW S, NEW p, Rec(p) \in Owns(S) PROVE Rec(p) \in S \/ Proj(p) \in S
<1>1. SUFFICES ASSUME NEW l \in links, l[1] = Rec(p), l[3] \in S PROVE Proj(p) \in S
  BY DEF Owns
<1>2. IsLink(l) /\ l[1][1] = "record"
  BY <1>1 DEF LinksKnown
<1>3. PICK q \in Projects : l = <<Rec(q), "project_id", Proj(q)>>
  BY <1>2 DEF IsLink
<1> QED
  BY <1>1, <1>3

LEMMA LabelGoes ==
  ASSUME LinksKnown, NEW S, NEW p, NEW u, ByHand(p, u) \in Owns(S)
  PROVE  ByHand(p, u) \in S \/ Proj(p) \in S \/ Rec(p) \in S
<1>1. SUFFICES ASSUME NEW l \in links, l[1] = ByHand(p, u), l[3] \in S, Rule(l) = "CASCADE"
               PROVE  Proj(p) \in S \/ Rec(p) \in S
  BY DEF Owns
<1>2. IsLink(l) /\ l[1][1] = "record_label_association"
  BY <1>1 DEF LinksKnown
<1>3. l[2] # "created_by"
  BY <1>1, <1>2, AuthorsAssumption DEF Rule
<1>4. Len(l[1]) = 3
  BY <1>1
<1>5. PICK q \in Projects, v \in Users :
        l \in {<<ByHand(q, v), "project_id", Proj(q)>>, <<ByHand(q, v), "record_id", Rec(q)>>}
  BY <1>2, <1>3, <1>4 DEF IsLink
<1> QED
  BY <1>1, <1>5

(* All levels together.                                                      *)
Gone(set) == Owns(Owns(Owns(set)))
LEMMA DeletionIs ==
  ASSUME NEW S, Delete(S)
  PROVE  /\ rows' = rows \ Gone(S) /\ S \subseteq Gone(S)
         /\ links' = {l \in links : l[1] \notin Gone(S) /\ l[3] \notin Gone(S)}
  BY DEF Delete, Gone, Owns

LEMMA ProjectsGone ==
  ASSUME LinksKnown, NEW S, NEW p, Proj(p) \in Gone(S)
  PROVE  Proj(p) \in S \/ \E o \in Organizations : Org(o) \in S /\ Belongs(Proj(p), o)
<1>1. \/ Proj(p) \in Owns(Owns(S))
      \/ \E o \in Organizations : Org(o) \in Owns(Owns(S)) /\ Belongs(Proj(p), o)
  BY ProjectGoes DEF Gone
<1>2. \/ Proj(p) \in Owns(S)
      \/ \E o \in Organizations : Org(o) \in Owns(S) /\ Belongs(Proj(p), o)
  BY <1>1, ProjectGoes, NoOrganization
<1> QED
  BY <1>2, ProjectGoes, NoOrganization

LEMMA WorkGone ==
  ASSUME LinksKnown, NEW S, NEW p, NEW r,
         r = Rec(p) \/ \E u : r = ByHand(p, u),
         r \in Gone(S), r \notin S, Rec(p) \notin S
  PROVE  Proj(p) \in Gone(S)
<1>1. \A T : Proj(p) \in T => Proj(p) \in Owns(T)
  BY DEF Owns
<1>2. \A T : Rec(p) \in Owns(T) => Rec(p) \in T \/ Proj(p) \in T
  BY RecordGoes
<1>3. \A T : r \in Owns(T) => r \in T \/ Proj(p) \in T \/ Rec(p) \in T
  BY RecordGoes, LabelGoes
<1>4. r \in Owns(Owns(S)) \/ Proj(p) \in Owns(Owns(S)) \/ Rec(p) \in Owns(Owns(S))
  BY <1>3 DEF Gone
<1>5. r \in Owns(S) \/ Proj(p) \in Owns(Owns(S)) \/ Rec(p) \in Owns(S) \/ Proj(p) \in Owns(S)
  BY <1>2, <1>3, <1>4
<1>6. Proj(p) \in Owns(Owns(S)) \/ Proj(p) \in Owns(S) \/ Proj(p) \in S
  BY <1>2, <1>3, <1>5
<1> QED
  BY <1>1, <1>6 DEF Gone

-----------------------------------------------------------------------------
(* Every step inserts one row, deletes what hangs on one, or leaves both.    *)
Deletes ==
  \/ \E o \in Organizations : delete_organization(o)
  \/ \E u \in Users : delete_user(u)
  \/ \E p \in Projects : DeleteByRequest(p) \/ DeleteAtStartup(p)
Inserts ==
  \E row, refs : /\ Insert(row, refs) /\ IsRow(row)
                 /\ \A r \in refs : IsLink(<<row, r[1], r[2]>>)

LEMMA Kinds ==
  ASSUME [LifecycleNext]_vars PROVE Deletes \/ Inserts \/ UNCHANGED <<rows, links>>
<1> USE DEF content, vars
<1>1. CASE UNCHANGED vars \/ Start \/ Stop \/ check_in_deletion_projects \/ StartupFails
  BY <1>1 DEF Start, Stop, check_in_deletion_projects, StartupFails
<1>2. ASSUME NEW o \in Organizations, create_organization(o) PROVE Inserts
  BY <1>2 DEF create_organization, Inserts, IsRow
<1>3. ASSUME NEW o \in Organizations, create_bucket(o) PROVE UNCHANGED <<rows, links>>
  BY <1>3 DEF create_bucket
<1>4. ASSUME NEW p \in Projects, RequestFails(p) \/ background_cleanup(p)
      PROVE  UNCHANGED <<rows, links>>
  BY <1>4 DEF RequestFails, background_cleanup
<1>5. ASSUME NEW u \in Users, get_or_create_user(u) \/ remove_organization_from_user(u)
      PROVE  Inserts
  BY <1>5 DEF get_or_create_user, remove_organization_from_user, Inserts, IsRow
<1>6. ASSUME NEW u \in Users, NEW o \in Organizations, update_organization_of_user(u, o)
      PROVE  Inserts
  <2>1. \A r \in {<<"organization_id", Org(o)>>} : IsLink(<<User(u), r[1], r[2]>>)
    BY DEF IsLink
  <2> QED
    BY <1>6, <2>1 DEF update_organization_of_user, Inserts, IsRow
<1>7. ASSUME NEW u \in Users, NEW p \in Projects, create_project(u, p) PROVE Inserts
  <2>1. PICK o \in Organizations :
          Insert(Proj(p), {<<"organization_id", Org(o)>>, <<"created_by", User(u)>>})
    BY <1>7 DEF create_project
  <2>2. \A r \in {<<"organization_id", Org(o)>>, <<"created_by", User(u)>>} : IsLink(<<Proj(p), r[1], r[2]>>)
    BY DEF IsLink
  <2> QED
    BY <2>1, <2>2 DEF Inserts, IsRow
<1>8. ASSUME NEW u \in Users, NEW p \in Projects, import_file(u, p) PROVE Inserts
  <2>1. \A r \in {<<"project_id", Proj(p)>>} : IsLink(<<Rec(p), r[1], r[2]>>)
    BY DEF IsLink
  <2> QED
    BY <1>8, <2>1 DEF import_file, Inserts, IsRow
<1>9. ASSUME NEW u \in Users, NEW p \in Projects, create_labels(u, p) PROVE Inserts
  <2>1. \A r \in {<<"project_id", Proj(p)>>, <<"record_id", Rec(p)>>, <<"created_by", User(u)>>} :
          IsLink(<<ByHand(p, u), r[1], r[2]>>)
    BY DEF IsLink
  <2> QED
    BY <1>9, <2>1 DEF create_labels, Inserts, IsRow
<1>10. ASSUME NEW u \in Users, NEW p \in Projects, run_weak_supervision(u, p) PROVE Inserts
  <2>1. \A r \in {<<"project_id", Proj(p)>>, <<"created_by", User(u)>>} : IsLink(<<Task(p, u), r[1], r[2]>>)
    BY DEF IsLink
  <2> QED
    BY <1>10, <2>1 DEF run_weak_supervision, Inserts, IsRow
<1>11. ASSUME NEW u \in Users, NEW p \in Projects, initiate_weak_supervision(u, p) PROVE Inserts
  <2>1. \A r \in {<<"project_id", Proj(p)>>, <<"record_id", Rec(p)>>, <<"created_by", User(u)>>,
                  <<"weak_supervision_id", Task(p, u)>>} : IsLink(<<Weak(p), r[1], r[2]>>)
    BY DEF IsLink
  <2> QED
    BY <1>11, <2>1 DEF initiate_weak_supervision, Inserts, IsRow
<1>12. ASSUME NEW u \in Users, NEW p \in Projects, delete_project_request(u, p) \/ update_project_status(u, p)
       PROVE  UNCHANGED <<rows, links>>
  BY <1>12 DEF delete_project_request, update_project_status
<1> QED
  BY <1>1, <1>2, <1>3, <1>4, <1>5, <1>6, <1>7, <1>8, <1>9, <1>10, <1>11, <1>12
  DEF LifecycleNext, UserActs, ThreadActs, Deletes

LEMMA DeletesRows ==
  ASSUME Deletes
  PROVE  \E S : Delete(S) /\ ( \/ \E o \in Organizations : S = {Org(o)} /\ delete_organization(o)
                               \/ \E u \in Users : S = {User(u)} /\ delete_user(u)
                               \/ \E p \in Projects : S = {Proj(p)} /\ (DeleteByRequest(p) \/ DeleteAtStartup(p)) )
  BY DEF Deletes, delete_organization, delete_user, DeleteByRequest, DeleteAtStartup, delete_project

(* Rows and links keep their shapes, and a link hangs on a row that is there.*)
LEMMA ShapesKept ==
  ASSUME RowsKnown, LinksKnown, [LifecycleNext]_vars PROVE RowsKnown' /\ LinksKnown'
<1>1. CASE Deletes
  <2>1. PICK S : Delete(S)
    BY <1>1, DeletesRows
  <2> QED
    BY <2>1, DeletionIs DEF RowsKnown, LinksKnown
<1>2. CASE Inserts
  <2>1. PICK row, refs : Insert(row, refs) /\ IsRow(row) /\ \A r \in refs : IsLink(<<row, r[1], r[2]>>)
    BY <1>2 DEF Inserts
  <2>2. RowsKnown'
    BY <2>1 DEF RowsKnown, Insert
  <2>3. \A l \in links' : IsLink(l) /\ l[1] \in rows'
    BY <2>1 DEF LinksKnown, Insert
  <2> QED
    BY <2>2, <2>3 DEF LinksKnown
<1>3. CASE UNCHANGED <<rows, links>>
  BY <1>3 DEF RowsKnown, LinksKnown
<1> QED
  BY <1>1, <1>2, <1>3, Kinds

LEMMA ShapesAtFirst == LifecycleInit => RowsKnown /\ LinksKnown
  BY DEF LifecycleInit, RowsKnown, LinksKnown

-----------------------------------------------------------------------------
(* Objects without a row have a thread that is about to delete them or were  *)
(* lost with a stop of that thread or with the organization.                 *)
LEMMA ObjectsKept ==
  ASSUME LinksKnown, ObjectsAccountedFor, [LifecycleNext]_vars PROVE ObjectsAccountedFor'
<1> DEFINE Fine(p) == Proj(p) \in rows \/ p \in cleanups \/ p \in lost
<1> USE DEF content, storage, threads, faults, vars
<1> HIDE DEF Org, User, Proj, Rec, Task, ByHand, Weak
<1>1. CASE Stop
  BY <1>1 DEF Stop, ObjectsAccountedFor
<1>2. ASSUME NEW o \in Organizations, delete_organization(o) PROVE ObjectsAccountedFor'
  <2>1. /\ rows' = rows \ Gone({Org(o)}) /\ UNCHANGED <<objects, cleanups>>
        /\ lost' = lost \cup {p \in objects : Belongs(Proj(p), o)}
    BY <1>2, DeletionIs DEF delete_organization
  <2>2. ASSUME NEW p \in objects, Proj(p) \in Gone({Org(o)}) PROVE Belongs(Proj(p), o)
    <3>1. Proj(p) # Org(o)
      BY Apart
    <3>2. PICK q \in Organizations : Org(q) = Org(o) /\ Belongs(Proj(p), q)
      BY <2>2, <3>1, ProjectsGone
    <3> QED
      BY <3>2 DEF Belongs
  <2> QED
    BY <2>1, <2>2 DEF ObjectsAccountedFor
<1>3. ASSUME NEW u \in Users, delete_user(u) PROVE ObjectsAccountedFor'
  <2>1. rows' = rows \ Gone({User(u)}) /\ UNCHANGED <<objects, cleanups, lost>>
    BY <1>3, DeletionIs DEF delete_user
  <2>2. ASSUME NEW p \in objects, Proj(p) \in Gone({User(u)}) PROVE FALSE
    <3>1. Proj(p) # User(u) /\ \A o : Org(o) # User(u)
      BY Apart
    <3> QED
      BY <2>2, <3>1, ProjectsGone
  <2> QED
    BY <2>1, <2>2 DEF ObjectsAccountedFor
<1>4. ASSUME NEW q \in Projects, DeleteByRequest(q) \/ DeleteAtStartup(q) PROVE ObjectsAccountedFor'
  <2>1. /\ rows' = rows \ Gone({Proj(q)}) /\ UNCHANGED <<objects, lost>>
        /\ cleanups' = IF Proj(q) \in rows THEN cleanups \cup {q} ELSE cleanups
    BY <1>4, DeletionIs DEF DeleteByRequest, DeleteAtStartup, delete_project
  <2>2. ASSUME NEW p \in objects, Proj(p) \in Gone({Proj(q)}) PROVE p = q
    <3>1. \A o : Org(o) # Proj(q)
      BY Apart
    <3>2. Proj(p) = Proj(q)
      BY <2>2, <3>1, ProjectsGone
    <3> QED
      BY <3>2 DEF Proj
  <2> QED
    BY <2>1, <2>2 DEF ObjectsAccountedFor
<1>5. ASSUME NEW p \in Projects, background_cleanup(p) PROVE ObjectsAccountedFor'
  BY <1>5 DEF background_cleanup, ObjectsAccountedFor
<1>6. ASSUME NEW u \in Users, NEW p \in Projects, import_file(u, p) PROVE ObjectsAccountedFor'
  <2>1. PICK o \in Organizations : <<Proj(p), "organization_id", Org(o)>> \in links
    BY <1>6 DEF import_file, Access, Belongs
  <2>2. Proj(p) \in rows
    BY <2>1 DEF LinksKnown
  <2>3. rows \subseteq rows' /\ objects' = objects \cup {p} /\ UNCHANGED <<cleanups, lost>>
    BY <1>6 DEF import_file, Insert
  <2> QED
    BY <2>2, <2>3 DEF ObjectsAccountedFor
<1>7. CASE /\ rows \subseteq rows' /\ UNCHANGED <<objects, cleanups, lost>>
  BY <1>7 DEF ObjectsAccountedFor
<1>8. CASE UNCHANGED vars \/ Start \/ check_in_deletion_projects \/ StartupFails \/ \E p \in Projects : RequestFails(p)
  <2>1. rows' = rows /\ UNCHANGED <<objects, cleanups, lost>>
    BY <1>8 DEF Start, check_in_deletion_projects, StartupFails, RequestFails
  <2> QED
    BY <1>7, <2>1
<1>9. ASSUME NEW o \in Organizations, create_organization(o) \/ create_bucket(o) PROVE ObjectsAccountedFor'
  <2>1. rows \subseteq rows' /\ UNCHANGED <<objects, cleanups, lost>>
    BY <1>9 DEF create_organization, create_bucket, Insert
  <2> QED
    BY <1>7, <2>1
<1>10. ASSUME NEW u \in Users,
              \/ get_or_create_user(u) \/ remove_organization_from_user(u)
              \/ \E o \in Organizations : update_organization_of_user(u, o)
       PROVE  ObjectsAccountedFor'
  <2>1. rows \subseteq rows' /\ UNCHANGED <<objects, cleanups, lost>>
    BY <1>10 DEF get_or_create_user, remove_organization_from_user, update_organization_of_user, Insert
  <2> QED
    BY <1>7, <2>1
<1>11. ASSUME NEW u \in Users, NEW p \in Projects,
              \/ create_project(u, p) \/ create_labels(u, p) \/ run_weak_supervision(u, p)
              \/ initiate_weak_supervision(u, p)
       PROVE  ObjectsAccountedFor'
  <2>1. rows \subseteq rows' /\ UNCHANGED <<objects, cleanups, lost>>
    BY <1>11 DEF create_project, create_labels, run_weak_supervision, initiate_weak_supervision, Insert
  <2> QED
    BY <1>7, <2>1
<1>12. ASSUME NEW u \in Users, NEW p \in Projects, delete_project_request(u, p) \/ update_project_status(u, p)
       PROVE  ObjectsAccountedFor'
  <2>1. rows' = rows /\ UNCHANGED <<objects, cleanups, lost>>
    BY <1>12 DEF delete_project_request, update_project_status
  <2> QED
    BY <1>7, <2>1
<1> QED
  BY <1>1, <1>2, <1>3, <1>4, <1>5, <1>6, <1>8, <1>9, <1>10, <1>11, <1>12
  DEF LifecycleNext, UserActs, ThreadActs

(* Objects whose project has no row have a thread about to delete them, or     *)
(* were lost with such a thread or with the organization.                    *)
THEOREM ObjectsStay == Behaviour => []ObjectsAccountedFor
<1>1. LifecycleInit => ObjectsAccountedFor
  BY DEF LifecycleInit, ObjectsAccountedFor
<1>2. RowsKnown /\ LinksKnown /\ [LifecycleNext]_vars => RowsKnown' /\ LinksKnown'
  BY ShapesKept
<1>3. LinksKnown /\ ObjectsAccountedFor /\ [LifecycleNext]_vars => ObjectsAccountedFor'
  BY ObjectsKept
<1> QED
  BY <1>1, <1>2, <1>3, ShapesAtFirst, PTL DEF Behaviour

(* Records and labels by hand go only in steps in which their project goes,  *)
(* whoever else is deleted.                                                  *)
THEOREM WorkStays == Behaviour => WorkOutlivesUsers
<1> DEFINE Safe == \A r \in rows \ rows' :
                     r[1] \in {"record", "record_label_association"} /\ r # Weak(r[2]) => Proj(r[2]) \notin rows'
<1>1. ASSUME RowsKnown, LinksKnown, [LifecycleNext]_vars PROVE Safe
  <2> SUFFICES ASSUME NEW r \in rows \ rows',
                      r[1] \in {"record", "record_label_association"}, r # Weak(r[2])
               PROVE  Proj(r[2]) \notin rows'
    OBVIOUS
  <2>1. Deletes
    <3>1. ~Inserts
      BY DEF Inserts, Insert
    <3> QED
      BY <1>1, <3>1, Kinds
  <2>2. PICK S : /\ Delete(S)
                 /\ \/ \E o \in Organizations : S = {Org(o)}
                    \/ \E u \in Users : S = {User(u)}
                    \/ \E p \in Projects : S = {Proj(p)}
    BY <2>1, DeletesRows
  <2>3. r \in Gone(S) /\ rows' = rows \ Gone(S)
    BY <2>2, DeletionIs
  <2>4. PICK p \in Projects : r = Rec(p) \/ \E u \in Users : r = ByHand(p, u)
    <3>1. IsRow(r)
      BY <1>1 DEF RowsKnown
    <3> QED
      BY <3>1 DEF IsRow
  <2>5. r[2] = p
    BY <2>4
  <2>6. r \notin S /\ Rec(p) \notin S
    BY <2>2, <2>4
  <2>7. Proj(p) \in Gone(S)
    BY <1>1, <2>3, <2>4, <2>6, WorkGone
  <2> QED
    BY <2>3, <2>5, <2>7
<1>2. RowsKnown /\ LinksKnown /\ [LifecycleNext]_vars => RowsKnown' /\ LinksKnown'
  BY ShapesKept
<1>3. RowsKnown /\ LinksKnown /\ [LifecycleNext]_vars => [Safe]_vars
  BY <1>1
<1> QED
  BY <1>2, <1>3, ShapesAtFirst, PTL DEF Behaviour, WorkOutlivesUsers
================================================================================
