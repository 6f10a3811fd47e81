--------------------------- MODULE MemoriesProofs ---------------------------
(***************************************************************************)
(* Theorems about the memories of a space: the counters that the trigger   *)
(* keeps are what the rows say, so the quota holds; the history of a       *)
(* memory is kept; roles, conflicts and the import do what they promise.   *)
(* They hold for every finite set of memories and every quota.             *)
(***************************************************************************)
EXTENDS Memories, FiniteSetTheorems, TLAPS

-----------------------------------------------------------------------------
(* The invariant.                                                          *)

\* A memory that exists has a text, and one of the two statuses.
RowsOK == \A m \in Memory : Exists(m) => row[m].text \in Text /\ row[m].status \in {"active", "inactive"}

\* The counters of the trigger are those of the rows.
Counted == counted = [memories |-> Cardinality(Live), bytes |-> LiveBytes]

\* The text of a memory is that of its newest version.
TextIsNewest ==
    \A m \in Memory :
       IF Exists(m) THEN versions[m] # <<>> /\ row[m].text = versions[m][Len(versions[m])]
       ELSE versions[m] = <<>>

\* What is looked for conflicts of is a memory, and never its own candidate; an
\* open conflict is one of memories that are there.
ConflictsOK ==
    /\ \A r \in Request : stage[r] \in {"detecting", "flagging"} => found[r] \in Memory
    /\ \A c \in Conflict : conflict[c].status = "open" =>
          /\ conflict[c].a \in Memory /\ conflict[c].b \in Memory
          /\ Exists(conflict[c].a) /\ Exists(conflict[c].b)
    /\ \A c \in Conflict : conflict[c].status = "gone" => conflict[c] = GoneToo

\* An import belongs to the request that runs it, and a verdict to its end; what
\* it has stored was never an unused row again.
ImportOK ==
    /\ \A r \in Request : stage[r] \in {"looking", "importing", "closing"} => job.by = r
    /\ job.verdict # "none" => job.by \in Request /\ stage[job.by] = "closing"
    /\ IsFiniteSet(job.stored)
    /\ \A m \in job.stored : row[m] # NoRow
    /\ ImportTellsTheTruth

ContentInv == RowsOK /\ Counted /\ TextIsNewest

IInv == TypeOK /\ ContentInv /\ ConflictsOK /\ ImportOK

-----------------------------------------------------------------------------
(* Sums.                                                                   *)

LEMMA UnitsOf ==
  ASSUME NEW C, NEW f \in [C -> Int]
  PROVE  /\ \A u \in Units(f) : u[1] \in C /\ u[2] \in 1 .. f[u[1]] /\ u = <<u[1], u[2]>>
         /\ \A m \in C : \A i \in 1 .. f[m] : <<m, i>> \in Units(f)
  BY DEF Units

LEMMA UnitsFinite ==
  ASSUME NEW C, IsFiniteSet(C), NEW f \in [C -> Int]
  PROVE  IsFiniteSet(Units(f)) /\ Cardinality(Units(f)) \in Nat
<1> DEFINE part == [m \in C |-> {m} \X (1 .. f[m])]
           parts == {{m} \X (1 .. f[m]) : m \in C}
<1>1. part \in Surjection(C, parts)
  BY DEF Surjection
<1>2. IsFiniteSet(parts)
  <2> HIDE DEF part, parts
  <2> QED BY <1>1, FS_Surjection
<1>3. ASSUME NEW m \in C PROVE IsFiniteSet({m} \X (1 .. f[m]))
  <2>1. IsFiniteSet({m}) /\ f[m] \in Int BY FS_Singleton
  <2>2. IsFiniteSet(1 .. f[m]) BY <2>1, FS_Interval
  <2> QED BY <2>1, <2>2, FS_Product
<1>4. IsFiniteSet(UNION parts)
  <2>1. \A T \in parts : IsFiniteSet(T) BY <1>3
  <2> HIDE DEF parts
  <2> QED BY <1>2, <2>1, FS_UNION
<1> QED BY <1>4, FS_CardinalityType DEF Units

\* From low to high there are as many units as the increase says.
LEMMA UnitsAbove ==
  ASSUME NEW C, IsFiniteSet(C), NEW D \in SUBSET C,
         NEW low \in [C -> Nat], NEW high \in [C -> Nat], NEW d \in [D -> Int],
         \A m \in C \ D : high[m] = low[m],
         \A m \in D : high[m] = low[m] + (IF d[m] > 0 THEN d[m] ELSE 0)
  PROVE  Cardinality(Units(high)) = Cardinality(Units(low)) + Cardinality(Units(d))
<1> DEFINE above == Units(high) \ Units(low)
           shift == [u \in above |-> <<u[1], u[2] - low[u[1]]>>]
<1>0. low \in [C -> Int] /\ high \in [C -> Int]
  OBVIOUS
<1>1. IsFiniteSet(Units(high)) /\ IsFiniteSet(Units(low)) /\ IsFiniteSet(above)
  BY <1>0, UnitsFinite, FS_Difference
<1>2. Units(low) \subseteq Units(high)
  BY <1>0, UnitsOf
<1>3. ASSUME NEW u \in above
      PROVE  u[1] \in D /\ u = <<u[1], u[2]>> /\ u[2] \in low[u[1]] + 1 .. high[u[1]]
  BY <1>0, <1>3, UnitsOf
<1>4. shift \in Bijection(above, Units(d))
  <2>1. ASSUME NEW u \in above PROVE shift[u] \in Units(d)
    <3>1. u[2] - low[u[1]] \in 1 .. d[u[1]]
      BY <1>3
    <3> QED BY <1>3, <3>1, UnitsOf
  <2>2. ASSUME NEW u \in above, NEW v \in above, shift[u] = shift[v] PROVE u = v
    <3>1. u[1] = v[1] /\ u[2] - low[u[1]] = v[2] - low[v[1]]
      BY <2>2
    <3>2. u[2] = v[2]
      BY <1>3, <3>1
    <3> QED BY <1>3, <3>1, <3>2
  <2>3. ASSUME NEW v \in Units(d) PROVE \E u \in above : shift[u] = v
    <3> DEFINE u == <<v[1], v[2] + low[v[1]]>>
    <3>1. v[1] \in D /\ v[2] \in 1 .. d[v[1]] /\ v = <<v[1], v[2]>>
      BY UnitsOf
    <3>2. u[2] \in 1 .. high[v[1]] /\ u[2] > low[v[1]]
      BY <3>1
    <3>3. u \in Units(high)
      BY <1>0, <3>1, <3>2, UnitsOf
    <3>4. u \notin Units(low)
      BY <1>0, <3>1, <3>2, UnitsOf
    <3>5. shift[u] = v
      BY <3>1, <3>3, <3>4
    <3> QED BY <3>3, <3>4, <3>5
  <2> HIDE DEF above
  <2> QED BY <2>1, <2>2, <2>3 DEF Bijection, Injection, Surjection, IsInjective
<1>5. Cardinality(Units(d)) = Cardinality(above)
  <2> HIDE DEF above, shift
  <2> QED BY <1>1, <1>4, FS_Bijection DEF ExistsBijection
<1>6. Units(high) \cap Units(low) = Units(low)
  BY <1>2
<1>7. Cardinality(above) = Cardinality(Units(high)) - Cardinality(Units(low))
  BY <1>1, <1>6, FS_Difference
<1> QED BY <1>1, <1>5, <1>7, FS_CardinalityType

\* The sum of what is added and taken away takes one sum to the other.
LEMMA SumsFollow ==
  ASSUME NEW C, IsFiniteSet(C), NEW D \in SUBSET C,
         NEW before \in [C -> Nat], NEW after \in [C -> Nat], NEW d \in [D -> Int],
         \A m \in C \ D : after[m] = before[m],
         \A m \in D : after[m] = before[m] + d[m]
  PROVE  SumOf(d) \in Int /\ Cardinality(Units(after)) = Cardinality(Units(before)) + SumOf(d)
<1> DEFINE low == [m \in C |-> IF after[m] < before[m] THEN after[m] ELSE before[m]]
           e == [m \in D |-> 0 - d[m]]
<1>1. low \in [C -> Nat] /\ e \in [D -> Int] /\ DOMAIN d = D
  OBVIOUS
<1>2. Cardinality(Units(after)) = Cardinality(Units(low)) + Cardinality(Units(d))
  <2>1. /\ \A m \in C \ D : after[m] = low[m]
        /\ \A m \in D : after[m] = low[m] + (IF d[m] > 0 THEN d[m] ELSE 0)
    OBVIOUS
  <2> HIDE DEF low, e
  <2> QED BY <1>1, <2>1, UnitsAbove, SMTT(30)
<1>3. Cardinality(Units(before)) = Cardinality(Units(low)) + Cardinality(Units(e))
  <2>1. /\ \A m \in C \ D : before[m] = low[m]
        /\ \A m \in D : before[m] = low[m] + (IF e[m] > 0 THEN e[m] ELSE 0)
    OBVIOUS
  <2> HIDE DEF low, e
  <2> QED BY <1>1, <2>1, UnitsAbove, SMTT(30)
<1>4. SumOf(d) = Cardinality(Units(d)) - Cardinality(Units(e))
  BY <1>1 DEF SumOf
<1>5. /\ Cardinality(Units(low)) \in Nat
      /\ Cardinality(Units(d)) \in Nat
      /\ Cardinality(Units(e)) \in Nat
  <2>1. IsFiniteSet(D) BY FS_Subset
  <2>2. low \in [C -> Int] BY <1>1
  <2> HIDE DEF low, e
  <2> QED BY <1>1, <2>1, <2>2, UnitsFinite
<1> QED BY <1>2, <1>3, <1>4, <1>5

-----------------------------------------------------------------------------
(* The counters.                                                           *)

LEMMA Texts == \A t \in Text \cup {0} : t \in Nat
  BY MemoriesAssumption

LEMMA TextOf ==
  ASSUME NEW rows \in [Memory -> Rows], NEW m \in Memory
  PROVE  rows[m].text \in Nat
<1>1. rows[m] \in Rows
  OBVIOUS
<1>2. rows[m].text \in Text \cup {0}
  BY <1>1 DEF Rows
<1> QED BY <1>2, Texts

Ones(rows)  == [m \in Memory |-> IF rows[m].trashed THEN 0 ELSE 1]
Sizes(rows) == [m \in Memory |-> IF rows[m].trashed THEN 0 ELSE rows[m].text]

LEMMA Weights ==
  ASSUME NEW rows \in [Memory -> Rows]
  PROVE  Ones(rows) \in [Memory -> Nat] /\ Sizes(rows) \in [Memory -> Nat]
<1>1. \A m \in Memory : rows[m].text \in Nat
  BY TextOf
<1> QED BY <1>1 DEF Ones, Sizes

\* Counting the live rows is adding up ones, counting their bytes adding up sizes.
LEMMA LiveRows ==
  ASSUME NEW rows \in [Memory -> Rows], NEW live, live = {m \in Memory : ~rows[m].trashed}
  PROVE  /\ Cardinality(live) = Cardinality(Units(Ones(rows)))
         /\ SumOf([m \in live |-> rows[m].text]) = Cardinality(Units(Sizes(rows)))
<1>1. IsFiniteSet(live)
  BY MemoriesAssumption, FS_Subset
<1>2. Cardinality(live) = Cardinality(Units(Ones(rows)))
  <2> DEFINE one == [m \in live |-> <<m, 1>>]
  <2>1. Units(Ones(rows)) = {<<m, 1>> : m \in live}
    BY DEF Units, Ones
  <2>2. one \in Bijection(live, Units(Ones(rows)))
    BY <2>1 DEF Bijection, Injection, Surjection, IsInjective
  <2> HIDE DEF one
  <2> QED BY <1>1, <2>2, FS_Bijection DEF ExistsBijection
<1>3. SumOf([m \in live |-> rows[m].text]) = Cardinality(Units(Sizes(rows)))
  <2> DEFINE t == [m \in live |-> rows[m].text]
             e == [m \in DOMAIN t |-> 0 - t[m]]
  <2>0. \A m \in Memory : rows[m].text \in Nat
    BY TextOf
  <2>1. Units(t) = Units(Sizes(rows))
    <3>1. Units(t) = UNION {{m} \X (1 .. rows[m].text) : m \in live}
      BY DEF Units
    <3>2. \A u \in Units(Sizes(rows)) : u \in Units(t)
      BY <2>0, <3>1 DEF Units, Sizes
    <3>3. \A u \in Units(t) : u \in Units(Sizes(rows))
      BY <2>0, <3>1 DEF Units, Sizes
    <3> QED BY <3>2, <3>3
  <2>2. Units(e) = {}
    <3>1. \A m \in live : e[m] \in Int /\ e[m] <= 0 BY <2>0
    <3>2. Units(e) = UNION {{m} \X (1 .. e[m]) : m \in live} BY DEF Units
    <3> HIDE DEF e
    <3> QED BY <3>1, <3>2
  <2>3. IsFiniteSet(Units(Sizes(rows))) /\ Cardinality(Units(Sizes(rows))) \in Nat
    <3>1. Sizes(rows) \in [Memory -> Int]
      BY Weights
    <3> QED BY <3>1, MemoriesAssumption, UnitsFinite
  <2>4. SumOf(t) = Cardinality(Units(t)) - Cardinality(Units(e))
    BY DEF SumOf
  <2> HIDE DEF t, e
  <2>5. SumOf(t) = Cardinality(Units(Sizes(rows)))
    BY <2>1, <2>2, <2>3, <2>4, FS_EmptySet
  <2> QED BY <2>5 DEF t
<1> QED BY <1>2, <1>3

\* The trigger keeps its counters true, and lets nothing grow beyond the quota.
LEMMA WritesCount ==
  ASSUME TypeOK, Counted, NEW rows \in [Memory -> Rows], Writes(rows)
  PROVE  /\ row' = rows
         /\ Counted'
         /\ counted' \in [memories : Nat, bytes : Nat]
         /\ Cardinality(Live') > limit.memories => Cardinality(Live') <= Cardinality(Live)
         /\ LiveBytes' > limit.bytes => LiveBytes' <= LiveBytes
<1> DEFINE changed == {m \in Memory : rows[m] # row[m]}
           dn == [m \in changed |-> CountDelta(row[m], rows[m])]
           db == [m \in changed |-> BytesDelta(row[m], rows[m])]
           n == SumOf(dn)
           b == SumOf(db)
<1>0. row \in [Memory -> Rows] /\ changed \in SUBSET Memory
  BY DEF TypeOK
<1>1. /\ n <= 0 \/ counted.memories + n <= limit.memories
      /\ b <= 0 \/ counted.bytes + b <= limit.bytes
      /\ counted' = [memories |-> counted.memories + n, bytes |-> counted.bytes + b]
      /\ row' = rows
  BY DEF Writes
<1>2. \A m \in Memory : row[m].text \in Nat /\ rows[m].text \in Nat
  BY <1>0, TextOf
<1>3. n \in Int /\ Cardinality(Units(Ones(rows))) = Cardinality(Units(Ones(row))) + n
  <2>1. dn \in [changed -> Int]
    BY DEF CountDelta
  <2>2. /\ \A m \in Memory \ changed : Ones(rows)[m] = Ones(row)[m]
        /\ \A m \in changed : Ones(rows)[m] = Ones(row)[m] + dn[m]
    BY DEF Ones, CountDelta
  <2>3. IsFiniteSet(Memory) /\ Ones(row) \in [Memory -> Nat] /\ Ones(rows) \in [Memory -> Nat]
    BY <1>0, Weights, MemoriesAssumption
  <2> HIDE DEF changed, dn
  <2> QED BY <1>0, <2>1, <2>2, <2>3, SumsFollow, SMTT(30)
<1>4. b \in Int /\ Cardinality(Units(Sizes(rows))) = Cardinality(Units(Sizes(row))) + b
  <2>1. db \in [changed -> Int]
    BY <1>2 DEF BytesDelta
  <2>2. /\ \A m \in Memory \ changed : Sizes(rows)[m] = Sizes(row)[m]
        /\ \A m \in changed : Sizes(rows)[m] = Sizes(row)[m] + db[m]
    BY <1>2 DEF Sizes, BytesDelta
  <2>3. IsFiniteSet(Memory) /\ Sizes(row) \in [Memory -> Nat] /\ Sizes(rows) \in [Memory -> Nat]
    BY <1>0, Weights, MemoriesAssumption
  <2> HIDE DEF changed, db
  <2> QED BY <1>0, <2>1, <2>2, <2>3, SumsFollow, SMTT(30)
<1>5. Live = {m \in Memory : ~row[m].trashed} /\ Live' = {m \in Memory : ~rows[m].trashed}
  BY <1>1 DEF Live, Visible
<1>6. /\ Cardinality(Live) = Cardinality(Units(Ones(row)))
      /\ LiveBytes = Cardinality(Units(Sizes(row)))
  BY <1>0, <1>5, LiveRows DEF LiveBytes
<1>7. /\ Cardinality(Live') = Cardinality(Units(Ones(rows)))
      /\ LiveBytes' = Cardinality(Units(Sizes(rows)))
  <2>1. LiveBytes' = SumOf([m \in Live' |-> rows[m].text])
    BY <1>1 DEF LiveBytes
  <2> QED BY <1>5, <2>1, LiveRows
<1>8. /\ Cardinality(Units(Ones(rows))) \in Nat /\ Cardinality(Units(Sizes(rows))) \in Nat
      /\ Cardinality(Units(Ones(row))) \in Nat /\ Cardinality(Units(Sizes(row))) \in Nat
  <2>1. \A f \in [Memory -> Nat] : Cardinality(Units(f)) \in Nat
    <3>1. \A f \in [Memory -> Nat] : f \in [Memory -> Int]
      OBVIOUS
    <3> QED BY <3>1, UnitsFinite, MemoriesAssumption
  <2> QED BY <1>0, <2>1, Weights
<1> HIDE DEF n, b
<1>9. counted.memories = Cardinality(Units(Ones(row))) /\ counted.bytes = Cardinality(Units(Sizes(row)))
  BY <1>6 DEF Counted
<1>10. counted' = [memories |-> Cardinality(Live'), bytes |-> LiveBytes']
  BY <1>1, <1>3, <1>4, <1>7, <1>9
<1>11. n = Cardinality(Live') - Cardinality(Live) /\ b = LiveBytes' - LiveBytes
  BY <1>3, <1>4, <1>6, <1>7, <1>8
<1>12. limit.memories \in Nat /\ limit.bytes \in Nat
  BY MemoriesAssumption DEF TypeOK
<1> QED BY <1>1, <1>6, <1>7, <1>8, <1>9, <1>10, <1>11, <1>12 DEF Counted

-----------------------------------------------------------------------------
(* What a step does to the memories.                                       *)

\* A transaction that changes memories which are there, with a version of those
\* in ms: no other changes its text, and all of them stay.
Rewrites(ms, rows) ==
    /\ rows \in [Memory -> Rows]
    /\ \A m \in Memory :
          /\ rows[m] # row[m] \/ m \in ms =>
                Exists(m) /\ rows[m].text \in Text /\ rows[m].status \in {"active", "inactive"}
          /\ m \notin ms => rows[m].text = row[m].text
    /\ Writes(rows)
    /\ versions' = [m \in Memory |-> IF m \in ms THEN Append(versions[m], rows[m].text) ELSE versions[m]]

LEMMA RewriteKeeps ==
  ASSUME TypeOK, ContentInv, NEW ms, NEW rows, Rewrites(ms, rows)
  PROVE  /\ ContentInv' /\ row' \in [Memory -> Rows] /\ versions' \in [Memory -> Seq(Text)]
         /\ counted' \in [memories : Nat, bytes : Nat]
<1>1. /\ row' = rows /\ Counted' /\ rows \in [Memory -> Rows]
      /\ counted' \in [memories : Nat, bytes : Nat]
  BY WritesCount DEF Rewrites, ContentInv
<1>2. ASSUME NEW m \in Memory
      PROVE  /\ Exists(m)' <=> Exists(m)
             /\ Exists(m)' => rows[m].text \in Text /\ rows[m].status \in {"active", "inactive"}
  <2>1. CASE rows[m] # row[m] \/ m \in ms
    BY <1>1, <2>1 DEF Rewrites, Exists, NoRow, Gone
  <2>2. CASE rows[m] = row[m]
    BY <1>1, <2>2 DEF Exists, ContentInv, RowsOK
  <2> QED BY <2>1, <2>2
<1>3. RowsOK'
  BY <1>1, <1>2 DEF RowsOK
<1>4. ASSUME NEW m \in Memory
      PROVE  /\ versions'[m] \in Seq(Text)
             /\ IF Exists(m)' THEN versions'[m] # <<>> /\ row'[m].text = versions'[m][Len(versions'[m])]
                ELSE versions'[m] = <<>>
  <2>1. versions[m] \in Seq(Text)
    BY DEF TypeOK
  <2>2. CASE m \in ms
    BY <1>1, <1>2, <2>1, <2>2 DEF Rewrites
  <2>3. CASE m \notin ms
    BY <1>1, <1>2, <2>1, <2>3 DEF Rewrites, ContentInv, TextIsNewest
  <2> QED BY <2>2, <2>3
<1>5. TextIsNewest'
  BY <1>4 DEF TextIsNewest
<1>6. versions' \in [Memory -> Seq(Text)]
  BY <1>4 DEF Rewrites
<1> QED BY <1>1, <1>3, <1>5, <1>6 DEF ContentInv

LEMMA InsertKeeps ==
  ASSUME TypeOK, ContentInv, NEW m \in Memory, NEW t \in Text, NEW s \in {"active", "inactive"}, Insert(m, t, s)
  PROVE  /\ ContentInv' /\ row' \in [Memory -> Rows] /\ versions' \in [Memory -> Seq(Text)]
         /\ counted' \in [memories : Nat, bytes : Nat]
<1> DEFINE rows == [row EXCEPT ![m] = [text |-> t, status |-> s, trashed |-> FALSE]]
<1>1. rows \in [Memory -> Rows]
  BY DEF TypeOK, Rows
<1>2. /\ row[m] = NoRow /\ Writes(rows)
      /\ versions' = [x \in Memory |-> IF x \in {m} THEN Append(versions[x], rows[x].text) ELSE versions[x]]
  BY DEF Insert, Saves
<1>3. rows[m].text = t /\ \A x \in Memory \ {m} : rows[x] = row[x]
  BY DEF TypeOK
<1>4. row' = rows /\ Counted' /\ counted' \in [memories : Nat, bytes : Nat]
  <2> HIDE DEF rows
  <2> QED BY <1>1, <1>2, WritesCount DEF ContentInv
<1>5. rows[m].status = s /\ Exists(m)' /\ ~Exists(m)
  BY <1>2, <1>4 DEF Exists, NoRow, Gone, TypeOK
<1>6. \A x \in Memory \ {m} : Exists(x)' <=> Exists(x)
  BY <1>3, <1>4 DEF Exists
<1> HIDE DEF rows
<1>7. RowsOK'
  BY <1>3, <1>4, <1>5, <1>6 DEF RowsOK, ContentInv
<1>8. ASSUME NEW x \in Memory
      PROVE  /\ versions'[x] \in Seq(Text)
             /\ IF Exists(x)' THEN versions'[x] # <<>> /\ row'[x].text = versions'[x][Len(versions'[x])]
                ELSE versions'[x] = <<>>
  <2>1. versions[x] \in Seq(Text)
    BY DEF TypeOK
  <2>2. CASE x = m
    BY <1>2, <1>3, <1>4, <1>5, <2>1, <2>2
  <2>3. CASE x # m
    BY <1>2, <1>3, <1>4, <1>6, <2>1, <2>3 DEF ContentInv, TextIsNewest
  <2> QED BY <2>2, <2>3
<1>9. TextIsNewest' /\ versions' \in [Memory -> Seq(Text)]
  BY <1>2, <1>8 DEF TextIsNewest
<1> QED BY <1>1, <1>4, <1>7, <1>9 DEF ContentInv

LEMMA EraseKeeps ==
  ASSUME TypeOK, ContentInv, NEW ms \in SUBSET Memory, Erase(ms)
  PROVE  /\ ContentInv' /\ row' \in [Memory -> Rows] /\ versions' \in [Memory -> Seq(Text)]
         /\ counted' \in [memories : Nat, bytes : Nat]
         /\ row' = [m \in Memory |-> IF m \in ms THEN Gone ELSE row[m]]
<1> DEFINE rows == [m \in Memory |-> IF m \in ms THEN Gone ELSE row[m]]
<1>1. rows \in [Memory -> Rows]
  BY DEF TypeOK, Rows, Gone, NoRow
<1>2. row' = rows /\ Counted' /\ counted' \in [memories : Nat, bytes : Nat]
  <2>1. Writes(rows) BY DEF Erase
  <2> HIDE DEF rows
  <2> QED BY <1>1, <2>1, WritesCount DEF ContentInv
<1>3. \A m \in Memory : Exists(m)' <=> Exists(m) /\ m \notin ms
  BY <1>2 DEF Exists
<1>4. RowsOK'
  BY <1>2, <1>3 DEF RowsOK, ContentInv
<1>5. versions' = [m \in Memory |-> IF m \in ms THEN <<>> ELSE versions[m]]
  BY DEF Erase
<1>6. TextIsNewest'
  BY <1>2, <1>3, <1>5 DEF TextIsNewest, ContentInv
<1>7. versions' \in [Memory -> Seq(Text)]
  BY <1>5 DEF TypeOK
<1> QED BY <1>1, <1>2, <1>4, <1>6, <1>7 DEF ContentInv

\* What a step may do to the memories, and the role it needs for it.
ContentStep ==
    \/ UNCHANGED content
    \/ role >= contributor /\ \E m \in Memory, t \in Text, s \in {"active", "inactive"} : Insert(m, t, s)
    \/ role >= editor /\ \E ms \in SUBSET Memory, rows \in [Memory -> Rows] : Rewrites(ms, rows)
    \/ role >= admin /\ \E ms \in SUBSET {m \in Memory : Exists(m)} : Erase(ms)

\* The rows that a restore, a change or a merge writes.
LEMMA RewriteOf ==
  ASSUME TypeOK, ContentInv, NEW ms \in SUBSET {m \in Memory : Exists(m)}, NEW rows \in [Memory -> Rows],
         Saves(ms, rows),
         \A m \in Memory : rows[m] # row[m] \/ m \in ms =>
            Exists(m) /\ rows[m].text \in Text /\ rows[m].status \in {"active", "inactive"},
         \A m \in Memory \ ms : rows[m].text = row[m].text
  PROVE  Rewrites(ms, rows)
  BY DEF Saves, Rewrites

LEMMA Seen == ASSUME TypeOK, NEW m \in Memory, Visible(m) PROVE Exists(m)
  BY DEF Visible, Exists, NoRow, Gone

LEMMA RewriteOne ==
  ASSUME TypeOK, ContentInv, NEW m \in Memory, Exists(m), NEW new \in Rows,
         new.text \in Text, new.status \in {"active", "inactive"}, NEW rows,
         rows = [row EXCEPT ![m] = new], Saves({m}, rows)
  PROVE  \E ms \in SUBSET Memory, rs \in [Memory -> Rows] : Rewrites(ms, rs)
<1>1. rows \in [Memory -> Rows]
  BY DEF TypeOK
<1>2. rows[m] = new /\ \A x \in Memory \ {m} : rows[x] = row[x]
  BY DEF TypeOK
<1>3. {m} \in SUBSET {x \in Memory : Exists(x)}
  OBVIOUS
<1>4. Rewrites({m}, rows)
  <2> HIDE DEF Rewrites
  <2> QED BY <1>1, <1>2, <1>3, RewriteOf
<1> QED BY <1>1, <1>4

LEMMA UpdateRewrites ==
  ASSUME TypeOK, ContentInv, NEW r \in Request, Update(r)
  PROVE  \E ms \in SUBSET Memory, rows \in [Memory -> Rows] : Rewrites(ms, rows)
<1>1. PICK m \in Memory, t \in Text, s \in {"active", "inactive"} :
         Visible(m) /\ Saves({m}, [row EXCEPT ![m].text = t, ![m].status = s])
  BY DEF Update
<1> DEFINE new == [row[m] EXCEPT !.text = t, !.status = s]
<1>2. Exists(m) BY <1>1, Seen
<1>3. new \in Rows /\ new.text = t /\ new.status = s
  <2>1. row[m] \in Rows BY DEF TypeOK
  <2> QED BY <2>1 DEF Rows
<1>4. [row EXCEPT ![m].text = t, ![m].status = s] = [row EXCEPT ![m] = new]
  BY DEF TypeOK
<1> HIDE DEF new
<1> QED BY <1>1, <1>2, <1>3, <1>4, RewriteOne

LEMMA RevertRewrites ==
  ASSUME TypeOK, ContentInv, NEW r \in Request, Revert(r)
  PROVE  \E ms \in SUBSET Memory, rows \in [Memory -> Rows] : Rewrites(ms, rows)
<1>1. PICK m \in {x \in Memory : Exists(x)}, s \in {"active", "inactive"} : \E v \in DOMAIN versions[m] :
         Saves({m}, [row EXCEPT ![m] = [text |-> versions[m][v], status |-> s, trashed |-> FALSE]])
  BY DEF Revert
<1>2. PICK v \in DOMAIN versions[m] :
         Saves({m}, [row EXCEPT ![m] = [text |-> versions[m][v], status |-> s, trashed |-> FALSE]])
  BY <1>1
<1> DEFINE new == [text |-> versions[m][v], status |-> s, trashed |-> FALSE]
<1>3. versions[m][v] \in Text
  BY DEF TypeOK
<1>4. new \in Rows /\ new.text \in Text /\ new.status = s
  BY <1>3 DEF Rows
<1>5. Saves({m}, [row EXCEPT ![m] = new])
  BY <1>2
<1> HIDE DEF new
<1> QED BY <1>4, <1>5, RewriteOne

\* The rows of forget() and change(): some that exist, in the trash, archived or
\* back from it.
LEMMA ChosenRewrites ==
  ASSUME TypeOK, ContentInv, NEW ms \in SUBSET {m \in Memory : Exists(m)},
         NEW rows \in {Trashed, Archived, Restored}, Saves(ms, Chosen(ms, rows))
  PROVE  \E xs \in SUBSET Memory, rs \in [Memory -> Rows] : Rewrites(xs, rs)
<1>1. ASSUME NEW m \in Memory
      PROVE  rows[m] \in Rows /\ rows[m].text = row[m].text /\ rows[m].status \in {"active", "inactive"}
  <2>1. row[m] \in Rows BY DEF TypeOK
  <2>2. rows[m] \in {[row[m] EXCEPT !.status = "inactive", !.trashed = TRUE],
                     [row[m] EXCEPT !.status = "inactive"],
                     [row[m] EXCEPT !.status = "active", !.trashed = FALSE]}
    BY DEF Trashed, Archived, Restored
  <2> QED BY <2>1, <2>2 DEF Rows
<1> DEFINE rs == Chosen(ms, rows)
<1>2. rs \in [Memory -> Rows]
  BY <1>1 DEF Chosen, TypeOK
<1>3. \A m \in Memory : rs[m] = IF m \in ms THEN rows[m] ELSE row[m]
  BY DEF Chosen
<1>4. \A m \in Memory : rs[m].text = row[m].text
  BY <1>1, <1>3
<1>5. \A m \in Memory : rs[m] # row[m] \/ m \in ms =>
         Exists(m) /\ rs[m].text \in Text /\ rs[m].status \in {"active", "inactive"}
  BY <1>1, <1>3, <1>4 DEF ContentInv, RowsOK
<1>6. Saves(ms, rs)
  OBVIOUS
<1> HIDE DEF rs
<1> QED BY <1>2, <1>4, <1>5, <1>6, RewriteOf

LEMMA Deactivated ==
  ASSUME TypeOK, NEW m \in Memory, NEW rows, rows = [row EXCEPT ![m].status = "inactive"]
  PROVE  /\ rows \in [Memory -> Rows]
         /\ rows[m].status = "inactive"
         /\ \A x \in Memory : rows[x].text = row[x].text
         /\ \A x \in Memory \ {m} : rows[x] = row[x]
<1>1. row \in [Memory -> Rows] /\ \A x \in Memory : row[x] \in Rows
  BY DEF TypeOK
<1>2. rows \in [Memory -> Rows]
  BY <1>1 DEF Rows
<1>3. rows[m].status = "inactive" /\ \A x \in Memory \ {m} : rows[x] = row[x]
  BY <1>1 DEF Rows
<1>4. \A x \in Memory : rows[x].text = row[x].text
  BY <1>1 DEF Rows
<1> QED BY <1>2, <1>3, <1>4

LEMMA ResolveRewrites ==
  ASSUME TypeOK, ContentInv, ConflictsOK, NEW r \in Request, Resolve(r), ~UNCHANGED content
  PROVE  \E ms \in SUBSET Memory, rows \in [Memory -> Rows] : Rewrites(ms, rows)
<1>1. PICK c \in Conflict :
         /\ StillOpen(c)
         /\ \/ Supersede(conflict[c].a) \/ Supersede(conflict[c].b)
            \/ \E t \in Text : Merge(conflict[c].a, conflict[c].b, t)
  BY DEF Resolve
<1> DEFINE a == conflict[c].a
           b == conflict[c].b
<1>2. a \in Memory /\ b \in Memory /\ Exists(a) /\ Exists(b)
  BY <1>1 DEF StillOpen, ConflictsOK
<1> HIDE DEF a, b
<1>3. ASSUME NEW m \in Memory, Exists(m), Supersede(m)
      PROVE  \E rows \in [Memory -> Rows] : Rewrites({}, rows)
  <2> DEFINE rows == [row EXCEPT ![m].status = "inactive"]
  <2>1. /\ rows \in [Memory -> Rows]
        /\ rows[m].status = "inactive"
        /\ \A x \in Memory : rows[x].text = row[x].text
        /\ \A x \in Memory \ {m} : rows[x] = row[x]
    BY Deactivated
  <2>2. Writes(rows) /\ versions' = versions
    BY <1>3 DEF Supersede
  <2>3. row[m].text \in Text
    BY <1>3 DEF ContentInv, RowsOK
  <2>4. versions' = [x \in Memory |-> IF x \in {} THEN Append(versions[x], rows[x].text) ELSE versions[x]]
    BY <2>2 DEF TypeOK
  <2> HIDE DEF rows
  <2> QED BY <1>3, <2>1, <2>2, <2>3, <2>4 DEF Rewrites
<1>4. ASSUME NEW t \in Text, Merge(a, b, t)
      PROVE  \E rows \in [Memory -> Rows] : Rewrites({a}, rows)
  <2> DEFINE old == [row EXCEPT ![b].status = "inactive"]
             rows == [old EXCEPT ![a].text = t]
  <2>1. /\ old \in [Memory -> Rows]
        /\ old[b].status = "inactive"
        /\ \A x \in Memory : old[x].text = row[x].text
        /\ \A x \in Memory \ {b} : old[x] = row[x]
    <3>1. b \in Memory BY <1>2
    <3> HIDE DEF rows
    <3> QED BY <3>1, Deactivated
  <2>2. Saves({a}, rows)
    BY <1>4 DEF Merge
  <2> HIDE DEF old
  <2>3. /\ rows \in [Memory -> Rows]
        /\ rows[a].text = t
        /\ \A x \in Memory : rows[x].status = old[x].status
        /\ \A x \in Memory \ {a} : rows[x] = old[x]
    BY <1>2, <2>1 DEF Rows
  <2> HIDE DEF rows
  <2>4. \A m \in Memory : rows[m] # row[m] \/ m \in {a} =>
            Exists(m) /\ rows[m].text \in Text /\ rows[m].status \in {"active", "inactive"}
    BY <1>2, <2>1, <2>3 DEF ContentInv, RowsOK
  <2>5. \A m \in Memory \ {a} : rows[m].text = row[m].text
    BY <2>1, <2>3
  <2>6. {a} \in SUBSET {m \in Memory : Exists(m)}
    BY <1>2
  <2>7. Rewrites({a}, rows)
    BY <2>2, <2>3, <2>4, <2>5, <2>6, RewriteOf
  <2> QED BY <2>3, <2>7
<1>5. {} \in SUBSET Memory /\ {a} \in SUBSET Memory
  BY <1>2
<1> QED BY <1>1, <1>2, <1>3, <1>4, <1>5 DEF a, b

LEMMA ContentSteps ==
  ASSUME TypeOK, ContentInv, ConflictsOK, Next
  PROVE  ContentStep
<1>1. ASSUME NEW r \in Request, Remember(r) \/ ExtractAndRemember(r) PROVE ContentStep
  BY <1>1 DEF Remember, ExtractAndRemember, Allowed, ContentStep
<1>2. ASSUME NEW r \in Request, ImportRecord(r) \/ RecordFails(r) \/ Interrupted(r) PROVE ContentStep
  BY <1>2 DEF ImportRecord, RecordFails, Interrupted, Throws, ContentStep
<1>3. ASSUME NEW r \in Request, Update(r) \/ Revert(r) PROVE ContentStep
  BY <1>3, UpdateRewrites, RevertRewrites DEF Update, Revert, Allowed, ContentStep
<1>4. ASSUME NEW r \in Request, Forget(r) \/ Change(r) PROVE ContentStep
  <2>1. PICK ms \in SUBSET {m \in Memory : Exists(m)}, rows \in {Trashed, Archived, Restored} :
           Saves(ms, Chosen(ms, rows))
    BY <1>4, Seen DEF Forget, Change
  <2>2. role >= editor
    BY <1>4 DEF Forget, Change, Allowed
  <2> QED BY <2>1, <2>2, ChosenRewrites DEF ContentStep
<1>5. ASSUME NEW r \in Request, Purge(r) \/ ForgetForGood(r) PROVE ContentStep
  <2>1. role >= admin
    BY <1>5 DEF Purge, ForgetForGood, Allowed
  <2>2. \E ms \in SUBSET {m \in Memory : Exists(m)} : Erase(ms)
    BY <1>5 DEF Purge, ForgetForGood
  <2> QED BY <2>1, <2>2 DEF ContentStep
<1>6. ASSUME NEW r \in Request, Resolve(r) PROVE ContentStep
  <2>1. role >= editor
    BY <1>6 DEF Resolve, Allowed
  <2> QED BY <1>6, <2>1, ResolveRewrites DEF ContentStep
<1>7. ASSUME NEW r \in Request,
             \/ \E level \in {contributor, editor, admin} : Begin(r, level)
             \/ Abandon(r) \/ Detect(r) \/ Flag(r) \/ StartImport(r) \/ Look(r)
             \/ \E aborted \in BOOLEAN : Judge(r, aborted)
             \/ CloseImport(r)
      PROVE  UNCHANGED content
  BY <1>7 DEF Begin, Abandon, Detect, Flag, StartImport, Look, Judge, CloseImport
<1>8. CASE SetQuota \/ RoleChanges \/ CancelImport
  BY <1>8 DEF SetQuota, RoleChanges, CancelImport, ContentStep
<1> QED BY <1>1, <1>2, <1>3, <1>4, <1>5, <1>6, <1>7, <1>8 DEF Next, RequestStep, ContentStep

LEMMA ContentKeeps ==
  ASSUME TypeOK, ContentInv, ContentStep
  PROVE  /\ ContentInv' /\ row' \in [Memory -> Rows] /\ versions' \in [Memory -> Seq(Text)]
         /\ counted' \in [memories : Nat, bytes : Nat]
<1>1. CASE UNCHANGED content
  BY <1>1 DEF content, TypeOK, ContentInv, RowsOK, Exists, Counted, Live, Visible, LiveBytes, TextIsNewest
<1>2. CASE ~UNCHANGED content
  BY <1>2, InsertKeeps, RewriteKeeps, EraseKeeps DEF ContentStep
<1> QED BY <1>1, <1>2

\* Only erasing takes a memory away.
LEMMA NothingElseErases ==
  ASSUME TypeOK, ContentInv, ContentStep, NEW m \in Memory, Exists(m)
  PROVE  Exists(m)' \/ \E ms \in SUBSET {x \in Memory : Exists(x)} : Erase(ms)
<1>1. CASE UNCHANGED content
  BY <1>1 DEF content, Exists
<1>2. ASSUME NEW x \in Memory, NEW t \in Text, NEW s \in {"active", "inactive"}, Insert(x, t, s)
      PROVE  Exists(m)'
  <2>1. row' = [row EXCEPT ![x] = [text |-> t, status |-> s, trashed |-> FALSE]] /\ row[x] = NoRow
    BY <1>2 DEF Insert, Saves, Writes
  <2> QED BY <2>1 DEF Exists, TypeOK
<1>3. ASSUME NEW ms, NEW rows, Rewrites(ms, rows) PROVE Exists(m)'
  <2>1. row' = rows BY <1>3 DEF Rewrites, Writes
  <2> QED BY <1>3, <2>1 DEF Rewrites, Exists, NoRow, Gone
<1> QED BY <1>1, <1>2, <1>3 DEF ContentStep

-----------------------------------------------------------------------------
(* What a step does to the requests, the conflicts and the import.         *)

Stages == {"idle", "ready", "detecting", "flagging", "looking", "importing", "closing"}

RequestsOK ==
    /\ stage \in [Request -> Stages]
    /\ needs \in [Request -> {0, contributor, editor, admin}]
    /\ found \in [Request -> Memory \cup {None}]
    /\ like \in [Request -> SUBSET Memory]
    /\ \A r \in Request : stage[r] \in {"detecting", "flagging"} => found[r] \in Memory

LEMMA GoesOn ==
  ASSUME RequestsOK, NEW r \in Request, NEW to \in Stages, NEW level \in {0, contributor, editor, admin},
         NEW m \in Memory \cup {None}, NEW xs \in SUBSET Memory,
         to \in {"detecting", "flagging"} => m \in Memory, Goes(r, to, level, m, xs)
  PROVE  RequestsOK'
  BY DEF RequestsOK, Goes

LEMMA RequestsKeep ==
  ASSUME TypeOK, ConflictsOK, Next
  PROVE  RequestsOK'
<1>0. RequestsOK
  BY DEF TypeOK, ConflictsOK, RequestsOK, Stages
<1> USE <1>0, GoesOn DEF Stages
<1>1. ASSUME NEW r \in Request, Answered(r) PROVE RequestsOK'
  BY <1>1 DEF Answered
<1>2. ASSUME NEW r \in Request, Resumes(r) PROVE RequestsOK'
  BY <1>1, <1>2 DEF Resumes
<1>3. ASSUME NEW r \in Request, \E level \in {contributor, editor, admin} : Begin(r, level) PROVE RequestsOK'
  BY <1>3 DEF Begin
<1>4. ASSUME NEW r \in Request,
             \/ Abandon(r) \/ Remember(r) \/ Update(r) \/ Change(r) \/ Revert(r) \/ Forget(r)
             \/ ForgetForGood(r) \/ Purge(r) \/ Resolve(r) \/ CloseImport(r)
      PROVE  RequestsOK'
  <2>1. Answered(r)
    BY <1>4 DEF Abandon, Remember, Update, Change, Revert, Forget, ForgetForGood, Purge, Resolve, CloseImport
  <2> QED BY <1>1, <2>1
<1>5. ASSUME NEW r \in Request, ExtractAndRemember(r) \/ ImportRecord(r) PROVE RequestsOK'
  <2>1. \E m \in Memory : Goes(r, "detecting", contributor, m, {})
    BY <1>5 DEF ExtractAndRemember, ImportRecord
  <2> QED BY <2>1
<1>6. ASSUME NEW r \in Request, Detect(r) PROVE RequestsOK'
  <2>1. found[r] \in Memory
    BY <1>6 DEF Detect, RequestsOK
  <2>2. Resumes(r) \/ \E xs \in SUBSET Memory : Goes(r, "flagging", contributor, found[r], xs)
    BY <1>6 DEF Detect
  <2> QED BY <1>2, <2>1, <2>2
<1>7. ASSUME NEW r \in Request, Flag(r) PROVE RequestsOK'
  <2>1. found[r] \in Memory /\ like[r] \in SUBSET Memory
    BY <1>7 DEF Flag, RequestsOK
  <2>2. Resumes(r) \/ \E b \in like[r] : Goes(r, "flagging", contributor, found[r], like[r] \ {b})
    BY <1>7 DEF Flag
  <2> QED BY <1>2, <2>1, <2>2
<1>8. ASSUME NEW r \in Request,
             \/ StartImport(r) \/ Look(r) \/ RecordFails(r) \/ Interrupted(r)
             \/ \E aborted \in BOOLEAN : Judge(r, aborted)
      PROVE  RequestsOK'
  <2>1. Answered(r) \/ \E to \in {"looking", "importing", "closing"} : Goes(r, to, contributor, None, {})
    BY <1>8 DEF StartImport, Look, RecordFails, Interrupted, Judge
  <2> QED BY <1>1, <2>1
<1>9. CASE SetQuota \/ RoleChanges \/ CancelImport
  BY <1>9 DEF SetQuota, RoleChanges, CancelImport, requests, RequestsOK
<1> QED BY <1>3, <1>4, <1>5, <1>6, <1>7, <1>8, <1>9 DEF Next, RequestStep

Conflicts == [a : Memory \cup {None}, b : Memory \cup {None},
              status : {"none", "gone", "open", "resolved", "dismissed"}]

\* A conflict goes one way: opened, decided once, and gone with its memories.
LEMMA ConflictSteps ==
  ASSUME TypeOK, ConflictsOK, Next
  PROVE  \/ UNCHANGED conflict
         \/ /\ UNCHANGED content
            /\ \E c \in Conflict : \E a, b \in {m \in Memory : Exists(m)} :
                  /\ conflict[c] = NoConflict
                  /\ conflict' = [conflict EXCEPT ![c] = [a |-> a, b |-> b, status |-> "open"]]
         \/ \E c \in Conflict, s \in {"dismissed", "resolved"} :
               /\ conflict[c].status = "open"
               /\ conflict' = [conflict EXCEPT ![c].status = s]
         \/ \E ms \in SUBSET {m \in Memory : Exists(m)} : Erase(ms)
<1>1. ASSUME NEW r \in Request, Flag(r)
      PROVE  \/ UNCHANGED conflict
             \/ /\ UNCHANGED content
                /\ \E c \in Conflict : \E a, b \in {m \in Memory : Exists(m)} :
                      /\ conflict[c] = NoConflict
                      /\ conflict' = [conflict EXCEPT ![c] = [a |-> a, b |-> b, status |-> "open"]]
  <2>1. found[r] \in Memory /\ like[r] \in SUBSET Memory
    BY <1>1 DEF Flag, TypeOK, ConflictsOK
  <2> QED BY <1>1, <2>1 DEF Flag
<1>2. ASSUME NEW r \in Request, Resolve(r)
      PROVE  \E c \in Conflict, s \in {"dismissed", "resolved"} :
                /\ conflict[c].status = "open"
                /\ conflict' = [conflict EXCEPT ![c].status = s]
  BY <1>2 DEF Resolve, StillOpen
<1>3. ASSUME NEW r \in Request, Purge(r) \/ ForgetForGood(r)
      PROVE  \E ms \in SUBSET {m \in Memory : Exists(m)} : Erase(ms)
  BY <1>3 DEF Purge, ForgetForGood
<1>4. ASSUME NEW r \in Request,
             \/ \E level \in {contributor, editor, admin} : Begin(r, level)
             \/ Abandon(r) \/ Remember(r) \/ ExtractAndRemember(r) \/ Update(r) \/ Change(r)
             \/ Revert(r) \/ Forget(r) \/ Detect(r) \/ StartImport(r) \/ Look(r) \/ ImportRecord(r)
             \/ RecordFails(r) \/ Interrupted(r) \/ CloseImport(r)
             \/ \E aborted \in BOOLEAN : Judge(r, aborted)
      PROVE  UNCHANGED conflict
  BY <1>4 DEF Begin, Abandon, Remember, ExtractAndRemember, Update, Change, Revert, Forget, Detect,
              StartImport, Look, ImportRecord, RecordFails, Interrupted, CloseImport, Judge
<1>5. CASE SetQuota \/ RoleChanges \/ CancelImport
  BY <1>5 DEF SetQuota, RoleChanges, CancelImport
<1> QED BY <1>1, <1>2, <1>3, <1>4, <1>5 DEF Next, RequestStep

LEMMA ConflictsKeep ==
  ASSUME TypeOK, ContentInv, ConflictsOK, Next
  PROVE  ConflictsOK' /\ conflict' \in [Conflict -> Conflicts]
<1> DEFINE Standing(x) == x.a \in Memory /\ x.b \in Memory /\ Exists(x.a) /\ Exists(x.b)
           Fine == \A c \in Conflict :
                      /\ conflict[c].status = "open" => Standing(conflict[c])
                      /\ conflict[c].status = "gone" => conflict[c] = GoneToo
<1>1. conflict \in [Conflict -> Conflicts] /\ Fine
  BY DEF TypeOK, ConflictsOK, Conflicts
<1>2. SUFFICES conflict' \in [Conflict -> Conflicts] /\ Fine'
  BY RequestsKeep DEF RequestsOK, ConflictsOK
<1>3. ASSUME NEW ms \in SUBSET {m \in Memory : Exists(m)}, Erase(ms)
      PROVE  conflict' \in [Conflict -> Conflicts] /\ Fine'
  <2>1. \A m \in Memory \ ms : Exists(m) => Exists(m)'
    BY <1>3, EraseKeeps DEF Exists
  <2>2. conflict' = [c \in Conflict |-> IF {conflict[c].a, conflict[c].b} \cap ms # {}
                                       THEN GoneToo ELSE conflict[c]]
    BY <1>3 DEF Erase
  <2>3. GoneToo \in Conflicts /\ GoneToo.status = "gone"
    BY DEF GoneToo, NoConflict, Conflicts
  <2> QED BY <1>1, <2>1, <2>2, <2>3
<1>4. CASE ~\E ms \in SUBSET {m \in Memory : Exists(m)} : Erase(ms)
  <2>1. \A m \in Memory : Exists(m) => Exists(m)'
    BY <1>4, ContentSteps, NothingElseErases
  <2>2. CASE UNCHANGED conflict
    BY <1>1, <2>1, <2>2
  <2>3. ASSUME NEW c \in Conflict, NEW a \in {m \in Memory : Exists(m)}, NEW b \in {m \in Memory : Exists(m)},
               conflict' = [conflict EXCEPT ![c] = [a |-> a, b |-> b, status |-> "open"]]
        PROVE  conflict' \in [Conflict -> Conflicts] /\ Fine'
    BY <1>1, <2>1, <2>3 DEF Conflicts
  <2>4. ASSUME NEW c \in Conflict, NEW s \in {"dismissed", "resolved"},
               conflict' = [conflict EXCEPT ![c].status = s]
        PROVE  conflict' \in [Conflict -> Conflicts] /\ Fine'
    BY <1>1, <2>1, <2>4 DEF Conflicts
  <2> QED BY <1>4, <2>2, <2>3, <2>4, ConflictSteps
<1> QED BY <1>3, <1>4

Jobs == [by : Request \cup {None}, cancel : BOOLEAN, done : Nat, failed : Nat,
         verdict : {"none", "completed", "failed", "cancelled"}, stored : SUBSET Memory]

\* What was stored once is no unused row again.
LEMMA StoredStay ==
  ASSUME TypeOK, ContentStep, NEW m \in Memory, row[m] # NoRow
  PROVE  row'[m] # NoRow
<1>1. CASE UNCHANGED content
  BY <1>1 DEF content
<1>2. ASSUME NEW x \in Memory, NEW t \in Text, NEW s \in {"active", "inactive"}, Insert(x, t, s)
      PROVE  row'[m] # NoRow
  BY <1>2 DEF Insert, Saves, Writes, TypeOK
<1>3. ASSUME NEW ms, NEW rows, Rewrites(ms, rows) PROVE row'[m] # NoRow
  <2>1. row' = rows BY <1>3 DEF Rewrites, Writes
  <2>2. rows[m] = row[m] \/ rows[m].status \in {"active", "inactive"}
    BY <1>3 DEF Rewrites
  <2>3. NoRow.status = "none" BY DEF NoRow
  <2> QED BY <2>1, <2>2, <2>3
<1>4. ASSUME NEW ms \in SUBSET {x \in Memory : Exists(x)}, Erase(ms) PROVE row'[m] # NoRow
  BY <1>4 DEF Erase, Writes, Gone, NoRow
<1> QED BY <1>1, <1>2, <1>3, <1>4 DEF ContentStep

\* What an import has stored is finite and stays so, one memory at a time.
LEMMA OneMoreStored ==
  ASSUME TypeOK, NEW S \in SUBSET Memory, IsFiniteSet(S), \A x \in S : row[x] # NoRow,
         NEW m \in Memory, NEW t \in Text, NEW s \in {"active", "inactive"}, Insert(m, t, s)
  PROVE  /\ IsFiniteSet(S \cup {m}) /\ Cardinality(S) \in Nat
         /\ Cardinality(S \cup {m}) = Cardinality(S) + 1
         /\ row'[m] # NoRow
<1>1. m \notin S
  BY DEF Insert
<1>2. row'[m] # NoRow
  BY DEF Insert, Saves, Writes, NoRow, TypeOK
<1> QED BY <1>1, <1>2, FS_AddElement, FS_CardinalityType

LEMMA ImportKeeps ==
  ASSUME TypeOK, ImportOK, ContentStep, Next
  PROVE  ImportOK' /\ job' \in Jobs
<1>1. job \in Jobs /\ stage \in [Request -> Stages] /\ NoJob \in Jobs
  BY DEF TypeOK, Jobs, NoJob, Stages
<1>2. /\ \A r \in Request : stage[r] \in {"looking", "importing", "closing"} => job.by = r
      /\ job.verdict # "none" => job.by \in Request /\ stage[job.by] = "closing"
      /\ job.verdict = "completed" => job.done + job.failed = Total
      /\ job.verdict = "failed" => job.done = 0 /\ job.failed = Total
      /\ IsFiniteSet(job.stored) /\ job.stored \in SUBSET Memory
      /\ \A m \in job.stored : row[m] # NoRow /\ row'[m] # NoRow
      /\ job.done <= Cardinality(job.stored)
      /\ Cardinality(job.stored) <= job.done + job.failed + (IF job.verdict = "cancelled" THEN 1 ELSE 0)
  BY <1>1, StoredStay DEF ImportOK, ImportTellsTheTruth, Jobs
<1>0. Cardinality(job.stored) \in Nat /\ job.done \in Nat /\ job.failed \in Nat
      /\ IsFiniteSet(NoJob.stored) /\ Cardinality(NoJob.stored) = 0 /\ NoJob.stored = {}
      /\ NoJob.verdict = "none" /\ NoJob.done = 0 /\ NoJob.failed = 0
  BY <1>1, <1>2, FS_CardinalityType, FS_EmptySet DEF Jobs, NoJob
<1> USE <1>0 DEF ImportOK, ImportTellsTheTruth
\* A request other than the closing one goes on, and only the import's imports.
<1>3. ASSUME NEW r \in Request, NEW to, job' = job, stage' = [stage EXCEPT ![r] = to],
             job.verdict # "none" => job.by # r,
             to \in {"looking", "importing", "closing"} => job.by = r
      PROVE  ImportOK' /\ job' \in Jobs
  BY <1>1, <1>2, <1>3
\* The import is over.
<1>4. ASSUME NEW r \in Request, job.by = r, job' = NoJob, Answered(r)
      PROVE  ImportOK' /\ job' \in Jobs
  BY <1>1, <1>2, <1>4 DEF Answered, Goes, NoJob
<1>5. ASSUME NEW r \in Request, stage[r] # "closing" PROVE job.verdict # "none" => job.by # r
  BY <1>2, <1>5
<1>6. ASSUME NEW r \in Request, stage[r] # "closing", job' = job, Answered(r) \/ Resumes(r)
      PROVE  ImportOK' /\ job' \in Jobs
  <2>1. \E to \in {"idle", "looking"} : stage' = [stage EXCEPT ![r] = to] /\ (to = "looking" => job.by = r)
    BY <1>6 DEF Answered, Resumes, Goes
  <2> QED BY <1>3, <1>5, <1>6, <2>1
<1>7. ASSUME NEW r \in Request, Abandon(r) PROVE ImportOK' /\ job' \in Jobs
  <2>1. CASE job.by = r
    BY <1>4, <1>7, <2>1 DEF Abandon
  <2>2. CASE job.by # r
    BY <1>3, <1>7, <2>2 DEF Abandon, Answered, Goes
  <2> QED BY <2>1, <2>2
<1>8. ASSUME NEW r \in Request,
             \/ \E level \in {contributor, editor, admin} : Begin(r, level)
             \/ Remember(r) \/ ExtractAndRemember(r) \/ Update(r) \/ Change(r) \/ Revert(r) \/ Forget(r)
             \/ ForgetForGood(r) \/ Purge(r) \/ Resolve(r)
      PROVE  ImportOK' /\ job' \in Jobs
  <2>1. job' = job /\ stage[r] # "closing"
    BY <1>8 DEF Begin, Remember, ExtractAndRemember, Update, Change, Revert, Forget, ForgetForGood,
                Purge, Resolve, Allowed
  <2>2. \E to \in {"idle", "ready", "detecting"} : stage' = [stage EXCEPT ![r] = to]
    BY <1>8 DEF Begin, Remember, ExtractAndRemember, Update, Change, Revert, Forget, ForgetForGood,
                Purge, Resolve, Answered, Goes
  <2> QED BY <1>3, <1>5, <2>1, <2>2
<1>9. ASSUME NEW r \in Request, Detect(r) \/ Flag(r) PROVE ImportOK' /\ job' \in Jobs
  <2>1. job' = job /\ stage[r] # "closing"
    BY <1>9 DEF Detect, Flag
  <2>2. Resumes(r) \/ stage' = [stage EXCEPT ![r] = "flagging"]
    BY <1>9 DEF Detect, Flag, Goes
  <2> QED BY <1>3, <1>5, <1>6, <2>1, <2>2
<1>10. ASSUME NEW r \in Request, StartImport(r) PROVE ImportOK' /\ job' \in Jobs
  <2>1. job = NoJob /\ job' = [NoJob EXCEPT !.by = r] /\ stage' = [stage EXCEPT ![r] = "looking"]
    BY <1>10 DEF StartImport, Goes
  <2>2. \A x \in Request : stage[x] \notin {"looking", "importing", "closing"}
    BY <1>2, <2>1, MemoriesAssumption DEF NoJob
  <2> QED BY <1>1, <2>1, <2>2 DEF NoJob, Jobs
<1>11. ASSUME NEW r \in Request, Look(r) PROVE ImportOK' /\ job' \in Jobs
  <2>1. job.by = r /\ stage[r] = "looking"
    BY <1>2, <1>11 DEF Look
  <2>2. \/ job' = NoJob /\ Answered(r)
        \/ job' = job /\ stage' = [stage EXCEPT ![r] = "importing"]
    BY <1>11 DEF Look, Goes
  <2> QED BY <1>3, <1>4, <1>5, <2>1, <2>2
\* A record is stored and counted, or thrown, and perhaps stored nevertheless.
<1>12. ASSUME NEW r \in Request, ImportRecord(r) \/ RecordFails(r) \/ Interrupted(r)
       PROVE  ImportOK' /\ job' \in Jobs
  <2>1. job.by = r /\ job.verdict = "none"
    BY <1>2, <1>12 DEF ImportRecord, RecordFails, Interrupted
  <2>2. PICK to \in {"detecting", "looking", "closing"} :
          /\ stage' = [stage EXCEPT ![r] = to]
          /\ Interrupted(r) => to = "closing"
    BY <1>12 DEF ImportRecord, RecordFails, Interrupted, Goes
  <2> DEFINE Outcome ==
        /\ job' \in Jobs /\ job'.by = r
        /\ job'.verdict \in {"none", "cancelled"} /\ (job'.verdict # "none" => to = "closing")
        /\ job'.done + job'.failed + (IF job'.verdict = "cancelled" THEN 1 ELSE 0) = job.done + job.failed + 1
        /\ \/ job'.stored = job.stored /\ job'.done = job.done
           \/ /\ \E m \in Memory, t \in Text, s \in {"active", "inactive"} :
                    Insert(m, t, s) /\ job'.stored = job.stored \cup {m}
              /\ job'.done \in {job.done, job.done + 1}
  <2>3. Outcome
    <3>0. job.stored \in SUBSET Memory
      BY <1>1 DEF Jobs
    <3>1. ASSUME NEW j \in Jobs, j.by = r, j.stored = job.stored, j.done \in {job.done, job.done + 1},
                 j.verdict \in {"none", "cancelled"}, j.verdict # "none" => to = "closing",
                 j.done + j.failed + (IF j.verdict = "cancelled" THEN 1 ELSE 0) = job.done + job.failed + 1,
                 NEW m \in Memory, NEW t \in Text, NEW s \in {"active", "inactive"},
                 Insert(m, t, s), job' = [j EXCEPT !.stored = @ \cup {m}]
          PROVE  Outcome
      <4>1. /\ job' \in Jobs /\ job'.by = r /\ job'.verdict = j.verdict
            /\ job'.done = j.done /\ job'.failed = j.failed /\ job'.stored = job.stored \cup {m}
        BY <3>0, <3>1 DEF Jobs
      <4> QED BY <3>1, <4>1
    <3>2. CASE ImportRecord(r)
      <4>1. PICK m \in Memory, t \in Text, s \in {"active", "inactive"} :
              Insert(m, t, s) /\ job' = [job EXCEPT !.done = @ + 1, !.stored = @ \cup {m}]
        BY <3>2 DEF ImportRecord
      <4>2. PICK j \in Jobs :
              /\ j.by = r /\ j.stored = job.stored /\ j.verdict = "none"
              /\ j.done = job.done + 1 /\ j.failed = job.failed
              /\ job' = [j EXCEPT !.stored = @ \cup {m}]
        <5> DEFINE j == [job EXCEPT !.done = @ + 1]
        <5>1. /\ j \in Jobs /\ j.by = r /\ j.stored = job.stored /\ j.verdict = "none"
              /\ j.done = job.done + 1 /\ j.failed = job.failed
          BY <1>1, <2>1 DEF Jobs
        <5>2. job' = [j EXCEPT !.stored = @ \cup {m}]
          BY <1>1, <4>1 DEF Jobs
        <5> HIDE DEF j
        <5> QED BY <5>1, <5>2
      <4>3. /\ j.done \in {job.done, job.done + 1} /\ j.verdict \in {"none", "cancelled"}
            /\ j.verdict # "none" => to = "closing"
            /\ j.done + j.failed + (IF j.verdict = "cancelled" THEN 1 ELSE 0) = job.done + job.failed + 1
        BY <4>2
      <4>4. Insert(m, t, s) /\ j.by = r /\ j.stored = job.stored /\ job' = [j EXCEPT !.stored = @ \cup {m}]
        BY <4>1, <4>2
      <4> HIDE DEF Outcome
      <4> QED BY <3>1, <4>3, <4>4
    <3>3. ASSUME NEW j \in Jobs, Throws(j), j.by = r, j.stored = job.stored, j.done = job.done,
                 j.verdict \in {"none", "cancelled"}, j.verdict # "none" => to = "closing",
                 j.done + j.failed + (IF j.verdict = "cancelled" THEN 1 ELSE 0) = job.done + job.failed + 1
          PROVE  Outcome
      <4>1. CASE job' = j
        BY <3>3, <4>1
      <4>2. CASE job' # j
        <5>1. PICK m \in Memory, t \in Text, s \in {"active", "inactive"} :
                Insert(m, t, s) /\ job' = [j EXCEPT !.stored = @ \cup {m}]
          BY <3>3, <4>2 DEF Throws
        <5>2. j.done \in {job.done, job.done + 1}
          BY <3>3
        <5> HIDE DEF Outcome
        <5> QED BY <3>1, <3>3, <5>1, <5>2
      <4> QED BY <4>1, <4>2
    <3>4. CASE RecordFails(r)
      <4> DEFINE j == [job EXCEPT !.failed = @ + 1]
      <4>1. /\ j \in Jobs /\ j.by = r /\ j.stored = job.stored /\ j.done = job.done
            /\ j.verdict = "none" /\ j.failed = job.failed + 1
        BY <1>1, <2>1 DEF Jobs
      <4>2. Throws(j) BY <3>4 DEF RecordFails
      <4> HIDE DEF j
      <4> QED BY <3>3, <4>1, <4>2
    <3>5. CASE Interrupted(r)
      <4> DEFINE j == [job EXCEPT !.verdict = Verdict(TRUE)]
      <4>1. /\ j \in Jobs /\ j.by = r /\ j.stored = job.stored /\ j.done = job.done
            /\ j.verdict = "cancelled" /\ j.failed = job.failed
        BY <1>1, <2>1 DEF Jobs, Verdict
      <4>2. Throws(j) BY <3>5 DEF Interrupted
      <4> HIDE DEF j
      <4> QED BY <2>2, <3>3, <3>5, <4>1, <4>2
    <3> QED BY <1>12, <3>2, <3>4, <3>5
  <2>4. /\ IsFiniteSet(job'.stored) /\ \A m \in job'.stored : row'[m] # NoRow
        /\ \/ job'.stored = job.stored /\ job'.done = job.done
           \/ /\ Cardinality(job'.stored) = Cardinality(job.stored) + 1
              /\ job'.done \in {job.done, job.done + 1}
    BY <1>2, <2>3, OneMoreStored
  <2>5. /\ job'.done <= Cardinality(job'.stored)
        /\ Cardinality(job'.stored) <= job'.done + job'.failed + (IF job'.verdict = "cancelled" THEN 1 ELSE 0)
    <3>1. Cardinality(job.stored) <= job.done + job.failed
      BY <1>2, <2>1
    <3>2. job'.done \in Nat /\ job'.failed \in Nat
      BY <2>3 DEF Jobs
    <3> QED BY <1>2, <2>3, <2>4, <3>1, <3>2
  <2> QED BY <1>1, <1>2, <2>1, <2>2, <2>3, <2>4, <2>5
<1>13. ASSUME NEW r \in Request, NEW aborted \in BOOLEAN, Judge(r, aborted) PROVE ImportOK' /\ job' \in Jobs
  <2> DEFINE v == IF job.cancel THEN "cancelled" ELSE Verdict(aborted)
  <2>1. job.by = r
    BY <1>2, <1>13 DEF Judge
  <2>2. /\ aborted \/ job.done + job.failed = Total
        /\ job' = [job EXCEPT !.verdict = v]
        /\ stage' = [stage EXCEPT ![r] = "closing"]
    BY <1>13 DEF Judge, Goes
  <2>3. /\ v \in {"completed", "failed", "cancelled"}
        /\ v # "cancelled" => ~aborted
        /\ v = "failed" => job.failed = Total
    <3>1. CASE job.cancel BY <3>1
    <3>2. CASE ~job.cancel /\ aborted BY <3>2 DEF Verdict
    <3>3. CASE ~job.cancel /\ ~aborted /\ (job.failed = Total /\ Total > 0) BY <3>3 DEF Verdict
    <3>4. CASE ~job.cancel /\ ~aborted /\ ~(job.failed = Total /\ Total > 0) BY <3>4 DEF Verdict
    <3> QED BY <3>1, <3>2, <3>3, <3>4
  <2> HIDE DEF v
  <2>4. /\ job' \in Jobs /\ job'.by = r /\ job'.verdict = v
        /\ job'.done = job.done /\ job'.failed = job.failed /\ job'.stored = job.stored
    BY <1>1, <2>1, <2>2, <2>3 DEF Jobs
  <2>5. /\ v = "completed" => job.done + job.failed = Total
        /\ v = "failed" => job.done = 0 /\ job.failed = Total
    <3>1. job.done \in Nat /\ job.failed \in Nat BY <1>1 DEF Jobs
    <3> QED BY <2>2, <2>3, <3>1, MemoriesAssumption
  <2>6. /\ job'.done <= Cardinality(job'.stored)
        /\ Cardinality(job'.stored) <= job'.done + job'.failed + (IF job'.verdict = "cancelled" THEN 1 ELSE 0)
    <3>1. job.verdict = "none"
      BY <1>2, <1>13, <2>1 DEF Judge
    <3> QED BY <1>2, <2>4, <3>1
  <2> QED BY <1>1, <1>2, <2>1, <2>2, <2>4, <2>5, <2>6
<1>14. ASSUME NEW r \in Request, CloseImport(r) PROVE ImportOK' /\ job' \in Jobs
  BY <1>2, <1>4, <1>14 DEF CloseImport
<1>15. CASE SetQuota \/ RoleChanges
  BY <1>1, <1>2, <1>15 DEF SetQuota, RoleChanges, requests
<1>16. CASE CancelImport
  <2>1. job' = [job EXCEPT !.cancel = TRUE] /\ stage' = stage
    BY <1>16 DEF CancelImport, requests
  <2>2. /\ job' \in Jobs /\ job'.by = job.by /\ job'.verdict = job.verdict
        /\ job'.done = job.done /\ job'.failed = job.failed /\ job'.stored = job.stored
    BY <1>1, <2>1 DEF Jobs
  <2> QED BY <1>2, <2>1, <2>2
<1> QED BY <1>7, <1>8, <1>9, <1>10, <1>11, <1>12, <1>13, <1>14, <1>15, <1>16 DEF Next, RequestStep

-----------------------------------------------------------------------------
(* The invariant holds.                                                    *)

LEMMA MemoriesStart == Init => IInv
<1> SUFFICES ASSUME Init PROVE IInv
  OBVIOUS
<1>1. TypeOK
  BY MemoriesAssumption
  DEF Init, TypeOK, Rows, NoRow, NoConflict, NoJob, contributor, editor, admin
<1>2. \A m \in Memory : ~Exists(m) /\ ~Visible(m)
  BY DEF Init, Exists, Visible, NoRow
<1>3. RowsOK /\ TextIsNewest
  BY <1>2 DEF Init, RowsOK, TextIsNewest
<1>4. Counted
  <2>1. Live = {}
    BY <1>2 DEF Live
  <2>2. LiveBytes = 0
    BY <2>1, FS_EmptySet DEF LiveBytes, SumOf, Units
  <2> QED BY <2>1, <2>2, FS_EmptySet DEF Init, Counted
<1>5. ConflictsOK
  BY DEF Init, ConflictsOK, NoConflict
<1>6. ImportOK
  BY FS_EmptySet DEF Init, ImportOK, ImportTellsTheTruth, NoJob
<1> QED BY <1>1, <1>3, <1>4, <1>5, <1>6 DEF IInv, ContentInv

LEMMA OtherTypes ==
  ASSUME TypeOK, Next
  PROVE  limit' \in [memories : MaxMemories, bytes : MaxBytes] /\ role' \in Role
<1>1. limit \in [memories : MaxMemories, bytes : MaxBytes] /\ role \in Role
  BY DEF TypeOK
<1>2. ASSUME NEW r \in Request, RequestStep(r) PROVE UNCHANGED <<limit, role>>
  BY <1>2 DEF RequestStep, Begin, Abandon, Remember, ExtractAndRemember, Update, Change, Revert, Forget,
              ForgetForGood, Purge, Detect, Flag, Resolve, StartImport, Look, ImportRecord, RecordFails,
              Interrupted, Judge, CloseImport
<1>3. CASE SetQuota BY <1>1, <1>3 DEF SetQuota
<1>4. CASE RoleChanges BY <1>1, <1>4 DEF RoleChanges
<1>5. CASE CancelImport BY <1>1, <1>5 DEF CancelImport
<1> QED BY <1>1, <1>2, <1>3, <1>4, <1>5 DEF Next

LEMMA MemoriesKeep == IInv /\ [Next]_vars => IInv'
<1> SUFFICES ASSUME IInv, [Next]_vars PROVE IInv'
  OBVIOUS
<1>1. CASE Next
  <2>1. ContentStep
    BY <1>1, ContentSteps DEF IInv
  <2>2. /\ ContentInv' /\ row' \in [Memory -> Rows] /\ versions' \in [Memory -> Seq(Text)]
        /\ counted' \in [memories : Nat, bytes : Nat]
    BY <2>1, ContentKeeps DEF IInv
  <2>3. ConflictsOK' /\ conflict' \in [Conflict -> Conflicts]
    BY <1>1, ConflictsKeep DEF IInv
  <2>4. ImportOK' /\ job' \in Jobs
    BY <1>1, <2>1, ImportKeeps DEF IInv
  <2>5. RequestsOK'
    BY <1>1, RequestsKeep DEF IInv
  <2>6. limit' \in [memories : MaxMemories, bytes : MaxBytes] /\ role' \in Role
    BY <1>1, OtherTypes DEF IInv
  <2>7. TypeOK'
    BY <2>2, <2>3, <2>4, <2>5, <2>6 DEF TypeOK, RequestsOK, Stages, Conflicts, Jobs
  <2> QED BY <2>2, <2>3, <2>4, <2>7 DEF IInv
<1>2. CASE UNCHANGED vars
  <2>1. UNCHANGED <<row, versions, counted, limit, role, conflict, stage, needs, found, like, job>>
    BY <1>2 DEF vars, content, requests
  <2>2. TypeOK'
    BY <2>1 DEF IInv, TypeOK
  <2>3. ContentInv'
    BY <2>1 DEF IInv, ContentInv, RowsOK, Exists, Counted, Live, Visible, LiveBytes, TextIsNewest
  <2>4. ConflictsOK' /\ ImportOK'
    BY <2>1 DEF IInv, ConflictsOK, Exists, ImportOK, ImportTellsTheTruth
  <2> QED BY <2>2, <2>3, <2>4 DEF IInv
<1> QED BY <1>1, <1>2

LEMMA MemoriesInvariance == Spec => []IInv
  BY MemoriesStart, MemoriesKeep, PTL DEF Spec

\* The tables, the requests and the import stay in their types.
THEOREM MemoriesTypes == Spec => []TypeOK
<1>1. IInv => TypeOK BY DEF IInv
<1> QED BY <1>1, MemoriesInvariance, PTL

\* memory_count and content_bytes of a space (migration 016) are at all times
\* the number and the bytes of its memories outside the trash, whatever
\* requests wrote, moved, merged, restored or erased them.
THEOREM CountersAreTrue == Spec => []Counted
<1>1. IInv => Counted BY DEF IInv, ContentInv
<1> QED BY <1>1, MemoriesInvariance, PTL

\* What an import reports bounds what it has stored from both sides, also when
\* the answer to a COMMIT was lost: at least what it counts as completed, at
\* most that and what it counts as failed, and the record a client left behind
\* (MemoryTransferService.import).
THEOREM ImportIsTrue == Spec => []ImportTellsTheTruth
<1>1. IInv => ImportTellsTheTruth BY DEF IInv, ImportOK
<1> QED BY <1>1, MemoriesInvariance, PTL

\* No step takes a space beyond its quota, by the rows themselves
\* (enforce_memory_quota()).
THEOREM QuotaIsHeld == Spec => QuotaHolds
<1> DEFINE Q == /\ Cardinality(Live') > limit.memories => Cardinality(Live') <= Cardinality(Live)
                /\ LiveBytes' > limit.bytes => LiveBytes' <= LiveBytes
<1>1. IInv /\ [Next]_vars => [Q]_row
  <2> SUFFICES ASSUME IInv, Next, row' # row PROVE Q
    BY DEF vars, content
  <2>1. ContentStep
    BY ContentSteps DEF IInv
  <2>2. PICK rows \in [Memory -> Rows] : Writes(rows)
    <3>1. ASSUME NEW m \in Memory, NEW t \in Text, NEW s \in {"active", "inactive"}, Insert(m, t, s)
          PROVE  \E rows \in [Memory -> Rows] : Writes(rows)
      <4> DEFINE rows == [row EXCEPT ![m] = [text |-> t, status |-> s, trashed |-> FALSE]]
      <4>1. rows \in [Memory -> Rows] BY DEF IInv, TypeOK, Rows
      <4>2. Writes(rows) BY <3>1 DEF Insert, Saves
      <4> QED BY <4>1, <4>2
    <3>2. ASSUME NEW ms \in SUBSET {m \in Memory : Exists(m)}, Erase(ms)
          PROVE  \E rows \in [Memory -> Rows] : Writes(rows)
      <4> DEFINE rows == [m \in Memory |-> IF m \in ms THEN Gone ELSE row[m]]
      <4>1. rows \in [Memory -> Rows] BY DEF IInv, TypeOK, Rows, Gone, NoRow
      <4>2. Writes(rows) BY <3>2 DEF Erase
      <4> QED BY <4>1, <4>2
    <3> QED BY <2>1, <3>1, <3>2 DEF ContentStep, Rewrites, content
  <2> QED BY <2>2, WritesCount DEF IInv, ContentInv
<1>2. Spec => [][Q]_row
  <2> HIDE DEF Q
  <2> QED BY <1>1, MemoriesInvariance, PTL DEF Spec
<1> QED BY <1>2 DEF QuotaHolds

LEMMA Prefixes ==
  ASSUME NEW s \in Seq(Text), NEW t \in Text
  PROVE  /\ SubSeq(s, 1, Len(s)) = s
         /\ Len(s) <= Len(Append(s, t)) /\ SubSeq(Append(s, t), 1, Len(s)) = s
  OBVIOUS

\* Until it is erased a memory keeps every version, whatever is done to it, and
\* its text is that of the newest one (the history of README.md).
THEOREM HistoryStays == Spec => HistoryIsKept
<1> DEFINE H == \A m \in Memory : Exists(m) /\ Exists(m)' =>
                   /\ Len(versions[m]) <= Len(versions'[m])
                   /\ SubSeq(versions'[m], 1, Len(versions[m])) = versions[m]
                   /\ row'[m].text = versions'[m][Len(versions'[m])]
<1>1. IInv /\ [Next]_vars => [H]_content
  <2> SUFFICES ASSUME IInv, Next, ~UNCHANGED content, NEW m \in Memory, Exists(m), Exists(m)'
               PROVE  /\ Len(versions[m]) <= Len(versions'[m])
                      /\ SubSeq(versions'[m], 1, Len(versions[m])) = versions[m]
                      /\ row'[m].text = versions'[m][Len(versions'[m])]
    BY DEF vars
  <2>1. ContentStep /\ TypeOK /\ ContentInv
    BY ContentSteps DEF IInv
  <2>2. row'[m].text = versions'[m][Len(versions'[m])]
    <3>1. TextIsNewest' BY <2>1, ContentKeeps DEF ContentInv
    <3> QED BY <3>1 DEF TextIsNewest
  <2>3. versions[m] \in Seq(Text)
    BY <2>1 DEF TypeOK
  <2>4. versions'[m] = versions[m] \/ \E t \in Text : versions'[m] = Append(versions[m], t)
    <3>1. ASSUME NEW x \in Memory, NEW t \in Text, NEW s \in {"active", "inactive"}, Insert(x, t, s)
          PROVE  versions'[m] = versions[m]
      <4>1. x # m
        BY <3>1 DEF Insert, Exists
      <4> QED BY <3>1, <4>1 DEF Insert, Saves
    <3>2. ASSUME NEW ms, NEW rows, Rewrites(ms, rows)
          PROVE  versions'[m] = versions[m] \/ \E t \in Text : versions'[m] = Append(versions[m], t)
      BY <3>2 DEF Rewrites
    <3>3. ASSUME NEW ms \in SUBSET {x \in Memory : Exists(x)}, Erase(ms)
          PROVE  versions'[m] = versions[m]
      <4>1. row'[m] = IF m \in ms THEN Gone ELSE row[m]
        BY <3>3, <2>1, EraseKeeps
      <4>2. m \notin ms
        BY <4>1 DEF Exists
      <4> QED BY <3>3, <4>2 DEF Erase
    <3> QED BY <2>1, <3>1, <3>2, <3>3 DEF ContentStep
  <2> QED BY <2>2, <2>3, <2>4, Prefixes
<1>2. Spec => [][H]_content
  <2> HIDE DEF H
  <2> QED BY <1>1, MemoriesInvariance, PTL DEF Spec
<1> QED BY <1>2 DEF HistoryIsKept

\* Whoever lost a role while a request waited changes no row that needs it: the
\* role is read again under the lock (MemoryRepository, requireSpaceRole).
THEOREM WritesHaveTheRole == Spec => WritesNeedTheRole
<1> DEFINE R == \A m \in Memory : row'[m] # row[m] =>
                   role >= (IF row[m] = NoRow THEN contributor ELSE IF Exists(m)' THEN editor ELSE admin)
<1>1. IInv /\ [Next]_vars => [R]_row
  <2> SUFFICES ASSUME IInv, Next, NEW m \in Memory, row'[m] # row[m]
               PROVE  role >= (IF row[m] = NoRow THEN contributor ELSE IF Exists(m)' THEN editor ELSE admin)
    BY DEF vars, content
  <2>1. ContentStep /\ TypeOK /\ ContentInv
    BY ContentSteps DEF IInv
  <2>2. role \in Nat
    BY <2>1, MemoriesAssumption DEF TypeOK
  <2>3. ASSUME NEW x \in Memory, NEW t \in Text, NEW s \in {"active", "inactive"}, Insert(x, t, s)
        PROVE  row[m] = NoRow
    <3>1. row[x] = NoRow /\ row' = [row EXCEPT ![x] = [text |-> t, status |-> s, trashed |-> FALSE]]
      BY <2>3 DEF Insert, Saves, Writes
    <3> QED BY <2>1, <3>1 DEF TypeOK
  <2>4. ASSUME NEW ms, NEW rows, Rewrites(ms, rows) PROVE row[m] # NoRow /\ Exists(m)'
    <3>1. row' = rows /\ Exists(m) BY <2>4 DEF Rewrites, Writes
    <3> QED BY <2>4, <3>1 DEF Rewrites, Exists, NoRow, Gone
  <2>5. ASSUME NEW ms \in SUBSET {x \in Memory : Exists(x)}, Erase(ms) PROVE row[m] # NoRow
    <3>1. m \in ms BY <2>1, <2>5, EraseKeeps DEF TypeOK
    <3> QED BY <3>1 DEF Exists
  <2> QED BY <2>1, <2>2, <2>3, <2>4, <2>5 DEF ContentStep, content, contributor, editor, admin
<1>2. Spec => [][R]_row
  <2> HIDE DEF R
  <2> QED BY <1>1, MemoriesInvariance, PTL DEF Spec
<1> QED BY <1>2 DEF WritesNeedTheRole

\* Two people resolve a conflict at the same time: one of them decides it
\* (MemoryGovernanceService.resolve reads it again under the lock).
THEOREM ConflictIsDecidedOnce == Spec => DecidedOnce
<1> DEFINE D == \A c \in Conflict : conflict[c].status \notin {"none", "open"}
                   => conflict'[c] \in {conflict[c], GoneToo}
<1>1. IInv /\ [Next]_vars => [D]_conflict
  <2> SUFFICES ASSUME IInv, Next, NEW c \in Conflict, conflict[c].status \notin {"none", "open"}
               PROVE  conflict'[c] \in {conflict[c], GoneToo}
    BY DEF vars
  <2>1. conflict \in [Conflict -> Conflicts]
    BY DEF IInv, TypeOK, Conflicts
  <2>2. ASSUME NEW x \in Conflict, NEW new, conflict[x].status \in {"none", "open"},
               conflict' = [conflict EXCEPT ![x] = new]
        PROVE  conflict'[c] = conflict[c]
    BY <2>1, <2>2
  <2>3. ASSUME NEW x \in Conflict, NEW s, conflict[x].status = "open",
               conflict' = [conflict EXCEPT ![x].status = s]
        PROVE  conflict'[c] = conflict[c]
    BY <2>1, <2>3
  <2>4. ASSUME NEW ms, Erase(ms) PROVE conflict'[c] \in {conflict[c], GoneToo}
    BY <2>4 DEF Erase
  <2>5. NoConflict.status = "none"
    BY DEF NoConflict
  <2> QED BY <2>2, <2>3, <2>4, <2>5, ConflictSteps DEF IInv
<1>2. Spec => [][D]_conflict
  <2> HIDE DEF D
  <2> QED BY <1>1, MemoriesInvariance, PTL DEF Spec
<1> QED BY <1>2 DEF DecidedOnce
=============================================================================
