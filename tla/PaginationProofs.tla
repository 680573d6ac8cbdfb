-------------------------- MODULE PaginationProofs ---------------------------
(* What a walk through a list can rely on, for any list, page size and number *)
(* of rows created and deleted meanwhile.                                     *)
EXTENDS Pagination, FunctionTheorems, FiniteSetTheorems, SequenceTheorems, TLAPS

Row == [created : Nat, deleted : BOOLEAN]
-----------------------------------------------------------------------------
(* The orders a list may come in.                                             *)

LEMMA LiveFinite ==
    ASSUME NEW t \in Seq(Row)
    PROVE  /\ Live(t) \subseteq 1..Len(t) /\ Len(t) \in Nat /\ DOMAIN t = 1..Len(t)
           /\ IsFiniteSet(Live(t)) /\ Cardinality(Live(t)) \in Nat
           /\ \A id \in 1..Len(t) : t[id] \in Row
  <1>1. /\ Live(t) \subseteq 1..Len(t) /\ Len(t) \in Nat /\ DOMAIN t = 1..Len(t)
        /\ \A id \in 1..Len(t) : t[id] \in Row
    BY DEF Live
  <1>2. IsFiniteSet(1..Len(t))
    BY <1>1, FS_Interval
  <1>3. QED BY <1>1, <1>2, FS_Subset, FS_CardinalityType

\* Rows that share a place in the order are tied, and a tie-break decides.
LEMMA BeforeOrders ==
    ASSUME table \in Seq(Row), NEW p \in Injection(Tied, Tied),
           NEW i \in Live(table), NEW j \in Live(table), i # j
    PROVE  /\ Before(p, i, j) \/ Before(p, j, i)
           /\ ~(Before(p, i, j) /\ Before(p, j, i))
           /\ \A x \in Live(table) \ {i} : Before(p, x, i) /\ Before(p, i, j) => Before(p, x, j)
  <1>1. /\ Live(table) \subseteq 1..Len(table) /\ DOMAIN table = 1..Len(table)
        /\ \A x \in Live(table) : table[x].created \in Nat
    BY LiveFinite DEF Row
  <1>2. \A x, y \in Live(table) :
           x # y /\ table[x].created = table[y].created => x \in Tied /\ y \in Tied
    BY <1>1 DEF Tied, Untied
  <1>3. /\ \A x \in Tied : p[x] \in Nat
        /\ \A x, y \in Tied : x # y => p[x] # p[y]
    BY <1>1 DEF Injection, IsInjective, Tied
  <1>4. QED BY <1>1, <1>2, <1>3 DEF Before

LEMMA BeforeIsLower ==
    ASSUME table \in Seq(Row), NEW p \in Injection(Tied, Tied),
           NEW i \in Live(table), NEW j \in Live(table), i # j, Before(p, i, j)
    PROVE  Place(p, i) < Place(p, j)
  <1> DEFINE A == {x \in Live(table) \ {i} : Before(p, x, i)}
             B == {x \in Live(table) \ {j} : Before(p, x, j)}
  <1>1. IsFiniteSet(Live(table))
    BY LiveFinite
  <1>2. IsFiniteSet(A) /\ IsFiniteSet(B)
    BY <1>1, FS_Subset
  <1>3. A \cup {i} \subseteq B
    BY BeforeOrders
  <1>4. Cardinality(A \cup {i}) = Cardinality(A) + 1
    BY <1>2, FS_AddElement
  <1>5. Cardinality(A \cup {i}) <= Cardinality(B)
    BY <1>2, <1>3, FS_Subset
  <1>6. Cardinality(A) \in Nat /\ Cardinality(B) \in Nat
    BY <1>2, FS_CardinalityType
  <1>7. QED BY <1>4, <1>5, <1>6 DEF Place

LEMMA PlacesDiffer ==
    ASSUME table \in Seq(Row), NEW p \in Injection(Tied, Tied),
           NEW i \in Live(table), NEW j \in Live(table), i # j
    PROVE  Place(p, i) # Place(p, j)
  <1>1. \A k \in Live(table) : Place(p, k) \in Nat
    <2> TAKE k \in Live(table)
    <2>1. IsFiniteSet({x \in Live(table) \ {k} : Before(p, x, k)})
      BY LiveFinite, FS_Subset
    <2>2. QED BY <2>1, FS_CardinalityType DEF Place
  <1>2. Before(p, i, j) \/ Before(p, j, i)
    BY BeforeOrders
  <1>3. Place(p, i) < Place(p, j) \/ Place(p, j) < Place(p, i)
    BY <1>2, BeforeIsLower
  <1>4. QED BY <1>1, <1>3

\* Every place is taken: there are as many as live rows, and no two rows share one.
LEMMA PlacesTaken ==
    ASSUME table \in Seq(Row), NEW p \in Injection(Tied, Tied),
           NEW k \in 1..Cardinality(Live(table))
    PROVE  \E id \in Live(table) : Place(p, id) = k
  <1> DEFINE L == Live(table)
             n == Cardinality(L)
             f == [id \in L |-> Place(p, id)]
  <1>1. IsFiniteSet(L) /\ n \in Nat
    BY LiveFinite
  <1>2. \A id \in L : Place(p, id) \in 1..n
    <2> TAKE id \in L
    <2> DEFINE A == {x \in L \ {id} : Before(p, x, id)}
    <2>1. IsFiniteSet(A) /\ id \notin A /\ A \cup {id} \subseteq L
      BY <1>1, FS_Subset
    <2>2. Cardinality(A \cup {id}) = Cardinality(A) + 1 /\ Cardinality(A) \in Nat
      BY <2>1, FS_AddElement, FS_CardinalityType
    <2>3. Cardinality(A \cup {id}) <= n
      BY <1>1, <2>1, FS_Subset
    <2>4. QED BY <1>1, <2>2, <2>3 DEF Place
  <1>3. f \in Injection(L, 1..n)
    <2>1. f \in [L -> 1..n]
      BY <1>2
    <2>2. \A a, b \in L : f[a] = f[b] => a = b
      BY PlacesDiffer
    <2>3. QED BY <2>1, <2>2, Fun_IsInj
  <1>4. IsFiniteSet(1..n) /\ Cardinality(1..n) = n
    BY <1>1, FS_Interval
  <1>5. f \in Surjection(L, 1..n)
    BY <1>3, <1>4, FS_Injection
  <1>6. QED BY <1>5 DEF Surjection

\* An order holds every live row once, later ones first, and equals at the places
\* that the later ones leave them.
IsOrder(s) ==
    /\ s \in Seq(Live(table)) /\ Len(s) = Cardinality(Live(table))
    /\ \A id \in Live(table) : \E k \in 1..Len(s) : s[k] = id
    /\ \A j, k \in 1..Len(s) :
         j < k => s[j] # s[k] /\ table[s[j]].created >= table[s[k]].created
    /\ \A k \in 1..Len(s) :
         LET first == Cardinality(Ahead(s[k]))
         IN first < k /\ k <= first + Cardinality(Peers(s[k]))

\* The live rows are those ahead of a row and those that are not.
LEMMA RowsSplit ==
    ASSUME table \in Seq(Row), NEW id \in DOMAIN table
    PROVE  /\ IsFiniteSet(Ahead(id)) /\ Cardinality(Ahead(id)) \in Nat
           /\ IsFiniteSet(Peers(id)) /\ Cardinality(Peers(id)) \in Nat
           /\ IsFiniteSet(NoNewer(id)) /\ Cardinality(NoNewer(id)) \in Nat
           /\ Cardinality(Ahead(id)) + Cardinality(NoNewer(id)) = Cardinality(Live(table))
           /\ id \in Live(table) => id \in Peers(id) /\ id \in NoNewer(id)
           /\ id \in Live(table) /\ Untied(id) => Cardinality(Peers(id)) = 1
  <1>1. /\ Live(table) \subseteq 1..Len(table) /\ DOMAIN table = 1..Len(table)
        /\ IsFiniteSet(Live(table)) /\ \A i \in DOMAIN table : table[i].created \in Nat
    BY LiveFinite DEF Row
  <1>2. /\ Ahead(id) \subseteq Live(table) /\ Peers(id) \subseteq Live(table)
        /\ NoNewer(id) \subseteq Live(table)
    BY DEF Ahead, Peers, NoNewer
  <1>3. /\ IsFiniteSet(Ahead(id)) /\ Cardinality(Ahead(id)) \in Nat
        /\ IsFiniteSet(Peers(id)) /\ Cardinality(Peers(id)) \in Nat
        /\ IsFiniteSet(NoNewer(id)) /\ Cardinality(NoNewer(id)) \in Nat
    BY <1>1, <1>2, FS_Subset, FS_CardinalityType
  <1>4. Ahead(id) \cup NoNewer(id) = Live(table) /\ Ahead(id) \cap NoNewer(id) = {}
    BY <1>1 DEF Ahead, NoNewer
  <1>5. Cardinality(Ahead(id)) + Cardinality(NoNewer(id)) = Cardinality(Live(table))
    <2>1. Cardinality(Ahead(id) \cup NoNewer(id)) =
             Cardinality(Ahead(id)) + Cardinality(NoNewer(id))
               - Cardinality(Ahead(id) \cap NoNewer(id))
      BY <1>3, FS_Union
    <2>2. Cardinality(Ahead(id) \cap NoNewer(id)) = 0
      BY <1>4, FS_EmptySet
    <2>3. Cardinality(Ahead(id) \cup NoNewer(id)) = Cardinality(Live(table))
      BY <1>4
    <2>4. QED BY <1>3, <2>1, <2>2, <2>3
  <1>6. id \in Live(table) => id \in Peers(id) /\ id \in NoNewer(id)
    BY <1>1 DEF Peers, NoNewer
  <1>7. ASSUME id \in Live(table), Untied(id) PROVE Cardinality(Peers(id)) = 1
    <2>1. Peers(id) = {id}
      BY <1>1, <1>7 DEF Peers, Untied
    <2>2. QED BY <2>1, FS_Singleton
  <1>8. QED BY <1>3, <1>5, <1>6, <1>7

LEMMA OrdersAreOrders ==
    ASSUME table \in Seq(Row), NEW s \in Orders
    PROVE  IsOrder(s)
  <1> DEFINE L == Live(table)
             n == Cardinality(L)
  <1>1. PICK p \in Injection(Tied, Tied) :
           s = [k \in 1..n |-> CHOOSE id \in L : Place(p, id) = k]
    BY DEF Orders
  <1>2. /\ n \in Nat /\ L \subseteq 1..Len(table) /\ DOMAIN table = 1..Len(table)
        /\ \A id \in L : table[id].created \in Nat
    BY LiveFinite DEF Row
  <1>3. \A k \in 1..n : s[k] \in L /\ Place(p, s[k]) = k
    BY <1>1, PlacesTaken
  <1>4. s \in Seq(L) /\ Len(s) = n
    BY <1>1, <1>2, <1>3
  <1>5. ASSUME NEW id \in L PROVE \E k \in 1..n : s[k] = id
    <2> DEFINE k == Place(p, id)
               A == {x \in L \ {id} : Before(p, x, id)}
    <2>1. IsFiniteSet(A) /\ id \notin A /\ A \cup {id} \subseteq L /\ IsFiniteSet(L)
      BY LiveFinite, FS_Subset
    <2>2. Cardinality(A \cup {id}) = Cardinality(A) + 1 /\ Cardinality(A) \in Nat
      BY <2>1, FS_AddElement, FS_CardinalityType
    <2>3. Cardinality(A \cup {id}) <= n
      BY <2>1, FS_Subset
    <2>4. k \in 1..n
      BY <1>2, <2>2, <2>3 DEF Place
    <2>5. s[k] = id
      BY <1>3, <2>4, PlacesDiffer
    <2>6. QED BY <2>4, <2>5
  <1>6. ASSUME NEW j \in 1..n, NEW k \in 1..n, j < k
        PROVE  s[j] # s[k] /\ table[s[j]].created >= table[s[k]].created
    <2>1. s[j] # s[k]
      BY <1>2, <1>3, <1>6
    <2>2. ~Before(p, s[k], s[j])
      BY <1>2, <1>3, <1>6, <2>1, BeforeIsLower
    <2>3. QED BY <1>2, <1>3, <2>1, <2>2 DEF Before
  <1>7. ASSUME NEW k \in 1..n
        PROVE  LET first == Cardinality(Ahead(s[k]))
               IN first < k /\ k <= first + Cardinality(Peers(s[k]))
    <2> DEFINE id == s[k]
               A == {x \in L \ {id} : Before(p, x, id)}
    <2>1. id \in L /\ k = Cardinality(A) + 1
      BY <1>3 DEF Place
    <2> HIDE DEF id
    <2>2. /\ IsFiniteSet(Ahead(id)) /\ Cardinality(Ahead(id)) \in Nat
          /\ IsFiniteSet(Peers(id)) /\ Cardinality(Peers(id)) \in Nat /\ id \in Peers(id)
      BY <1>2, <2>1, RowsSplit
    <2>3. Ahead(id) \subseteq A /\ A \subseteq Ahead(id) \cup (Peers(id) \ {id})
      BY <1>2, <2>1 DEF Ahead, Peers, Before
    <2>4. /\ IsFiniteSet(Peers(id) \ {id})
          /\ Cardinality(Peers(id) \ {id}) = Cardinality(Peers(id)) - 1
      BY <2>2, FS_RemoveElement
    <2>5. /\ IsFiniteSet(Ahead(id) \cup (Peers(id) \ {id}))
          /\ Cardinality(Ahead(id) \cup (Peers(id) \ {id})) =
               Cardinality(Ahead(id)) + Cardinality(Peers(id) \ {id})
                 - Cardinality(Ahead(id) \cap (Peers(id) \ {id}))
      BY <2>2, <2>4, FS_Union
    <2>6. Cardinality(Ahead(id) \cap (Peers(id) \ {id})) = 0
      <3>1. Ahead(id) \cap (Peers(id) \ {id}) = {}
        BY <1>2, <2>1 DEF Ahead, Peers
      <3>2. QED BY <3>1, FS_EmptySet
    <2>7. /\ Cardinality(Ahead(id)) <= Cardinality(A) /\ Cardinality(A) \in Nat
          /\ Cardinality(A) <= Cardinality(Ahead(id) \cup (Peers(id) \ {id}))
      BY <2>3, <2>5, FS_Subset, FS_CardinalityType
    <2> HIDE DEF A
    <2>8. Cardinality(Ahead(id)) < k /\ k <= Cardinality(Ahead(id)) + Cardinality(Peers(id))
      BY <2>1, <2>2, <2>4, <2>5, <2>6, <2>7
    <2>9. QED BY <2>8 DEF id
  <1>8. QED BY <1>4, <1>5, <1>6, <1>7 DEF IsOrder
-----------------------------------------------------------------------------
(* The pages cut out of an order.                                             *)

LEMMA SkipsWholePages ==
    ASSUME NEW q \in [page : Nat, pageSize : Nat \ {0}, lastItemId : Nat], q.page >= 1
    PROVE  /\ Skip(q) \in Nat
           /\ q.page * q.pageSize = Skip(q) + q.pageSize
           /\ Skip([q EXCEPT !.page = @ + 1]) = Skip(q) + q.pageSize
  <1> DEFINE n == q.page
             z == q.pageSize
  <1>1. n \in Nat /\ z \in Nat /\ n - 1 \in Nat
    OBVIOUS
  <1>2. (n - 1) * z \in Nat /\ n * z = (n - 1) * z + z
    BY <1>1
  <1>3. Skip([q EXCEPT !.page = @ + 1]) = n * z
    BY <1>1 DEF Skip
  <1>4. QED BY <1>2, <1>3 DEF Skip

\* What is left of an order from a cursor on.
LEMMA CursorCuts ==
    ASSUME table \in Seq(Row), NEW s, IsOrder(s), NEW c \in Nat
    PROVE  /\ FromCursor(s, c) \in Seq(Live(table))
           /\ c = None => FromCursor(s, c) = s
           /\ c # None /\ c \notin Live(table) => FromCursor(s, c) = << >>
           /\ c # None /\ c \in Live(table) =>
                \E k \in 1..Len(s) :
                  /\ s[k] = c /\ Len(FromCursor(s, c)) = Len(s) - k + 1
                  /\ \A i \in 1..(Len(s) - k + 1) : FromCursor(s, c)[i] = s[k + i - 1]
  <1>1. s \in Seq(Live(table)) /\ Len(s) \in Nat /\ DOMAIN s = 1..Len(s)
    BY DEF IsOrder
  <1>2. CASE c = None
    BY <1>1, <1>2 DEF FromCursor
  <1>3. CASE c # None /\ c \notin Live(table)
    BY <1>1, <1>3 DEF FromCursor
  <1>4. CASE c # None /\ c \in Live(table)
    <2> DEFINE k == CHOOSE j \in DOMAIN s : s[j] = c
    <2>1. \E j \in DOMAIN s : s[j] = c
      BY <1>1, <1>4 DEF IsOrder
    <2>2. k \in 1..Len(s) /\ s[k] = c
      BY <1>1, <2>1
    <2>3. FromCursor(s, c) = SubSeq(s, k, Len(s))
      BY <1>4, <2>1 DEF FromCursor
    <2> HIDE DEF k
    <2>4. \A i \in k..Len(s) : s[i] \in Live(table)
      BY <1>1, <2>2
    <2>5. /\ SubSeq(s, k, Len(s)) \in Seq(Live(table))
          /\ Len(SubSeq(s, k, Len(s))) = Len(s) - k + 1
          /\ \A i \in 1..(Len(s) - k + 1) : SubSeq(s, k, Len(s))[i] = s[k + i - 1]
      BY <1>1, <2>2, <2>4, SubSeqProperties
    <2>6. QED BY <1>4, <2>2, <2>3, <2>5
  <1>5. QED BY <1>2, <1>3, <1>4

\* A page holds the rows after those skipped, as many as asked for if there are.
LEMMA PageCuts ==
    ASSUME NEW S, NEW s, NEW q \in [page : Nat, pageSize : Nat \ {0}, lastItemId : Nat],
           q.page >= 1, FromCursor(s, q.lastItemId) \in Seq(S)
    PROVE  LET r == FromCursor(s, q.lastItemId)
           IN /\ Page(s, q) \in Seq(S) /\ Len(Page(s, q)) <= q.pageSize
              /\ \A i \in 1..q.pageSize : i <= Len(Page(s, q)) <=> Skip(q) + i <= Len(r)
              /\ \A i \in 1..Len(Page(s, q)) : Page(s, q)[i] = r[Skip(q) + i]
  <1> DEFINE r == FromCursor(s, q.lastItemId)
             z == q.pageSize
             m == Skip(q) + 1
             n == IF Skip(q) + z < Len(r) THEN Skip(q) + z ELSE Len(r)
  <1>1. Skip(q) \in Nat /\ z \in Nat /\ Len(r) \in Nat
    <2>1. Skip(q) \in Nat
      BY SkipsWholePages
    <2>2. z \in Nat
      OBVIOUS
    <2>3. Len(r) \in Nat
      BY LenProperties
    <2>4. QED BY <2>1, <2>2, <2>3
  <1>2. m \in Int /\ n \in Int /\ n <= Len(r) /\ n <= Skip(q) + z /\ m >= 1
    BY <1>1
  <1>3. \A i \in m..n : r[i] \in S
    BY <1>1, <1>2
  <1>4. Page(s, q) = SubSeq(r, m, n)
    BY DEF Page
  <1> HIDE DEF r, m, n
  <1>5. /\ Page(s, q) \in Seq(S)
        /\ Len(Page(s, q)) = IF m <= n THEN n - m + 1 ELSE 0
        /\ \A i \in 1..(n - m + 1) : Page(s, q)[i] = r[m + i - 1]
    BY <1>2, <1>3, <1>4, SubSeqProperties
  <1>6. Len(Page(s, q)) <= z
    BY <1>1, <1>2, <1>5 DEF m
  <1>7. \A i \in 1..z : i <= Len(Page(s, q)) <=> Skip(q) + i <= Len(r)
    BY <1>1, <1>2, <1>5 DEF m, n
  <1>8. ASSUME NEW i \in 1..Len(Page(s, q)) PROVE Page(s, q)[i] = r[Skip(q) + i]
    <2>1. i \in 1..(n - m + 1) /\ m + i - 1 = Skip(q) + i
      BY <1>1, <1>2, <1>5 DEF m
    <2>2. QED BY <1>5, <2>1 DEF m
  <1>9. QED BY <1>5, <1>6, <1>7, <1>8 DEF r
-----------------------------------------------------------------------------
(* Types.                                                                     *)

Typed ==
    /\ TypeOK
    /\ inserts \in 0..Len(table) /\ deletes \in Nat
    /\ \A id \in DOMAIN table : table[id].created <= Len(table)
    /\ deletes = 0 => \A id \in DOMAIN table : ~table[id].deleted
    /\ walk = "page" => query.page >= 1 /\ query.lastItemId = None
    /\ walk = "cursor" => query.page = 1
    /\ data.status = "failed" => query.page = None
    /\ data.status # "found" => data.rows = << >>
    /\ pc = "done" => data.status = "found" /\ total # Unknown

LEMMA InsertAdds ==
    ASSUME table \in Seq(Row), Insert
    PROVE  /\ table' \in Seq(Row) /\ Len(table') = Len(table) + 1
           /\ DOMAIN table' = DOMAIN table \cup {Len(table) + 1}
           /\ \A id \in DOMAIN table : table'[id] = table[id]
           /\ table'[Len(table) + 1] = NewRow(Len(table) + 1)
  <1> DEFINE row == NewRow(Len(table) + 1)
  <1>1. Len(table) \in Nat /\ DOMAIN table = 1..Len(table)
    BY LenProperties
  <1>2. row \in Row
    BY <1>1 DEF NewRow, Row
  <1>3. table' = table \o <<row>>
    BY DEF Insert, CreateMany
  <1> HIDE DEF row
  <1>4. table' \in Seq(Row) /\ Len(table') = Len(table) + 1
    BY <1>1, <1>2, <1>3
  <1>5. /\ \A id \in 1..Len(table) : table'[id] = table[id]
        /\ table'[Len(table) + 1] = row
    BY <1>1, <1>2, <1>3
  <1>6. DOMAIN table' = 1..(Len(table) + 1)
    BY <1>1, <1>4, LenProperties
  <1>7. QED BY <1>1, <1>4, <1>5, <1>6 DEF row

LEMMA DeleteMarks ==
    ASSUME table \in Seq(Row), Delete
    PROVE  /\ table' \in Seq(Row) /\ Len(table') = Len(table)
           /\ DOMAIN table' = DOMAIN table
           /\ Live(table') \subseteq Live(table)
           /\ \A id \in DOMAIN table : table'[id].created = table[id].created
  <1>1. Len(table) \in Nat /\ DOMAIN table = 1..Len(table) /\ \A i \in 1..Len(table) : table[i] \in Row
    BY LiveFinite
  <1>2. PICK id \in Live(table) : table' = DeleteMany(table, {id})
    BY DEF Delete
  <1>3. table' = [i \in 1..Len(table) |->
                   IF i \in {id} \cap Live(table) THEN [table[i] EXCEPT !["deleted"] = TRUE]
                                                  ELSE table[i]]
    BY <1>2 DEF DeleteMany, UpdateMany
  <1>4. \A i \in 1..Len(table) :
           /\ table'[i] \in Row /\ table'[i].created = table[i].created
           /\ table[i].deleted => table'[i].deleted
    BY <1>1, <1>3 DEF Row
  <1>5. table' \in Seq(Row) /\ Len(table') = Len(table) /\ DOMAIN table' = DOMAIN table
    BY <1>1, <1>3, <1>4
  <1>6. Live(table') \subseteq Live(table)
    BY <1>1, <1>4, <1>5 DEF Live
  <1>7. QED BY <1>1, <1>4, <1>5, <1>6

\* What the type says of each variable, for the steps that read it.
LEMMA TypeFacts ==
    ASSUME Typed
    PROVE  /\ table \in Seq(Row) /\ Len(table) \in Nat /\ DOMAIN table = 1..Len(table)
           /\ query \in [page : Nat, pageSize : Nat \ {0}, lastItemId : Nat]
           /\ query.lastItemId \in DOMAIN table \cup {None}
           /\ query.pageSize \in PageSizes /\ query.pageSize \in Nat \ {0}
           /\ query.page \in Nat
           /\ data.rows \in Seq(DOMAIN table) /\ Len(data.rows) \in Nat /\ data.live \in Nat
           /\ walk \in {"page", "cursor", "cursor only"}
  <1>1. PageSizes \subseteq Nat \ {0} /\ Walks \subseteq {"page", "cursor", "cursor only"}
    BY InputsAreTyped
  <1>2. table \in Seq(Row) /\ Len(table) \in Nat /\ DOMAIN table = 1..Len(table)
    BY DEF Typed, TypeOK, Row
  <1>3. /\ query \in [page : Nat, pageSize : PageSizes, lastItemId : DOMAIN table \cup {None}]
        /\ data \in [status : {"pending", "found", "failed"}, rows : Seq(DOMAIN table),
                     live : Nat]
        /\ walk \in Walks
    BY DEF Typed, TypeOK
  <1>4. DOMAIN table \cup {None} \subseteq Nat
    BY <1>2 DEF None
  <1>5. query \in [page : Nat, pageSize : Nat \ {0}, lastItemId : Nat]
    BY <1>1, <1>3, <1>4
  <1>6. data.rows \in Seq(DOMAIN table) /\ data.live \in Nat
    BY <1>3
  <1>7. Len(data.rows) \in Nat
    BY <1>6, LenProperties
  <1>8. /\ query.pageSize \in PageSizes /\ query.page \in Nat
        /\ query.lastItemId \in DOMAIN table \cup {None}
    BY <1>3
  <1>9. query.pageSize \in Nat \ {0} /\ walk \in {"page", "cursor", "cursor only"}
    BY <1>1, <1>3, <1>8
  <1>10. QED BY <1>2, <1>5, <1>6, <1>7, <1>8, <1>9

\* An answer of findMany comes from an order of the list, cut to a page.
LEMMA FindManyReads ==
    ASSUME Typed, FindMany, query.page # None
    PROVE  \E s \in Orders :
             /\ IsOrder(s)
             /\ data' = [status |-> "found", rows |-> Page(s, query),
                         live |-> Cardinality(Live(table))]
             /\ Page(s, query) \in Seq(Live(table))
             /\ Len(Page(s, query)) <= query.pageSize
             /\ query.page >= 1 /\ FromCursor(s, query.lastItemId) \in Seq(Live(table))
  <1>1. PICK s \in Orders :
           data' = [status |-> "found", rows |-> Page(s, query),
                    live |-> Cardinality(Live(table))]
    BY DEF FindMany
  <1>2. IsOrder(s)
    BY TypeFacts, OrdersAreOrders
  <1>3. query.page >= 1
    <2>1. query.page \in Nat
      BY TypeFacts
    <2>2. query.page # 0
      BY DEF None
    <2>3. QED BY <2>1, <2>2
  <1>4. FromCursor(s, query.lastItemId) \in Seq(Live(table))
    <2>1. table \in Seq(Row) /\ query.lastItemId \in Nat
      BY TypeFacts DEF None
    <2>2. QED BY <1>2, <2>1, CursorCuts
  <1>5. Page(s, query) \in Seq(Live(table)) /\ Len(Page(s, query)) <= query.pageSize
    BY <1>3, <1>4, TypeFacts, PageCuts
  <1>6. QED BY <1>1, <1>2, <1>3, <1>4, <1>5

LEMMA TypedInit == Init => Typed
  <1> SUFFICES ASSUME Init PROVE Typed
    OBVIOUS
  <1>1. PICK created \in InitTables : table = [id \in DOMAIN created |-> NewRow(created[id])]
    BY DEF Init
  <1>2. /\ created \in Seq(Nat) /\ Len(created) \in Nat /\ DOMAIN created = 1..Len(created)
        /\ \A id \in 1..Len(created) : created[id] \in Nat /\ created[id] <= Len(created)
    <2>1. created \in Seq(Nat) /\ \A id \in DOMAIN created : created[id] <= Len(created)
      BY InputsAreTyped
    <2>2. QED BY <2>1, LenProperties
  <1>3. /\ table \in Seq(Row)
        /\ \A id \in DOMAIN table : ~table[id].deleted /\ table[id].created <= Len(table)
    <2>1. \A id \in 1..Len(created) :
             /\ NewRow(created[id]) \in Row /\ ~NewRow(created[id]).deleted
             /\ NewRow(created[id]).created <= Len(created)
      BY <1>2 DEF NewRow, Row
    <2>2. QED BY <1>1, <1>2, <2>1
  <1>4. PICK size \in PageSizes : query = [page |-> 1, pageSize |-> size, lastItemId |-> None]
    BY DEF Init
  <1>5. size \in Nat \ {0}
    BY InputsAreTyped
  <1>6. query \in [page : Nat, pageSize : PageSizes, lastItemId : DOMAIN table \cup {None}]
    BY <1>4
  <1>7. /\ data \in [status : {"pending", "found", "failed"}, rows : Seq(DOMAIN table), live : Nat]
        /\ data.rows = << >> /\ data.status = "pending" /\ Len(data.rows) <= query.pageSize
    BY <1>4, <1>5 DEF Init, NoData
  <1>8. seen \in [DOMAIN table -> 0..2] /\ Len(table) \in Nat
    BY <1>3 DEF Init
  <1>9. TypeOK
    BY <1>3, <1>6, <1>7, <1>8 DEF Init, TypeOK, Row
  <1>10. QED BY <1>3, <1>4, <1>7, <1>8, <1>9 DEF Init, Typed

LEMMA TypedFindMany == Typed /\ FindMany => Typed'
  <1> SUFFICES ASSUME Typed, FindMany PROVE Typed'
    OBVIOUS
  <1> DEFINE Data == [status : {"pending", "found", "failed"}, rows : Seq(DOMAIN table),
                      live : Nat]
  <1>1. UNCHANGED <<table, walk, query, total, seen, pc, inserts, deletes>>
    BY DEF FindMany
  <1>2. pc = "asked" /\ data.status = "pending"
    BY DEF FindMany
  <1>3. /\ data' \in Data /\ Len(data'.rows) <= query.pageSize
        /\ data'.status = "failed" => query.page = None
        /\ data'.status # "found" => data'.rows = << >>
    <2>1. CASE query.page = None
      <3>1. data' = NoData("failed")
        BY <2>1 DEF FindMany
      <3>2. data' \in Data /\ data'.rows = << >> /\ Len(data'.rows) = 0
        BY <3>1 DEF NoData
      <3>3. query.pageSize \in Nat
        BY TypeFacts
      <3>4. QED BY <2>1, <3>2, <3>3
    <2>2. CASE query.page # None
      <3>1. PICK s \in Orders :
              /\ data' = [status |-> "found", rows |-> Page(s, query),
                          live |-> Cardinality(Live(table))]
              /\ Page(s, query) \in Seq(Live(table))
              /\ Len(Page(s, query)) <= query.pageSize
        BY <2>2, FindManyReads
      <3>2. Live(table) \subseteq DOMAIN table /\ Cardinality(Live(table)) \in Nat
        BY TypeFacts, LiveFinite
      <3>3. Page(s, query) \in Seq(DOMAIN table)
        BY <3>1, <3>2
      <3>4. QED BY <3>1, <3>2, <3>3
    <2>3. QED BY <2>1, <2>2
  <1>4. TypeOK'
    BY <1>1, <1>3 DEF Typed, TypeOK
  <1>5. QED BY <1>1, <1>2, <1>3, <1>4 DEF Typed

LEMMA TypedCount == Typed /\ Count => Typed'
  <1> SUFFICES ASSUME Typed, Count PROVE Typed'
    OBVIOUS
  <1>1. Cardinality(Live(table)) \in Nat
    BY TypeFacts, LiveFinite
  <1>2. TypeOK'
    BY <1>1 DEF Typed, TypeOK, Count
  <1>3. QED BY <1>2 DEF Typed, Count

\* What an answer shows is counted, and the rest of an answer.
LEMMA GotCounts ==
    ASSUME Typed, NEW ids, Got(ids)
    PROVE  /\ seen' \in [DOMAIN table -> 0..2]
           /\ \A id \in DOMAIN table :
                seen'[id] = IF id \in ids /\ seen[id] < 2 THEN seen[id] + 1 ELSE seen[id]
           /\ \A id \in DOMAIN table : seen[id] \in 0..2
  <1>1. seen \in [DOMAIN table -> 0..2]
    BY DEF Typed, TypeOK
  <1>2. seen' = [id \in DOMAIN table |->
                  IF id \in ids /\ seen[id] < 2 THEN seen[id] + 1 ELSE seen[id]]
    BY <1>1 DEF Got
  <1>3. \A id \in DOMAIN table : seen[id] \in 0..2
    BY <1>1
  <1>4. \A id \in DOMAIN table :
           (IF id \in ids /\ seen[id] < 2 THEN seen[id] + 1 ELSE seen[id]) \in 0..2
    BY <1>3
  <1>5. QED BY <1>2, <1>3, <1>4

\* The last row of a full page is a row.
LEMMA LastIsShown ==
    ASSUME Typed, Len(data.rows) = query.pageSize
    PROVE  Last(data.rows) \in DOMAIN table /\ Last(data.rows) \in ToSet(data.rows)
  <1>1. data.rows \in Seq(DOMAIN table) /\ Len(data.rows) \in Nat \ {0}
    BY TypeFacts
  <1>2. QED BY <1>1 DEF Last, ToSet

LEMMA TypedAnswer == Typed /\ Answer => Typed'
  <1> SUFFICES ASSUME Typed, Answer PROVE Typed'
    OBVIOUS
  <1> DEFINE Queries == [page : Nat, pageSize : PageSizes, lastItemId : DOMAIN table \cup {None}]
             Data == [status : {"pending", "found", "failed"}, rows : Seq(DOMAIN table),
                      live : Nat]
  <1>1. /\ UNCHANGED <<table, walk, inserts, deletes>>
        /\ pc = "asked" /\ data.status = "found" /\ total # Unknown
    BY DEF Answer
  <1>2. query \in Queries /\ data \in Data /\ walk \in Walks /\ query.pageSize \in Nat
    BY TypeFacts DEF Typed, TypeOK
  <1> DEFINE Asking ==
               /\ seen' \in [DOMAIN table -> 0..2]
               /\ query' \in Queries /\ query'.pageSize = query.pageSize
               /\ pc' = "asked" \/ (pc' = "done" /\ UNCHANGED query)
               /\ walk = "page" => query'.page >= 1 /\ query'.lastItemId = None
               /\ walk = "cursor" => query'.page = 1
  <1>3. Asking
    <2>1. CASE NextPage
      <3>1. seen' \in [DOMAIN table -> 0..2]
        BY <2>1, GotCounts DEF NextPage
      <3>2. query.page \in Nat /\ query.page + 1 \in Nat /\ query.page >= 1
            /\ query.lastItemId = None /\ walk = "page"
        BY <1>2, <2>1 DEF NextPage, Typed
      <3>3. CASE query' = [query EXCEPT !.page = @ + 1] /\ UNCHANGED pc
        <4>1. /\ query'.page = query.page + 1 /\ query'.pageSize = query.pageSize
              /\ query'.lastItemId = query.lastItemId
              /\ query' = [page |-> query'.page, pageSize |-> query'.pageSize,
                           lastItemId |-> query'.lastItemId]
          BY <1>2, <3>3
        <4>2. query' \in Queries /\ query'.page >= 1
          BY <1>2, <3>2, <4>1
        <4>3. pc' = "asked"
          BY <1>1, <3>3
        <4>4. walk = "page" /\ query'.lastItemId = None /\ query'.pageSize = query.pageSize
          BY <3>2, <4>1
        <4>5. QED BY <3>1, <4>2, <4>3, <4>4
      <3>4. CASE pc' = "done" /\ UNCHANGED query
        BY <1>2, <3>1, <3>2, <3>4
      <3>5. QED BY <2>1, <3>3, <3>4 DEF NextPage
    <2>2. ASSUME NEW page \in {1, None}, NextCursor(page),
                 walk = "cursor only" \/ (walk = "cursor" /\ page = 1)
          PROVE  Asking
      <3>1. seen' \in [DOMAIN table -> 0..2]
        BY <2>2, GotCounts DEF NextCursor
      <3>2. CASE /\ Len(data.rows) = query.pageSize
                 /\ query' = [query EXCEPT !.lastItemId = Last(data.rows), !.page = page]
                 /\ UNCHANGED pc
        <4>1. Last(data.rows) \in DOMAIN table /\ page \in Nat
          BY <3>2, LastIsShown DEF None
        <4>2. /\ query'.page = page /\ query'.pageSize = query.pageSize
              /\ query'.lastItemId = Last(data.rows)
              /\ query' = [page |-> query'.page, pageSize |-> query'.pageSize,
                           lastItemId |-> query'.lastItemId]
          BY <1>2, <3>2
        <4>3. query' \in Queries
          BY <1>2, <4>1, <4>2
        <4>4. pc' = "asked"
          BY <1>1, <3>2
        <4>5. walk # "page" /\ (walk = "cursor" => query'.page = 1)
              /\ query'.pageSize = query.pageSize
          BY <2>2, <4>2
        <4>6. QED BY <3>1, <4>3, <4>4, <4>5
      <3>3. CASE pc' = "done" /\ UNCHANGED query
        BY <1>2, <2>2, <3>1, <3>3 DEF Typed
      <3>4. QED BY <2>2, <3>2, <3>3 DEF NextCursor
    <2>3. QED BY <2>1, <2>2 DEF Answer
  <1>4. /\ data' \in Data /\ Len(data'.rows) <= query'.pageSize
        /\ data'.status # "failed" /\ (data'.status # "found" => data'.rows = << >>)
        /\ total' \in Nat \cup {Unknown}
        /\ pc' = "done" => data'.status = "found" /\ total' # Unknown
    <2>1. CASE pc' = "done"
      <3>1. UNCHANGED <<data, total>>
        BY <2>1 DEF Answer
      <3>2. QED BY <1>1, <1>2, <1>3, <3>1 DEF Typed, TypeOK
    <2>2. CASE pc' # "done"
      <3>1. data' = NoData("pending") /\ total' = Unknown
        BY <2>2 DEF Answer
      <3>2. data' \in Data /\ data'.rows = << >> /\ Len(data'.rows) = 0
            /\ data'.status = "pending"
        BY <3>1 DEF NoData
      <3>3. QED BY <1>2, <1>3, <2>2, <3>1, <3>2
    <2>3. QED BY <2>1, <2>2
  <1>5. TypeOK'
    BY <1>1, <1>2, <1>3, <1>4 DEF Typed, TypeOK
  <1>6. QED BY <1>1, <1>3, <1>4, <1>5 DEF Typed

LEMMA TypedInsert == Typed /\ Insert => Typed'
  <1> SUFFICES ASSUME Typed, Insert PROVE Typed'
    OBVIOUS
  <1>1. /\ UNCHANGED <<walk, query, data, total, pc, deletes>>
        /\ inserts' = inserts + 1 /\ seen' = Append(seen, 0)
    BY DEF Insert
  <1>2. table \in Seq(Row) /\ Len(table) \in Nat /\ DOMAIN table = 1..Len(table)
    BY TypeFacts
  <1>3. /\ table' \in Seq(Row) /\ Len(table') = Len(table) + 1
        /\ DOMAIN table' = DOMAIN table \cup {Len(table) + 1}
        /\ \A id \in DOMAIN table : table'[id] = table[id]
        /\ table'[Len(table) + 1] = NewRow(Len(table) + 1)
    BY <1>2, InsertAdds
  <1>4. seen' \in [DOMAIN table' -> 0..2]
    <2>1. seen \in Seq(0..2) /\ Len(seen) = Len(table)
      <3>1. seen \in [1..Len(table) -> 0..2]
        BY <1>2 DEF Typed, TypeOK
      <3>2. QED BY <1>2, <3>1, SeqDef
    <2>2. Append(seen, 0) \in Seq(0..2) /\ Len(Append(seen, 0)) = Len(table) + 1
      BY <1>2, <2>1
    <2>3. DOMAIN table' = 1..(Len(table) + 1)
      BY <1>3, LenProperties
    <2>4. Append(seen, 0) \in [1..(Len(table) + 1) -> 0..2]
      BY <2>2, LenProperties
    <2>5. QED BY <1>1, <2>3, <2>4
  <1>5. DOMAIN table \subseteq DOMAIN table'
    BY <1>3
  <1>6. data' \in [status : {"pending", "found", "failed"}, rows : Seq(DOMAIN table'),
                   live : Nat]
    <2>1. data.rows \in Seq(DOMAIN table')
      <3>1. data.rows \in Seq(DOMAIN table)
        BY TypeFacts
      <3>2. QED BY <1>5, <3>1
    <2>2. QED BY <1>1, <2>1 DEF Typed, TypeOK
  <1>7. query' \in [page : Nat, pageSize : PageSizes, lastItemId : DOMAIN table' \cup {None}]
    BY <1>1, <1>5 DEF Typed, TypeOK
  <1>8. TypeOK'
    BY <1>1, <1>3, <1>4, <1>6, <1>7 DEF Typed, TypeOK, Row
  <1>9. inserts' \in 0..Len(table')
    BY <1>1, <1>2, <1>3 DEF Typed
  <1>10. deletes' = 0 => \A id \in DOMAIN table' : ~table'[id].deleted
    BY <1>1, <1>3 DEF Typed, NewRow
  <1>11. \A id \in DOMAIN table' : table'[id].created <= Len(table')
    <2>1. \A id \in DOMAIN table : table[id].created \in Nat /\ table[id].created <= Len(table)
      BY <1>2, LiveFinite DEF Typed, Row
    <2>2. NewRow(Len(table) + 1).created = Len(table) + 1
      BY DEF NewRow
    <2>3. QED BY <1>2, <1>3, <2>1, <2>2
  <1>12. QED BY <1>1, <1>8, <1>9, <1>10, <1>11 DEF Typed

LEMMA TypedDelete == Typed /\ Delete => Typed'
  <1> SUFFICES ASSUME Typed, Delete PROVE Typed'
    OBVIOUS
  <1>1. /\ UNCHANGED <<walk, query, data, total, seen, pc, inserts>>
        /\ deletes' = deletes + 1
    BY DEF Delete
  <1>2. /\ table' \in Seq(Row) /\ Len(table') = Len(table) /\ DOMAIN table' = DOMAIN table
        /\ \A id \in DOMAIN table : table'[id].created = table[id].created
    BY TypeFacts, DeleteMarks
  <1>3. TypeOK'
    BY <1>1, <1>2 DEF Typed, TypeOK, Row
  <1>4. deletes' \in Nat /\ deletes' # 0
    BY <1>1 DEF Typed
  <1>5. QED BY <1>1, <1>2, <1>3, <1>4 DEF Typed

LEMMA TypedNext == Typed /\ [Next]_vars => Typed'
  <1> SUFFICES ASSUME Typed, [Next]_vars PROVE Typed'
    OBVIOUS
  <1>1. CASE AnswerError
    <2>1. pc' = "failed" /\ UNCHANGED <<table, walk, query, data, total, seen, inserts, deletes>>
      BY <1>1 DEF AnswerError
    <2>2. QED BY <2>1 DEF Typed, TypeOK
  <1>2. CASE UNCHANGED vars
    BY <1>2 DEF vars, Typed, TypeOK
  <1>3. QED BY <1>1, <1>2, TypedFindMany, TypedCount, TypedAnswer, TypedInsert, TypedDelete
            DEF Next, Done

\* Whatever is created and deleted meanwhile, findMany answers with rows of the
\* list and never with more of them than pageSize.
THEOREM WalkTyped == Spec => []TypeOK
  <1>1. Typed => TypeOK
    BY DEF Typed
  <1>2. QED BY <1>1, TypedInit, TypedNext, PTL DEF Spec
-----------------------------------------------------------------------------
(* What each kind of walk keeps true on its way.                              *)

\* The rows from the start that a walk by pages has not shown yet are behind
\* the pages it has asked for.
Unseen ==
    (walk = "page" /\ deletes = 0) =>
        \A id \in 1..(Len(table) - inserts) : (Untied(id) /\ seen[id] = 0) =>
            /\ pc = "done" => total + Cardinality(NoNewer(id)) <= data.live
            /\ pc = "asked" /\ data.status = "pending" =>
                 Skip(query) <= Cardinality(Ahead(id))
            /\ pc = "asked" /\ data.status = "found" /\ id \notin ToSet(data.rows) =>
                 /\ Skip(query) + query.pageSize <= Cardinality(Ahead(id))
                 /\ Skip(query) + query.pageSize + Cardinality(NoNewer(id)) <= data.live

\* The rows that a walk by pages has shown are before the page it asks for.
Shown ==
    (walk = "page" /\ inserts = 0) =>
        \A id \in DOMAIN table : Untied(id) =>
            /\ seen[id] <= 1
            /\ pc = "asked" /\ seen[id] = 1 =>
                 id \notin ToSet(data.rows) /\ Cardinality(Ahead(id)) < Skip(query)
            /\ pc = "asked" /\ id \in ToSet(data.rows) =>
                 Cardinality(Ahead(id)) < Skip(query) + query.pageSize

\* While nothing changes, a walk by pages has shown the rows before the page it
\* asks for, and its answer holds those on it, where no page splits them.
Exact ==
    (walk = "page" /\ inserts = 0 /\ deletes = 0) =>
        \A id \in DOMAIN table : OnOnePage(id) =>
            LET first == Cardinality(Ahead(id))
                end == Skip(query) + query.pageSize
            IN /\ pc = "asked" => seen[id] = IF first < Skip(query) THEN 1 ELSE 0
               /\ pc = "asked" /\ data.status = "found" =>
                    (id \in ToSet(data.rows) <=> Skip(query) <= first /\ first < end)
               /\ pc = "done" => total <= end /\ seen[id] = IF first < end THEN 1 ELSE 0

\* Nothing has changed between the statements of a query.
Counted ==
    (inserts = 0 /\ deletes = 0) =>
        /\ total # Unknown => total = Cardinality(Live(table))
        /\ data.status = "found" => data.live = Cardinality(Live(table))

\* Row id is not before row c in the order.
Reached(c, id) == c = None \/ table[id].created <= table[c].created

\* A walk by cursors has shown the rows down to its cursor, and its page holds
\* those that follow.
ShownToCursor(id) ==
    LET c == query.lastItemId
    IN seen[id] = IF c # None /\ table[id].created >= table[c].created THEN 1 ELSE 0

ShownSoFar(id) ==
    LET c == query.lastItemId
    IN /\ pc = "done" => seen[id] = 1
       /\ pc = "asked" => ShownToCursor(id)
       /\ pc = "asked" /\ data.status = "found" =>
            (id \in ToSet(data.rows) <=>
               /\ Reached(c, id)
               /\ Len(data.rows) = query.pageSize =>
                    table[id].created >= table[Last(data.rows)].created)

Following ==
    /\ pc = "asked" /\ data.status = "found" /\ Len(data.rows) = query.pageSize =>
         Reached(query.lastItemId, Last(data.rows))
    /\ \A id \in Live(table) \cap 1..(Len(table) - inserts) : Untied(id) => ShownSoFar(id)

\* Or else its cursor was deleted before it was read, and it ends there.
StoppedShort ==
    /\ Lost /\ (pc = "done" \/ (pc = "asked" /\ data.status = "found" /\ data.rows = << >>))
    /\ \A id \in Live(table) \cap 1..(Len(table) - inserts) : Untied(id) => ShownToCursor(id)

Followed == walk = "cursor" => StoppedShort \/ Following
-----------------------------------------------------------------------------
(* Walks by pages.                                                            *)

LEMMA AheadCounts ==
    ASSUME table \in Seq(Row), NEW id
    PROVE  IsFiniteSet(Ahead(id)) /\ Cardinality(Ahead(id)) \in Nat
  <1>1. Ahead(id) \subseteq Live(table)
    BY DEF Ahead
  <1>2. QED BY <1>1, LiveFinite, FS_Subset, FS_CardinalityType

\* A page that begins or ends after m rows does not split row id and its equals.
Whole(m, id) ==
    \/ m <= Cardinality(Ahead(id))
    \/ Cardinality(Ahead(id)) + Cardinality(Peers(id)) <= m

\* Where a row is shown that has no equal, or stays with its equals.
LEMMA PageShows ==
    ASSUME Typed, NEW s, IsOrder(s), query.page >= 1, query.lastItemId = None,
           NEW id \in DOMAIN table,
           Untied(id) \/ (Whole(Skip(query), id) /\ Whole(Skip(query) + query.pageSize, id))
    PROVE  id \in ToSet(Page(s, query)) <=>
             /\ id \in Live(table)
             /\ Skip(query) <= Cardinality(Ahead(id))
             /\ Cardinality(Ahead(id)) < Skip(query) + query.pageSize
  <1> DEFINE P == Page(s, query)
             a == Cardinality(Ahead(id))
             e == Cardinality(Peers(id))
             z == query.pageSize
  <1>1. /\ table \in Seq(Row) /\ query.lastItemId \in Nat
        /\ query \in [page : Nat, pageSize : Nat \ {0}, lastItemId : Nat]
    BY TypeFacts
  <1>2. z \in Nat
    BY <1>1
  <1>3. Skip(query) \in Nat /\ a \in Nat /\ e \in Nat
    BY <1>1, SkipsWholePages, RowsSplit
  <1>4. s \in Seq(Live(table)) /\ FromCursor(s, query.lastItemId) = s
    BY <1>1, CursorCuts
  <1>5. /\ P \in Seq(Live(table)) /\ Len(P) <= z
        /\ \A i \in 1..z : i <= Len(P) <=> Skip(query) + i <= Len(s)
        /\ \A i \in 1..Len(P) : P[i] = s[Skip(query) + i]
    BY <1>1, <1>4, PageCuts
  <1>6. Len(s) \in Nat /\ Len(P) \in Nat /\ DOMAIN P = 1..Len(P)
    BY <1>4, <1>5, LenProperties
  <1>7. id \in Live(table) =>
           /\ Skip(query) <= a \/ a + e <= Skip(query)
           /\ Skip(query) + z <= a \/ a + e <= Skip(query) + z
    <2>1. CASE Untied(id)
      <3>1. id \in Live(table) => e = 1
        BY <1>1, <2>1, RowsSplit
      <3>2. QED BY <1>2, <1>3, <3>1
    <2>2. CASE Whole(Skip(query), id) /\ Whole(Skip(query) + query.pageSize, id)
      BY <2>2 DEF Whole
    <2>3. QED BY <2>1, <2>2
  <1> HIDE DEF P, z, a, e
  <1>8. ASSUME NEW k \in 1..Len(s), s[k] = id PROVE a < k /\ k <= a + e
    BY <1>8 DEF IsOrder, a, e
  <1>9. ASSUME id \in ToSet(P)
        PROVE  id \in Live(table) /\ Skip(query) <= a /\ a < Skip(query) + z
    <2>1. PICK i \in 1..Len(P) : P[i] = id
      BY <1>6, <1>9 DEF ToSet
    <2>2. i \in 1..z /\ Skip(query) + i \in 1..Len(s) /\ s[Skip(query) + i] = id
      BY <1>2, <1>3, <1>5, <1>6, <2>1
    <2>3. a < Skip(query) + i /\ Skip(query) + i <= a + e
      BY <1>8, <2>2
    <2>4. id \in Live(table)
      BY <1>5, <2>1
    <2>5. QED BY <1>2, <1>3, <1>7, <2>2, <2>3, <2>4
  <1>10. ASSUME id \in Live(table)
         PROVE  \E k \in 1..Len(s) : s[k] = id /\ a < k /\ k <= a + e
    <2>1. PICK k \in 1..Len(s) : s[k] = id
      BY <1>10 DEF IsOrder
    <2>2. QED BY <1>8, <2>1
  <1>11. ASSUME id \in Live(table), Skip(query) <= a, a < Skip(query) + z
         PROVE  id \in ToSet(P)
    <2>1. PICK k \in 1..Len(s) : s[k] = id /\ a < k /\ k <= a + e
      BY <1>10, <1>11
    <2>2. k - Skip(query) \in 1..z /\ Skip(query) + (k - Skip(query)) = k
      BY <1>2, <1>3, <1>7, <1>11, <2>1
    <2>3. k - Skip(query) \in 1..Len(P)
      BY <1>5, <1>6, <2>1, <2>2
    <2>4. P[k - Skip(query)] = id
      BY <1>5, <2>1, <2>2, <2>3
    <2>5. QED BY <1>6, <2>3, <2>4 DEF ToSet
  <1>12. QED BY <1>9, <1>11 DEF P, a, z

\* A walk that goes on skips what it has shown, and one that ends has asked for
\* as many rows as were counted.
LEMMA PagesGoOn ==
    ASSUME Typed, Answer, walk = "page"
    PROVE  /\ NextPage
           /\ pc' = "asked" => Skip(query') = Skip(query) + query.pageSize
           /\ pc' = "done" => total <= Skip(query) + query.pageSize
           /\ pc' \in {"asked", "done"} /\ (pc' = "asked" => data' = NoData("pending"))
           /\ pc' = "done" => UNCHANGED <<query, data, total>>
  <1> DEFINE z == query.pageSize
             n == query.page
  <1>1. NextPage /\ pc = "asked" /\ total # Unknown
    BY DEF Answer
  <1>2. query \in [page : Nat, pageSize : Nat \ {0}, lastItemId : Nat] /\ n >= 1
    BY TypeFacts DEF Typed
  <1>3. z \in Nat \ {0} /\ n \in Nat
    BY <1>2
  <1>4. total \in Nat
    BY <1>1 DEF Typed, TypeOK
  <1>5. n * z = Skip(query) + z /\ Skip([query EXCEPT !.page = @ + 1]) = Skip(query) + z
    BY <1>2, SkipsWholePages
  <1>6. CASE n < TotalPages
    <2>1. query' = [query EXCEPT !.page = @ + 1] /\ pc' = "asked"
      BY <1>1, <1>6 DEF NextPage
    <2>2. data' = NoData("pending")
      BY <2>1 DEF Answer
    <2>3. QED BY <1>1, <1>5, <2>1, <2>2
  <1>7. CASE ~(n < TotalPages)
    <2>1. pc' = "done" /\ UNCHANGED query
      BY <1>1, <1>7 DEF NextPage
    <2>2. UNCHANGED <<data, total>>
      BY <2>1 DEF Answer
    <2> DEFINE d == (total + z - 1) \div z
    <2>3. d \in Int /\ total + z - 1 < z * (d + 1)
      BY <1>3, <1>4
    <2>4. d <= n
      BY <1>3, <1>7, <2>3 DEF TotalPages
    <2> HIDE DEF d
    <2>5. z * (d + 1) <= z * (n + 1)
      BY <1>3, <2>3, <2>4
    <2>6. z * (n + 1) = n * z + z
      BY <1>3
    <2>7. total <= n * z
      BY <1>3, <1>4, <2>3, <2>5, <2>6
    <2>8. QED BY <1>1, <1>5, <2>1, <2>2, <2>7
  <1>8. QED BY <1>6, <1>7

\* New rows push the others back, and tie none that were not tied before.
LEMMA InsertPushes ==
    ASSUME Typed, Insert, NEW id \in DOMAIN table
    PROVE  /\ Untied(id)' => Untied(id)
           /\ Cardinality(Ahead(id)) <= Cardinality(Ahead(id)') /\ NoNewer(id)' = NoNewer(id)
           /\ seen'[id] = seen[id] /\ table'[id] = table[id]
           /\ id \in Live(table)' <=> id \in Live(table)
           /\ Len(table') - inserts' = Len(table) - inserts
  <1>1. table \in Seq(Row) /\ Len(table) \in Nat /\ DOMAIN table = 1..Len(table)
    BY TypeFacts
  <1>2. /\ table' \in Seq(Row) /\ Len(table') = Len(table) + 1
        /\ DOMAIN table' = DOMAIN table \cup {Len(table) + 1}
        /\ \A i \in DOMAIN table : table'[i] = table[i]
        /\ table'[Len(table) + 1].created = Len(table) + 1
    BY <1>1, InsertAdds DEF NewRow
  <1>3. Untied(id)' => Untied(id)
    BY <1>2 DEF Untied
  <1>4. \A i \in DOMAIN table : i \in Live(table)' <=> i \in Live(table)
    BY <1>1, <1>2 DEF Live
  <1>5. Ahead(id) \subseteq Ahead(id)'
    BY <1>1, <1>2, <1>4 DEF Ahead, Live
  <1>6. IsFiniteSet(Ahead(id)')
    <2>1. IsFiniteSet(Live(table'))
      BY <1>2, LiveFinite
    <2>2. Ahead(id)' \subseteq Live(table')
      BY DEF Ahead
    <2>3. QED BY <2>1, <2>2, FS_Subset
  <1>7. Cardinality(Ahead(id)) <= Cardinality(Ahead(id)')
    BY <1>5, <1>6, FS_Subset
  <1>8. seen'[id] = seen[id]
    <2>1. seen \in Seq(0..2) /\ Len(seen) = Len(table)
      <3>1. seen \in [1..Len(table) -> 0..2]
        BY <1>1 DEF Typed, TypeOK
      <3>2. QED BY <1>1, <3>1, SeqDef
    <2>2. seen' = Append(seen, 0)
      BY DEF Insert
    <2>3. QED BY <1>1, <2>1, <2>2
  <1>9. Len(table') - inserts' = Len(table) - inserts
    BY <1>1, <1>2 DEF Insert, Typed
  <1>10. NoNewer(id)' = NoNewer(id)
    <2>1. table[id].created <= Len(table) /\ table[id].created \in Nat
      BY <1>1, LiveFinite DEF Typed, Row
    <2>2. \A i \in Live(table)' : i \in Live(table) \/ i = Len(table) + 1
      BY <1>2, <1>4 DEF Live
    <2>3. Len(table) + 1 \notin NoNewer(id)' /\ Len(table) + 1 \notin NoNewer(id)
      BY <1>1, <1>2, <2>1 DEF NoNewer, Live
    <2>4. QED BY <1>1, <1>2, <1>4, <2>2, <2>3 DEF NoNewer, Live
  <1>11. QED BY <1>2, <1>3, <1>4, <1>7, <1>8, <1>9, <1>10

\* Deleted rows pull the others forward.
LEMMA DeletePulls ==
    ASSUME Typed, Delete, NEW id \in DOMAIN table
    PROVE  /\ Untied(id)' <=> Untied(id)
           /\ Cardinality(Ahead(id)') <= Cardinality(Ahead(id))
           /\ Cardinality(Ahead(id)') \in Nat /\ Cardinality(Ahead(id)) \in Nat
           /\ id \in Live(table)' => id \in Live(table)
           /\ table'[id].created = table[id].created
           /\ Len(table') = Len(table) /\ DOMAIN table' = DOMAIN table
  <1>1. table \in Seq(Row) /\ DOMAIN table = 1..Len(table)
    BY TypeFacts
  <1>2. /\ table' \in Seq(Row) /\ Len(table') = Len(table)
        /\ DOMAIN table' = DOMAIN table
        /\ Live(table') \subseteq Live(table)
        /\ \A i \in DOMAIN table : table'[i].created = table[i].created
    BY <1>1, DeleteMarks
  <1>3. Untied(id)' <=> Untied(id)
    BY <1>2 DEF Untied
  <1>4. Ahead(id)' \subseteq Ahead(id)
    BY <1>1, <1>2 DEF Ahead, Live
  <1>5. IsFiniteSet(Ahead(id)) /\ Cardinality(Ahead(id)) \in Nat
    BY <1>1, AheadCounts
  <1>6. Cardinality(Ahead(id)') <= Cardinality(Ahead(id)) /\ Cardinality(Ahead(id)') \in Nat
    BY <1>4, <1>5, FS_Subset, FS_CardinalityType
  <1>7. QED BY <1>2, <1>3, <1>5, <1>6

LEMMA UnseenInit == Init => Unseen
  <1> SUFFICES ASSUME Init PROVE Unseen
    OBVIOUS
  <1>1. Typed
    BY TypedInit
  <1>2. pc = "asked" /\ data.status = "pending"
    BY DEF Init, NoData
  <1>3. Skip(query) = 0
    <2>1. PICK size \in PageSizes : query = [page |-> 1, pageSize |-> size, lastItemId |-> None]
      BY DEF Init
    <2>2. size \in Nat
      BY InputsAreTyped
    <2>3. Skip(query) = (1 - 1) * size
      BY <2>1 DEF Skip
    <2>4. QED BY <2>2, <2>3
  <1>4. \A id : Cardinality(Ahead(id)) \in Nat
    BY <1>1, TypeFacts, AheadCounts
  <1>5. QED BY <1>2, <1>3, <1>4 DEF Unseen

LEMMA UnseenNext == Typed /\ Unseen /\ [Next]_vars => Unseen'
  <1> SUFFICES ASSUME Typed, Unseen, [Next]_vars, walk' = "page", deletes' = 0,
                      NEW id \in 1..(Len(table') - inserts'), Untied(id)', seen'[id] = 0
               PROVE  /\ pc' = "done" => total' + Cardinality(NoNewer(id)') <= data'.live
                      /\ pc' = "asked" /\ data'.status = "pending" =>
                           Skip(query') <= Cardinality(Ahead(id)')
                      /\ pc' = "asked" /\ data'.status = "found" /\ id \notin ToSet(data'.rows) =>
                           /\ Skip(query') + query'.pageSize <= Cardinality(Ahead(id)')
                           /\ Skip(query') + query'.pageSize + Cardinality(NoNewer(id)')
                                <= data'.live
    BY DEF Unseen
  <1> DEFINE a == Cardinality(Ahead(id))
             b == Cardinality(NoNewer(id))
             size == query.pageSize
  <1>1. walk = "page"
    BY DEF Next, FindMany, Count, Answer, AnswerError, Insert, Delete, Done, vars
  <1>2. table \in Seq(Row) /\ Len(table) \in Nat /\ DOMAIN table = 1..Len(table)
    BY TypeFacts
  <1>3. query.page >= 1 /\ query.lastItemId = None /\ inserts \in 0..Len(table) /\ deletes \in Nat
    BY <1>1 DEF Typed
  <1>4. a \in Nat /\ Skip(query) \in Nat /\ size \in Nat
    BY <1>2, <1>3, TypeFacts, AheadCounts, SkipsWholePages
  <1> DEFINE Behind == id \in 1..(Len(table) - inserts) /\ Untied(id) /\ seen[id] = 0
  <1>5. Unseen /\ deletes = 0 /\ Behind =>
           /\ pc = "done" => total + b <= data.live
           /\ pc = "asked" /\ data.status = "pending" => Skip(query) <= a
           /\ pc = "asked" /\ data.status = "found" /\ id \notin ToSet(data.rows) =>
                Skip(query) + size <= a /\ Skip(query) + size + b <= data.live
    BY <1>1 DEF Unseen
  <1>6. CASE FindMany
    <2>1. /\ UNCHANGED <<table, walk, query, total, seen, pc, inserts, deletes>>
          /\ pc = "asked" /\ data.status = "pending"
      BY <1>6 DEF FindMany
    <2>2. PICK s \in Orders : /\ IsOrder(s)
                              /\ data' = [status |-> "found", rows |-> Page(s, query),
                                          live |-> Cardinality(Live(table))]
      BY <1>3, <1>6, FindManyReads DEF None
    <2>3. Behind /\ deletes = 0 /\ id \in DOMAIN table
      BY <1>2, <1>3, <2>1 DEF Untied
    <2>4. Skip(query) <= a
      BY <1>5, <2>1, <2>3
    <2>5. id \in Live(table)
      BY <1>2, <2>3 DEF Typed, Live
    <2>6. /\ id \in ToSet(Page(s, query)) <=> Skip(query) <= a /\ a < Skip(query) + size
          /\ a + b = Cardinality(Live(table)) /\ b \in Nat
      BY <1>2, <1>3, <2>2, <2>3, <2>5, PageShows, RowsSplit
    <2>7. id \notin ToSet(data'.rows) =>
             Skip(query) + size <= a /\ Skip(query) + size + b <= data'.live
      BY <1>4, <2>2, <2>4, <2>6
    <2>8. Ahead(id)' = Ahead(id) /\ NoNewer(id)' = NoNewer(id)
      BY <2>1 DEF Ahead, NoNewer
    <2>9. QED BY <2>1, <2>2, <2>7, <2>8
  <1>7. CASE Count
    <2>1. /\ UNCHANGED <<table, walk, query, data, seen, pc, inserts, deletes>> /\ pc = "asked"
      BY <1>7 DEF Count
    <2>2. Behind /\ deletes = 0 /\ Ahead(id)' = Ahead(id) /\ NoNewer(id)' = NoNewer(id)
      BY <2>1 DEF Untied, Ahead, NoNewer
    <2>3. QED BY <1>5, <2>1, <2>2
  <1>8. CASE Answer
    <2>1. UNCHANGED <<table, walk, inserts, deletes>> /\ pc = "asked" /\ data.status = "found"
      BY <1>8 DEF Answer
    <2>2. /\ Got(ToSet(data.rows))
          /\ pc' = "asked" => Skip(query') = Skip(query) + size /\ data'.status = "pending"
          /\ pc' = "done" => total <= Skip(query) + size /\ UNCHANGED <<data, total>>
      BY <1>1, <1>8, PagesGoOn DEF NextPage, NoData
    <2>3. id \in DOMAIN table
      BY <1>2, <1>3, <2>1
    <2>4. seen[id] = 0 /\ id \notin ToSet(data.rows)
      BY <2>2, <2>3, GotCounts
    <2>5. Behind /\ deletes = 0 /\ Ahead(id)' = Ahead(id) /\ NoNewer(id)' = NoNewer(id)
      BY <2>1, <2>4 DEF Untied, Ahead, NoNewer
    <2>6. Skip(query) + size <= a /\ Skip(query) + size + b <= data.live
      BY <1>5, <2>1, <2>4, <2>5
    <2>7. total \in Nat /\ data.live \in Nat /\ b \in Nat
      BY <1>2, <1>8, <2>3, TypeFacts, RowsSplit DEF Answer, Typed, TypeOK
    <2>8. pc' = "done" => total' + b <= data'.live
      BY <1>4, <2>2, <2>6, <2>7
    <2>9. pc' \in {"asked", "done"}
      BY <1>1, <1>8, PagesGoOn
    <2>10. QED BY <2>2, <2>5, <2>6, <2>8, <2>9
  <1>9. CASE AnswerError
    BY <1>9 DEF AnswerError
  <1>10. CASE Insert
    <2>1. UNCHANGED <<walk, query, data, total, pc, deletes>>
      BY <1>10 DEF Insert
    <2>2. Len(table') - inserts' = Len(table) - inserts
      BY <1>2, <1>3, <1>10, InsertAdds DEF Insert
    <2>3. id \in DOMAIN table
      BY <1>2, <1>3, <2>2
    <2>4. /\ Behind /\ deletes = 0 /\ a <= Cardinality(Ahead(id)')
          /\ NoNewer(id)' = NoNewer(id)
      BY <1>10, <2>1, <2>2, <2>3, InsertPushes
    <2>5. Cardinality(Ahead(id)') \in Nat
      <3>1. table' \in Seq(Row)
        BY <1>2, <1>10, InsertAdds
      <3>2. Ahead(id)' \subseteq Live(table') /\ IsFiniteSet(Live(table'))
        BY <3>1, LiveFinite DEF Ahead
      <3>3. QED BY <3>2, FS_Subset, FS_CardinalityType
    <2>6. QED BY <1>4, <1>5, <2>1, <2>4, <2>5
  <1>11. CASE Delete
    BY <1>3, <1>11 DEF Delete
  <1>12. CASE UNCHANGED vars
    <2>1. Behind /\ deletes = 0 /\ Ahead(id)' = Ahead(id) /\ NoNewer(id)' = NoNewer(id)
      BY <1>12 DEF vars, Untied, Ahead, NoNewer
    <2>2. QED BY <1>5, <1>12, <2>1 DEF vars
  <1>13. QED BY <1>6, <1>7, <1>8, <1>9, <1>10, <1>11, <1>12 DEF Next, Done

LEMMA ShownInit == Init => Shown
  <1> SUFFICES ASSUME Init PROVE Shown
    OBVIOUS
  <1>1. data.rows = << >> /\ \A id \in DOMAIN table : seen[id] = 0
    BY DEF Init, NoData
  <1>2. ToSet(data.rows) = {}
    BY <1>1 DEF ToSet
  <1>3. QED BY <1>1, <1>2 DEF Shown

LEMMA ShownNext == Typed /\ Shown /\ [Next]_vars => Shown'
  <1> SUFFICES ASSUME Typed, Shown, [Next]_vars, walk' = "page", inserts' = 0,
                      NEW id \in DOMAIN table', Untied(id)'
               PROVE  /\ seen'[id] <= 1
                      /\ pc' = "asked" /\ seen'[id] = 1 =>
                           id \notin ToSet(data'.rows) /\ Cardinality(Ahead(id)') < Skip(query')
                      /\ pc' = "asked" /\ id \in ToSet(data'.rows) =>
                           Cardinality(Ahead(id)') < Skip(query') + query'.pageSize
    BY DEF Shown
  <1> DEFINE a == Cardinality(Ahead(id))
             size == query.pageSize
  <1>1. walk = "page"
    BY DEF Next, FindMany, Count, Answer, AnswerError, Insert, Delete, Done, vars
  <1>2. table \in Seq(Row) /\ Len(table) \in Nat /\ DOMAIN table = 1..Len(table)
    BY TypeFacts
  <1>3. query.page >= 1 /\ query.lastItemId = None /\ inserts \in 0..Len(table)
    BY <1>1 DEF Typed
  <1>4. a \in Nat /\ Skip(query) \in Nat /\ size \in Nat
    BY <1>2, <1>3, TypeFacts, AheadCounts, SkipsWholePages
  <1> DEFINE Old == inserts = 0 /\ id \in DOMAIN table /\ Untied(id)
  <1>5. Old =>
           /\ seen[id] <= 1
           /\ pc = "asked" /\ seen[id] = 1 => id \notin ToSet(data.rows) /\ a < Skip(query)
           /\ pc = "asked" /\ id \in ToSet(data.rows) => a < Skip(query) + size
    BY <1>1 DEF Shown
  <1>6. CASE FindMany
    <2>1. /\ UNCHANGED <<table, walk, query, total, seen, pc, inserts, deletes>>
          /\ pc = "asked" /\ data.status = "pending"
      BY <1>6 DEF FindMany
    <2>2. PICK s \in Orders : /\ IsOrder(s)
                              /\ data' = [status |-> "found", rows |-> Page(s, query),
                                          live |-> Cardinality(Live(table))]
      BY <1>3, <1>6, FindManyReads DEF None
    <2>3. Old /\ Ahead(id)' = Ahead(id)
      BY <2>1 DEF Untied, Ahead
    <2>4. id \in ToSet(Page(s, query)) => Skip(query) <= a /\ a < Skip(query) + size
      BY <1>3, <2>2, <2>3, PageShows
    <2>5. QED BY <1>4, <1>5, <2>1, <2>2, <2>3, <2>4
  <1>7. CASE Count
    <2>1. /\ UNCHANGED <<table, walk, query, data, seen, pc, inserts, deletes>> /\ pc = "asked"
      BY <1>7 DEF Count
    <2>2. Old /\ Ahead(id)' = Ahead(id)
      BY <2>1 DEF Untied, Ahead
    <2>3. QED BY <1>5, <2>1, <2>2
  <1>8. CASE Answer
    <2>1. UNCHANGED <<table, walk, inserts, deletes>> /\ pc = "asked" /\ data.status = "found"
      BY <1>8 DEF Answer
    <2>2. /\ Got(ToSet(data.rows))
          /\ pc' = "asked" => Skip(query') = Skip(query) + size /\ data' = NoData("pending")
      BY <1>1, <1>8, PagesGoOn DEF NextPage
    <2>3. Old /\ Ahead(id)' = Ahead(id)
      BY <2>1 DEF Untied, Ahead
    <2>4. /\ seen'[id] = IF id \in ToSet(data.rows) /\ seen[id] < 2 THEN seen[id] + 1 ELSE seen[id]
          /\ seen[id] \in 0..2
      BY <2>2, <2>3, GotCounts
    <2>5. /\ seen'[id] <= 1
          /\ seen'[id] = 1 => id \in ToSet(data.rows) \/ seen[id] = 1
      BY <1>5, <2>1, <2>3, <2>4
    <2>6. seen'[id] = 1 => a < Skip(query) + size
      BY <1>4, <1>5, <2>1, <2>3, <2>5
    <2>7. pc' = "asked" => ToSet(data'.rows) = {}
      BY <2>2 DEF NoData, ToSet
    <2>8. QED BY <2>2, <2>3, <2>5, <2>6, <2>7
  <1>9. CASE AnswerError
    <2>1. Old
      BY <1>9 DEF AnswerError, Untied
    <2>2. QED BY <1>5, <1>9, <2>1 DEF AnswerError
  <1>10. CASE Insert
    BY <1>3, <1>10 DEF Insert
  <1>11. CASE Delete
    <2>1. UNCHANGED <<walk, query, data, total, seen, pc, inserts>>
      BY <1>11 DEF Delete
    <2>2. DOMAIN table' = DOMAIN table
      BY <1>2, <1>11, DeleteMarks
    <2>3. Old /\ Cardinality(Ahead(id)') <= a /\ Cardinality(Ahead(id)') \in Nat
      BY <1>11, <2>1, <2>2, DeletePulls
    <2>4. QED BY <1>4, <1>5, <2>1, <2>3
  <1>12. CASE UNCHANGED vars
    <2>1. Old /\ Ahead(id)' = Ahead(id)
      BY <1>12 DEF vars, Untied, Ahead
    <2>2. QED BY <1>5, <1>12, <2>1 DEF vars
  <1>13. QED BY <1>6, <1>7, <1>8, <1>9, <1>10, <1>11, <1>12 DEF Next, Done

\* Page boundaries are multiples of pageSize, and none falls between two places
\* of one page.
LEMMA PagesAreWhole ==
    ASSUME Typed, walk = "page", NEW id \in Live(table), OnOnePage(id)
    PROVE  Whole(Skip(query), id) /\ Whole(Skip(query) + query.pageSize, id)
  <1> DEFINE a == Cardinality(Ahead(id))
             e == Cardinality(Peers(id))
             z == query.pageSize
             d == a \div z
             n == query.page
  <1>1. /\ table \in Seq(Row) /\ id \in DOMAIN table
        /\ query \in [page : Nat, pageSize : Nat \ {0}, lastItemId : Nat] /\ n >= 1
    BY TypeFacts, LiveFinite DEF Typed
  <1>2. a \in Nat /\ e \in Nat \ {0} /\ z \in Nat \ {0} /\ n \in Nat \ {0}
    <2>1. a \in Nat /\ e \in Nat /\ IsFiniteSet(Peers(id)) /\ Peers(id) # {}
      BY <1>1, RowsSplit
    <2>2. e # 0
      BY <2>1, FS_EmptySet
    <2>3. QED BY <1>1, <2>1, <2>2
  <1>3. d = (a + e - 1) \div z
    BY DEF OnOnePage
  <1>4. /\ d \in Int /\ z * d <= a /\ a < z * (d + 1)
        /\ a + e - 1 < z * (d + 1) /\ z * (d + 1) \in Int
    BY <1>2, <1>3
  <1> HIDE DEF d
  <1>5. ASSUME NEW m \in Nat PROVE m * z \in Nat /\ (m * z <= a \/ a + e <= m * z)
    <2>1. m * z \in Nat /\ m * z = z * m
      BY <1>2
    <2>2. CASE m <= d
      <3>1. z * m <= z * d
        BY <1>2, <1>4, <2>2
      <3>2. z * d \in Int
        BY <1>2, <1>4
      <3>3. QED BY <1>2, <1>4, <2>1, <3>1, <3>2
    <2>3. CASE m >= d + 1
      <3>1. z * (d + 1) <= z * m
        BY <1>2, <1>4, <2>3
      <3>2. QED BY <1>2, <1>4, <2>1, <3>1
    <2>4. QED BY <1>4, <2>2, <2>3
  <1>6. Skip(query) = (n - 1) * z /\ Skip(query) + z = n * z /\ n - 1 \in Nat
    BY <1>1, <1>2, SkipsWholePages DEF Skip
  <1>7. /\ Skip(query) <= a \/ a + e <= Skip(query)
        /\ Skip(query) + z <= a \/ a + e <= Skip(query) + z
    BY <1>2, <1>5, <1>6
  <1>8. QED BY <1>7 DEF Whole

LEMMA ExactInit == Init => Exact
  <1> SUFFICES ASSUME Init PROVE Exact
    OBVIOUS
  <1>1. pc = "asked" /\ data.status = "pending"
    BY DEF Init, NoData
  <1>2. Skip(query) = 0
    <2>1. PICK size \in PageSizes : query = [page |-> 1, pageSize |-> size, lastItemId |-> None]
      BY DEF Init
    <2>2. size \in Nat
      BY InputsAreTyped
    <2>3. Skip(query) = (1 - 1) * size
      BY <2>1 DEF Skip
    <2>4. QED BY <2>2, <2>3
  <1>3. \A id \in DOMAIN table : seen[id] = 0 /\ Cardinality(Ahead(id)) \in Nat
    BY TypedInit, TypeFacts, AheadCounts DEF Init
  <1>4. QED BY <1>1, <1>2, <1>3 DEF Exact

LEMMA ExactNext == Typed /\ Exact /\ [Next]_vars => Exact'
  <1> SUFFICES ASSUME Typed, Exact, [Next]_vars, walk' = "page", inserts' = 0, deletes' = 0,
                      NEW id \in DOMAIN table', OnOnePage(id)'
               PROVE  LET first == Cardinality(Ahead(id)')
                          end == Skip(query') + query'.pageSize
                      IN /\ pc' = "asked" => seen'[id] = IF first < Skip(query') THEN 1 ELSE 0
                         /\ pc' = "asked" /\ data'.status = "found" =>
                              (id \in ToSet(data'.rows) <=> Skip(query') <= first /\ first < end)
                         /\ pc' = "done" =>
                              total' <= end /\ seen'[id] = IF first < end THEN 1 ELSE 0
    BY DEF Exact
  <1> DEFINE first == Cardinality(Ahead(id))
             size == query.pageSize
  <1>1. walk = "page"
    BY DEF Next, FindMany, Count, Answer, AnswerError, Insert, Delete, Done, vars
  <1>2. table \in Seq(Row) /\ Len(table) \in Nat /\ DOMAIN table = 1..Len(table)
    BY TypeFacts
  <1>3. /\ query.page >= 1 /\ query.lastItemId = None
        /\ inserts \in 0..Len(table) /\ deletes \in Nat
    BY <1>1 DEF Typed
  <1>4. first \in Nat /\ Skip(query) \in Nat /\ size \in Nat \ {0}
    BY <1>2, <1>3, TypeFacts, AheadCounts, SkipsWholePages
  <1>5. UNCHANGED <<table, inserts, deletes>>
    <2>1. ~Insert /\ ~Delete
      BY <1>2, <1>3 DEF Insert, Delete
    <2>2. QED BY <2>1 DEF Next, FindMany, Count, Answer, AnswerError, Done, vars
  <1>6. Ahead(id)' = Ahead(id) /\ Peers(id)' = Peers(id) /\ id \in DOMAIN table
    BY <1>5 DEF Ahead, Peers
  <1>7. size' = size
    <2>1. query \in [page : Nat, pageSize : Nat \ {0}, lastItemId : Nat]
      BY TypeFacts
    <2>2. CASE Answer
      <3>1. query' = query \/ query' = [query EXCEPT !.page = @ + 1]
        BY <1>1, <2>2, PagesGoOn DEF NextPage
      <3>2. QED BY <2>1, <3>1
    <2>3. QED BY <2>2 DEF Next, FindMany, Count, AnswerError, Insert, Delete, Done, vars
  <1>8. OnOnePage(id)
    BY <1>6, <1>7 DEF OnOnePage
  <1>9. /\ pc = "asked" => seen[id] = IF first < Skip(query) THEN 1 ELSE 0
        /\ pc = "asked" /\ data.status = "found" =>
             (id \in ToSet(data.rows) <=> Skip(query) <= first /\ first < Skip(query) + size)
        /\ pc = "done" => /\ total <= Skip(query) + size
                          /\ seen[id] = IF first < Skip(query) + size THEN 1 ELSE 0
    BY <1>1, <1>5, <1>6, <1>8 DEF Exact
  <1>10. CASE FindMany
    <2>1. UNCHANGED <<query, total, seen, pc>> /\ pc = "asked"
      BY <1>10 DEF FindMany
    <2>2. PICK s \in Orders : /\ IsOrder(s)
                              /\ data' = [status |-> "found", rows |-> Page(s, query),
                                          live |-> Cardinality(Live(table))]
      BY <1>3, <1>10, FindManyReads DEF None
    <2>3. id \in Live(table)
      BY <1>2, <1>5, <1>6 DEF Typed, Live
    <2>4. Whole(Skip(query), id) /\ Whole(Skip(query) + query.pageSize, id)
      BY <1>1, <1>8, <2>3, PagesAreWhole
    <2>5. id \in ToSet(Page(s, query)) <=> Skip(query) <= first /\ first < Skip(query) + size
      BY <1>3, <1>6, <2>2, <2>3, <2>4, PageShows
    <2>6. QED BY <1>6, <1>9, <2>1, <2>2, <2>5
  <1>11. CASE Count
    BY <1>6, <1>9, <1>11 DEF Count
  <1>12. CASE Answer
    <2>1. pc = "asked" /\ data.status = "found"
      BY <1>12 DEF Answer
    <2>2. /\ Got(ToSet(data.rows)) /\ pc' \in {"asked", "done"}
          /\ pc' = "asked" => Skip(query') = Skip(query) + size /\ data'.status = "pending"
          /\ pc' = "done" => total <= Skip(query) + size /\ UNCHANGED <<query, data, total>>
      BY <1>1, <1>12, PagesGoOn DEF NextPage, NoData
    <2>3. seen'[id] = IF id \in ToSet(data.rows) /\ seen[id] < 2 THEN seen[id] + 1 ELSE seen[id]
      BY <1>6, <2>2, GotCounts
    <2>4. seen'[id] = IF first < Skip(query) + size THEN 1 ELSE 0
      BY <1>4, <1>9, <2>1, <2>3
    <2>5. QED BY <1>6, <2>2, <2>4
  <1>13. CASE AnswerError
    BY <1>13 DEF AnswerError
  <1>14. CASE Insert
    BY <1>3, <1>14 DEF Insert
  <1>15. CASE Delete
    BY <1>3, <1>15 DEF Delete
  <1>16. CASE UNCHANGED vars
    BY <1>6, <1>9, <1>16 DEF vars
  <1>17. QED BY <1>10, <1>11, <1>12, <1>13, <1>14, <1>15, <1>16 DEF Next, Done

LEMMA CountedNext == Typed /\ Counted /\ [Next]_vars => Counted'
  <1> SUFFICES ASSUME Typed, Counted, [Next]_vars, inserts' = 0, deletes' = 0
               PROVE  /\ total' # Unknown => total' = Cardinality(Live(table'))
                      /\ data'.status = "found" => data'.live = Cardinality(Live(table'))
    BY DEF Counted
  <1>1. inserts \in Nat /\ deletes \in Nat
    <2>1. inserts \in 0..Len(table) /\ deletes \in Nat
      BY DEF Typed
    <2>2. QED BY <2>1
  <1>2. CASE FindMany
    BY <1>2 DEF FindMany, Counted, NoData
  <1>3. CASE Count
    BY <1>3 DEF Count, Counted
  <1>4. CASE Answer
    <2>1. UNCHANGED <<table, inserts, deletes>>
      BY <1>4 DEF Answer
    <2>2. UNCHANGED <<data, total>> \/ (data' = NoData("pending") /\ total' = Unknown)
      BY <1>4 DEF Answer
    <2>3. QED BY <2>1, <2>2 DEF Counted, NoData
  <1>5. CASE AnswerError
    BY <1>5 DEF AnswerError, Counted
  <1>6. CASE Insert
    BY <1>1, <1>6 DEF Insert
  <1>7. CASE Delete
    BY <1>1, <1>7 DEF Delete
  <1>8. CASE UNCHANGED vars
    BY <1>8 DEF vars, Counted
  <1>9. QED BY <1>2, <1>3, <1>4, <1>5, <1>6, <1>7, <1>8 DEF Next, Done

\* A walk by pages that ends while no row was deleted has shown every row that
\* was there when it began, ties apart, but for as many of the last rows as came
\* between its last count and its last page: createMany only pushes rows to pages
\* not yet asked for.
THEOREM OnlyUncountedAreHidden == Spec => []InsertsHideOnlyUncounted
  <1>1. Unseen => InsertsHideOnlyUncounted
    BY DEF Unseen, InsertsHideOnlyUncounted
  <1>2. QED BY <1>1, TypedInit, TypedNext, UnseenInit, UnseenNext, PTL DEF Spec

\* A walk by pages shows no row twice while none is created, ties apart: the
\* soft delete only pulls rows to pages already asked for.
THEOREM NothingIsRepeated == Spec => []DeletesRepeatNothing
  <1>1. Shown => DeletesRepeatNothing
    BY DEF Shown, DeletesRepeatNothing
  <1>2. QED BY <1>1, TypedInit, TypedNext, ShownInit, ShownNext, PTL DEF Spec

\* A walk by pages over a list that does not change shows every row once, except
\* where a page ends in the midst of rows created together: skip and take cut the
\* order into pages, and totalPages is how many.
THEOREM QuietWalksAreExact == Spec => []QuietWalkIsExact
  <1>1. Init => Counted
    BY DEF Init, Counted, NoData
  <1>2. Typed /\ Exact /\ Counted => QuietWalkIsExact
    <2> SUFFICES ASSUME Typed, Exact, Counted, pc = "done", walk = "page",
                        inserts = 0, deletes = 0, NEW id \in Live(table), OnOnePage(id)
                 PROVE  seen[id] = 1
      BY DEF QuietWalkIsExact
    <2> DEFINE first == Cardinality(Ahead(id))
               end == Skip(query) + query.pageSize
    <2>1. table \in Seq(Row) /\ id \in DOMAIN table
      BY TypeFacts, LiveFinite
    <2>2. total = Cardinality(Live(table))
      BY DEF Typed, Counted
    <2>3. total <= end /\ seen[id] = IF first < end THEN 1 ELSE 0
      BY <2>1 DEF Exact
    <2>4. first < Cardinality(Live(table)) /\ first \in Nat /\ Cardinality(Live(table)) \in Nat
      <3> DEFINE rest == Cardinality(NoNewer(id))
      <3>1. /\ first \in Nat /\ rest \in Nat /\ first + rest = Cardinality(Live(table))
            /\ IsFiniteSet(NoNewer(id)) /\ NoNewer(id) # {}
        BY <2>1, RowsSplit
      <3>2. rest # 0
        BY <3>1, FS_EmptySet
      <3>3. QED BY <3>1, <3>2
    <2>5. end \in Int
      <3>1. query \in [page : Nat, pageSize : Nat \ {0}, lastItemId : Nat] /\ query.page >= 1
        BY TypeFacts DEF Typed
      <3>2. Skip(query) \in Nat /\ query.pageSize \in Nat
        BY <3>1, SkipsWholePages
      <3>3. QED BY <3>2
    <2> HIDE DEF first, end
    <2>6. first < end
      BY <2>2, <2>3, <2>4, <2>5
    <2>7. QED BY <2>3, <2>6
  <1>3. QED BY <1>1, <1>2, TypedInit, TypedNext, ExactInit, ExactNext, CountedNext, PTL DEF Spec
-----------------------------------------------------------------------------
(* Walks by cursors.                                                          *)

\* The page after a cursor that is still there is a stretch of the order.
LEMMA CursorPageIsStretch ==
    ASSUME Typed, NEW s, IsOrder(s), query.page = 1,
           query.lastItemId = None \/ query.lastItemId \in Live(table)
    PROVE  LET c == query.lastItemId
               P == Page(s, query)
           IN /\ P \in Seq(Live(table)) /\ Len(P) \in Nat /\ Len(P) <= query.pageSize
              /\ \E k \in Nat \ {0} :
                   /\ c = None => k = 1
                   /\ c # None => k \in 1..Len(s) /\ s[k] = c
                   /\ \A i \in 1..query.pageSize : i <= Len(P) <=> k + i - 1 <= Len(s)
                   /\ \A i \in 1..Len(P) : P[i] = s[k + i - 1]
  <1> DEFINE c == query.lastItemId
             r == FromCursor(s, c)
             P == Page(s, query)
             size == query.pageSize
  <1>1. /\ table \in Seq(Row) /\ c \in Nat
        /\ query \in [page : Nat, pageSize : Nat \ {0}, lastItemId : Nat]
    BY TypeFacts
  <1>2. size \in Nat \ {0}
    BY <1>1
  <1>3. Skip(query) = 0
    <2>1. Skip(query) = (1 - 1) * size
      BY DEF Skip
    <2>2. QED BY <1>2, <2>1
  <1>4. /\ r \in Seq(Live(table))
        /\ c = None => r = s
        /\ c # None =>
             \E k \in 1..Len(s) : /\ s[k] = c /\ Len(r) = Len(s) - k + 1
                                  /\ \A i \in 1..(Len(s) - k + 1) : r[i] = s[k + i - 1]
    <2>1. table \in Seq(Row) /\ c \in Nat
      BY <1>1
    <2> HIDE DEF c
    <2>2. /\ r \in Seq(Live(table))
          /\ c = None => r = s
      BY <2>1, CursorCuts
    <2>3. ASSUME c # None
          PROVE  \E k \in 1..Len(s) : /\ s[k] = c /\ Len(r) = Len(s) - k + 1
                                      /\ \A i \in 1..(Len(s) - k + 1) : r[i] = s[k + i - 1]
      <3>1. c \in Live(table)
        BY <2>3 DEF c
      <3>2. QED BY <2>1, <2>3, <3>1, CursorCuts
    <2>4. QED BY <2>2, <2>3
  <1>5. /\ P \in Seq(Live(table)) /\ Len(P) <= size
        /\ \A i \in 1..size : i <= Len(P) <=> 0 + i <= Len(r)
        /\ \A i \in 1..Len(P) : P[i] = r[0 + i]
    BY <1>1, <1>3, <1>4, PageCuts
  <1>6. s \in Seq(Live(table))
    BY DEF IsOrder
  <1>7. Len(P) \in Nat /\ Len(r) \in Nat /\ Len(s) \in Nat
    BY <1>4, <1>5, <1>6, LenProperties
  <1>8. \E k \in Nat \ {0} :
           /\ c = None => k = 1
           /\ c # None => k \in 1..Len(s) /\ s[k] = c
           /\ Len(r) = Len(s) - k + 1
           /\ \A i \in 1..Len(r) : r[i] = s[k + i - 1]
    <2>1. CASE c = None
      <3>1. \A i \in 1..Len(r) : 1 + i - 1 = i
        BY <1>7
      <3>2. Len(r) = Len(s) - 1 + 1 /\ \A i \in 1..Len(r) : r[i] = s[1 + i - 1]
        BY <1>4, <1>7, <2>1, <3>1
      <3>3. QED BY <2>1, <3>2
    <2>2. CASE c # None
      <3>1. PICK k \in 1..Len(s) : /\ s[k] = c /\ Len(r) = Len(s) - k + 1
                                   /\ \A i \in 1..(Len(s) - k + 1) : r[i] = s[k + i - 1]
        BY <1>4, <2>2
      <3>2. k \in Nat \ {0} /\ 1..Len(r) = 1..(Len(s) - k + 1)
        BY <1>7, <3>1
      <3>3. QED BY <2>2, <3>1, <3>2
    <2>3. QED BY <2>1, <2>2
  <1> HIDE DEF c, r, P, size
  <1>9. PICK k \in Nat \ {0} :
           /\ c = None => k = 1
           /\ c # None => k \in 1..Len(s) /\ s[k] = c
           /\ Len(r) = Len(s) - k + 1
           /\ \A i \in 1..Len(r) : r[i] = s[k + i - 1]
    BY <1>8
  <1>10. \A i \in 1..size : i <= Len(P) <=> k + i - 1 <= Len(s)
    BY <1>2, <1>5, <1>7, <1>9
  <1>11. ASSUME NEW i \in 1..Len(P) PROVE P[i] = s[k + i - 1]
    <2>1. i \in 1..size /\ i \in Nat /\ 0 + i = i
      BY <1>2, <1>5, <1>7
    <2>2. i \in 1..Len(r)
      BY <1>5, <1>7, <2>1
    <2>3. P[i] = r[i]
      BY <1>5, <2>1
    <2>4. QED BY <1>9, <2>2, <2>3
  <1>12. QED BY <1>5, <1>7, <1>9, <1>10, <1>11 DEF c, P, size

\* What it shows: the rows from the cursor down to the last of the page.
LEMMA CursorPageShows ==
    ASSUME Typed, NEW s, IsOrder(s), query.page = 1,
           query.lastItemId = None \/ query.lastItemId \in Live(table)
    PROVE  LET c == query.lastItemId
               P == Page(s, query)
           IN /\ Len(P) = query.pageSize => Reached(c, Last(P))
              /\ \A id \in Live(table) : Untied(id) =>
                   (id \in ToSet(P) <=>
                      /\ Reached(c, id)
                      /\ Len(P) = query.pageSize => table[id].created >= table[Last(P)].created)
  <1> DEFINE c == query.lastItemId
             P == Page(s, query)
             size == query.pageSize
             n == Len(s)
             T(i) == table[i].created
  <1>1. /\ \A i \in Live(table) : T(i) \in Nat /\ i \in DOMAIN table
        /\ size \in Nat \ {0}
    BY TypeFacts, LiveFinite DEF Row
  <1>2. /\ s \in Seq(Live(table))
        /\ \A id \in Live(table) : \E k \in 1..n : s[k] = id
        /\ \A j, k \in 1..n : j < k => s[j] # s[k] /\ T(s[j]) >= T(s[k])
    BY DEF IsOrder
  <1>3. n \in Nat /\ \A j \in 1..n : s[j] \in Live(table)
    BY <1>2, LenProperties, ElementOfSeq
  <1>4. PICK k \in Nat \ {0} :
           /\ P \in Seq(Live(table)) /\ Len(P) \in Nat /\ Len(P) <= size
           /\ c = None => k = 1
           /\ c # None => k \in 1..n /\ s[k] = c
           /\ \A i \in 1..size : i <= Len(P) <=> k + i - 1 <= n
           /\ \A i \in 1..Len(P) : P[i] = s[k + i - 1]
    BY CursorPageIsStretch
  <1>5. Last(P) = P[Len(P)]
    BY DEF Last
  <1>6. ToSet(P) = {P[i] : i \in 1..Len(P)}
    <2>1. DOMAIN P = 1..Len(P)
      BY <1>4, LenProperties
    <2>2. QED BY <2>1 DEF ToSet
  <1> HIDE DEF c, P, size, n, T
  <1>7. ASSUME NEW j \in 1..n, k <= j PROVE Reached(c, s[j])
    <2>1. c # None => T(s[j]) <= T(s[k])
      BY <1>1, <1>2, <1>3, <1>4, <1>7
    <2>2. QED BY <1>4, <2>1 DEF Reached, T
  <1>8. ASSUME Len(P) = size PROVE k + size - 1 \in 1..n /\ Last(P) = s[k + size - 1] /\ k <= k + size - 1
    BY <1>1, <1>3, <1>4, <1>5, <1>8
  <1>9. ASSUME NEW j \in 1..n, Untied(s[j])
        PROVE  s[j] \in ToSet(P) <=>
                 Reached(c, s[j]) /\ (Len(P) = size => T(s[j]) >= T(Last(P)))
    <2>1. ASSUME s[j] \in ToSet(P) PROVE k <= j /\ j <= k + Len(P) - 1
      <3>1. PICK i \in 1..Len(P) : s[j] = P[i]
        BY <1>6, <2>1
      <3>2. i \in 1..size /\ k + i - 1 \in 1..n /\ s[j] = s[k + i - 1]
        BY <1>1, <1>3, <1>4, <3>1
      <3>3. j = k + i - 1
        BY <1>2, <1>3, <3>2
      <3>4. QED BY <1>4, <3>2, <3>3
    <2>2. ASSUME k <= j, j <= k + Len(P) - 1 PROVE s[j] \in ToSet(P)
      <3>1. j - k + 1 \in 1..Len(P) /\ k + (j - k + 1) - 1 = j
        BY <1>3, <1>4, <2>2
      <3>2. P[j - k + 1] = s[j]
        BY <1>4, <3>1
      <3>3. QED BY <1>6, <3>1, <3>2
    <2>3. ASSUME k <= j, j <= k + Len(P) - 1, Len(P) = size PROVE T(s[j]) >= T(Last(P))
      <3>1. j <= k + size - 1 /\ k + size - 1 \in 1..n /\ Last(P) = s[k + size - 1]
        BY <1>8, <2>3
      <3>2. CASE j = k + size - 1
        BY <1>1, <1>3, <3>1, <3>2
      <3>3. CASE j < k + size - 1
        BY <1>2, <3>1, <3>3
      <3>4. QED BY <1>1, <1>3, <1>4, <3>1, <3>2, <3>3
    <2>4. ASSUME Reached(c, s[j]) PROVE k <= j
      <3>1. SUFFICES ASSUME j < k PROVE FALSE
        BY <1>3, <1>4
      <3>2. c # None /\ k \in 1..n /\ s[k] = c
        BY <1>3, <1>4, <3>1
      <3>3. T(s[j]) = T(s[k]) /\ s[j] # s[k]
        BY <1>1, <1>2, <1>3, <2>4, <3>1, <3>2 DEF Reached, T
      <3>4. QED BY <1>1, <1>3, <1>9, <3>2, <3>3 DEF Untied, T
    <2>5. ASSUME k <= j, Len(P) = size, T(s[j]) >= T(Last(P)) PROVE j <= k + Len(P) - 1
      <3>1. k + size - 1 \in 1..n /\ Last(P) = s[k + size - 1]
        BY <1>8, <2>5
      <3>2. SUFFICES ASSUME k + size - 1 < j PROVE FALSE
        BY <1>1, <1>3, <1>4, <2>5, <3>1
      <3>3. T(s[j]) = T(s[k + size - 1]) /\ s[j] # s[k + size - 1]
        BY <1>1, <1>2, <1>3, <2>5, <3>1, <3>2
      <3>4. QED BY <1>1, <1>3, <1>9, <3>1, <3>3 DEF Untied, T
    <2>6. ASSUME k <= j, Len(P) # size PROVE j <= k + Len(P) - 1
      <3>1. Len(P) + 1 \in 1..size /\ ~(Len(P) + 1 <= Len(P))
        BY <1>1, <1>4, <2>6
      <3>2. ~(k + (Len(P) + 1) - 1 <= n)
        BY <1>4, <3>1
      <3>3. QED BY <1>3, <1>4, <3>2
    <2>7. ASSUME s[j] \in ToSet(P)
          PROVE  Reached(c, s[j]) /\ (Len(P) = size => T(s[j]) >= T(Last(P)))
      BY <1>7, <2>1, <2>3, <2>7
    <2>8. ASSUME Reached(c, s[j]), Len(P) = size => T(s[j]) >= T(Last(P))
          PROVE  s[j] \in ToSet(P)
      BY <2>2, <2>4, <2>5, <2>6, <2>8
    <2>9. QED BY <2>7, <2>8
  <1>10. Len(P) = size => Reached(c, Last(P))
    BY <1>7, <1>8
  <1>11. \A id \in Live(table) : Untied(id) =>
            (id \in ToSet(P) <=>
               Reached(c, id) /\ (Len(P) = size => T(id) >= T(Last(P))))
    BY <1>2, <1>9 DEF n
  <1>12. QED BY <1>10, <1>11 DEF c, P, size, T

\* No row follows a cursor that is gone.
LEMMA LostCursorFindsNothing ==
    ASSUME Typed, NEW s, IsOrder(s), query.page = 1, Lost
    PROVE  Page(s, query) = << >>
  <1> DEFINE c == query.lastItemId
             P == Page(s, query)
  <1>1. /\ table \in Seq(Row) /\ c \in Nat
        /\ query \in [page : Nat, pageSize : Nat \ {0}, lastItemId : Nat]
    BY TypeFacts
  <1>2. FromCursor(s, c) = << >> /\ << >> \in Seq(Live(table))
    BY <1>1, CursorCuts DEF Lost
  <1>3. /\ P \in Seq(Live(table))
        /\ \A i \in 1..query.pageSize : i <= Len(P) <=> Skip(query) + i <= 0
    <2>1. Len(<< >>) = 0 /\ query.page >= 1
      OBVIOUS
    <2>2. FromCursor(s, query.lastItemId) \in Seq(Live(table))
      BY <1>2
    <2>3. /\ P \in Seq(Live(table))
          /\ \A i \in 1..query.pageSize :
               i <= Len(P) <=> Skip(query) + i <= Len(FromCursor(s, query.lastItemId))
      BY <1>1, <2>1, <2>2, PageCuts
    <2>4. QED BY <1>2, <2>1, <2>3
  <1>4. Len(P) \in Nat /\ Skip(query) \in Nat /\ 1 \in 1..query.pageSize
    <2>1. Len(P) \in Nat
      BY <1>3, LenProperties
    <2>2. Skip(query) \in Nat
      <3>1. query.page >= 1
        OBVIOUS
      <3>2. QED BY <1>1, <3>1, SkipsWholePages
    <2>3. 1 \in 1..query.pageSize
      BY <1>1
    <2>4. QED BY <2>1, <2>2, <2>3
  <1>5. Len(P) = 0
    BY <1>3, <1>4
  <1>6. QED BY <1>3, <1>5, EmptySeq

\* An answer to a walk by cursors.
LEMMA CursorsGoOn ==
    ASSUME Typed, Answer, walk = "cursor"
    PROVE  /\ UNCHANGED <<table, walk, inserts, deletes>>
           /\ pc = "asked" /\ data.status = "found"
           /\ Got(ToSet(data.rows) \ {query.lastItemId})
           /\ IF Len(data.rows) = query.pageSize
              THEN /\ pc' = "asked" /\ data' = NoData("pending")
                   /\ query'.lastItemId = Last(data.rows)
              ELSE pc' = "done" /\ UNCHANGED <<query, data>>
  <1>1. /\ UNCHANGED <<table, walk, inserts, deletes>> /\ pc = "asked" /\ data.status = "found"
        /\ NextCursor(1)
    BY DEF Answer, NextPage
  <1>2. CASE Len(data.rows) = query.pageSize
    <2>1. /\ query' = [query EXCEPT !.lastItemId = Last(data.rows), !.page = 1]
          /\ UNCHANGED pc
      BY <1>1, <1>2, Zenon DEF NextCursor
    <2>2. pc' = "asked"
      BY <1>1, <2>1
    <2>3. query'.lastItemId = Last(data.rows)
      <3>1. query \in [page : Nat, pageSize : Nat \ {0}, lastItemId : Nat]
        BY TypeFacts
      <3> DEFINE l == Last(data.rows)
      <3> HIDE DEF l
      <3>2. [query EXCEPT !.lastItemId = l, !.page = 1].lastItemId = l
        BY <3>1
      <3>3. QED BY <2>1, <3>2 DEF l
    <2>4. QED BY <1>1, <1>2, <2>2, <2>3 DEF NextCursor, Answer
  <1>3. CASE Len(data.rows) # query.pageSize
    <2>1. pc' = "done" /\ UNCHANGED query
      BY <1>1, <1>3 DEF NextCursor
    <2>2. QED BY <1>1, <1>3, <2>1 DEF NextCursor, Answer
  <1>4. QED BY <1>2, <1>3

LEMMA FollowedInit == Init => Followed
  <1> SUFFICES ASSUME Init PROVE Following
    BY DEF Followed
  <1>1. pc = "asked" /\ data.status = "pending" /\ query.lastItemId = None
    BY DEF Init, NoData
  <1>2. \A id \in DOMAIN table : seen[id] = 0
    BY DEF Init
  <1>3. Live(table) \subseteq DOMAIN table
    BY TypedInit, TypeFacts, LiveFinite
  <1>4. QED BY <1>1, <1>2, <1>3 DEF Following, ShownSoFar, ShownToCursor

LEMMA FollowedFindMany == Typed /\ Followed /\ FindMany => Followed'
  <1> SUFFICES ASSUME Typed, Followed, FindMany, walk = "cursor" PROVE Followed'
    BY DEF Followed, FindMany
  <1>1. /\ UNCHANGED <<table, walk, query, total, seen, pc, inserts, deletes>>
        /\ pc = "asked" /\ data.status = "pending"
    BY DEF FindMany
  <1>2. query.page = 1
    BY DEF Typed
  <1>3. PICK s \in Orders : /\ IsOrder(s)
                            /\ data' = [status |-> "found", rows |-> Page(s, query),
                                        live |-> Cardinality(Live(table))]
    BY <1>2, FindManyReads DEF None
  <1>4. CASE Lost
    <2>1. data'.rows = << >> /\ data'.status = "found"
      BY <1>2, <1>3, <1>4, LostCursorFindsNothing
    <2>2. Following
      BY <1>1 DEF Followed, StoppedShort
    <2>3. \A id \in Live(table) \cap 1..(Len(table) - inserts) : Untied(id) => ShownToCursor(id)
      BY <1>1, <2>2 DEF Following, ShownSoFar
    <2>4. StoppedShort'
      BY <1>1, <1>4, <2>1, <2>3 DEF StoppedShort, Lost, ShownToCursor, Untied
    <2>5. QED BY <2>4 DEF Followed
  <1>5. CASE ~Lost
    <2> DEFINE c == query.lastItemId
               P == Page(s, query)
    <2>1. Following
      BY <1>1, <1>5 DEF Followed, StoppedShort
    <2>2. /\ Len(P) = query.pageSize => Reached(c, Last(P))
          /\ \A id \in Live(table) : Untied(id) =>
               (id \in ToSet(P) <=>
                  /\ Reached(c, id)
                  /\ Len(P) = query.pageSize => table[id].created >= table[Last(P)].created)
      BY <1>2, <1>3, <1>5, CursorPageShows DEF Lost
    <2>3. data'.rows = P /\ data'.status = "found"
      BY <1>3
    <2>4. ASSUME NEW id \in Live(table)' \cap 1..(Len(table') - inserts'), Untied(id)'
          PROVE  ShownSoFar(id)'
      <3>1. id \in Live(table) \cap 1..(Len(table) - inserts) /\ Untied(id)
        BY <1>1, <2>4 DEF Untied
      <3>2. ShownSoFar(id)
        BY <2>1, <3>1 DEF Following
      <3>3. QED BY <1>1, <2>2, <2>3, <3>1, <3>2 DEF ShownSoFar, ShownToCursor, Reached
    <2>5. Following'
      BY <1>1, <2>2, <2>3, <2>4 DEF Following, Reached
    <2>6. QED BY <2>5 DEF Followed
  <1>6. QED BY <1>4, <1>5

LEMMA FollowedAnswer == Typed /\ Followed /\ Answer => Followed'
  <1> SUFFICES ASSUME Typed, Followed, Answer, walk = "cursor" PROVE Followed'
    BY DEF Followed, Answer
  <1> DEFINE c == query.lastItemId
             rows == data.rows
             size == query.pageSize
  <1>1. /\ UNCHANGED <<table, walk, inserts, deletes>>
        /\ pc = "asked" /\ data.status = "found"
        /\ Got(ToSet(rows) \ {c})
        /\ IF Len(rows) = size
           THEN pc' = "asked" /\ data' = NoData("pending") /\ query'.lastItemId = Last(rows)
           ELSE pc' = "done" /\ UNCHANGED <<query, data>>
    BY CursorsGoOn
  <1>2. CASE StoppedShort
    <2>1. Lost /\ rows = << >>
      BY <1>1, <1>2 DEF StoppedShort
    <2>2. Len(rows) # size
      <3>1. size \in Nat \ {0} /\ Len(rows) = 0
        BY <2>1, TypeFacts
      <3>2. QED BY <3>1
    <2>3. Lost' /\ pc' = "done" /\ UNCHANGED query
      BY <1>1, <2>1, <2>2 DEF Lost
    <2>4. \A id \in Live(table) : seen'[id] = seen[id]
      <3>1. ToSet(rows) = {} /\ Live(table) \subseteq DOMAIN table
        BY <2>1, TypeFacts, LiveFinite DEF ToSet
      <3>2. QED BY <1>1, <3>1, GotCounts
    <2>5. StoppedShort'
      BY <1>1, <1>2, <2>3, <2>4 DEF StoppedShort, ShownToCursor, Untied
    <2>6. QED BY <2>5 DEF Followed
  <1>3. CASE Following
    <2> DEFINE T(i) == table[i].created
    <2>1. /\ table \in Seq(Row) /\ DOMAIN table = 1..Len(table) /\ Len(table) \in Nat
          /\ c \in DOMAIN table \cup {None}
      BY TypeFacts
    <2>2. \A i \in DOMAIN table : T(i) \in Nat /\ i # None
      <3>1. \A i \in 1..Len(table) : table[i] \in Row
        BY <2>1, LiveFinite
      <3>2. QED BY <2>1, <3>1 DEF Row, None
    <2>3. Len(rows) = size => Last(rows) \in DOMAIN table /\ Reached(c, Last(rows))
      BY <1>1, <1>3, LastIsShown DEF Following
    <2>4. ASSUME NEW id \in Live(table) \cap 1..(Len(table) - inserts), Untied(id)
          PROVE  ShownSoFar(id)'
      <3>1. id \in DOMAIN table /\ id # None
        BY <2>1, <2>2 DEF Live
      <3>2. ShownSoFar(id)
        BY <1>3, <2>4 DEF Following
      <3>3. /\ seen[id] = IF c # None /\ T(id) >= T(c) THEN 1 ELSE 0
            /\ id \in ToSet(rows) <=> Reached(c, id) /\ (Len(rows) = size => T(id) >= T(Last(rows)))
        BY <1>1, <3>2 DEF ShownSoFar, ShownToCursor
      <3>4. seen'[id] = IF id \in ToSet(rows) \ {c} THEN seen[id] + 1 ELSE seen[id]
        <4>1. seen[id] < 2
          BY <3>3
        <4>2. QED BY <1>1, <3>1, <4>1, GotCounts
      <3>5. id # c /\ c # None => T(id) # T(c)
        BY <2>1, <2>4, <3>1 DEF Untied
      <3>6. Reached(c, id) <=> c = None \/ T(id) <= T(c)
        BY DEF Reached
      <3>7. CASE Len(rows) = size
        <4> DEFINE l == Last(rows)
        <4>1. /\ pc' = "asked" /\ data'.status = "pending" /\ query'.lastItemId = l
              /\ l \in DOMAIN table /\ l # None /\ (c = None \/ T(l) <= T(c))
          BY <1>1, <2>2, <2>3, <3>7 DEF NoData, Reached
        <4> HIDE DEF l, c, rows
        <4>2. seen'[id] = IF T(id) >= T(l) THEN 1 ELSE 0
          <5>1. T(id) \in Nat /\ T(l) \in Nat /\ (c # None => T(c) \in Nat)
            BY <2>1, <2>2, <3>1, <4>1
          <5>2. id \in ToSet(rows) <=> (c = None \/ T(id) <= T(c)) /\ T(id) >= T(l)
            BY <3>3, <3>6, <3>7 DEF l
          <5>3. CASE c = None
            BY <3>1, <3>3, <3>4, <5>2, <5>3
          <5>4. CASE c # None /\ T(id) > T(c)
            BY <3>3, <3>4, <4>1, <5>1, <5>2, <5>4
          <5>5. CASE c # None /\ id = c
            BY <3>3, <3>4, <4>1, <5>1, <5>5
          <5>6. CASE c # None /\ T(id) < T(c)
            BY <3>3, <3>4, <5>1, <5>2, <5>6
          <5>7. QED BY <3>5, <5>1, <5>3, <5>4, <5>5, <5>6
        <4>3. QED BY <1>1, <4>1, <4>2 DEF ShownSoFar, ShownToCursor
      <3>8. CASE Len(rows) # size
        <4>1. pc' = "done"
          BY <1>1, <3>8
        <4> HIDE DEF c, rows
        <4>2. seen'[id] = 1
          <5>1. T(id) \in Nat /\ (c # None => T(c) \in Nat)
            BY <2>1, <2>2, <3>1
          <5>2. id \in ToSet(rows) <=> (c = None \/ T(id) <= T(c))
            BY <3>3, <3>6, <3>8
          <5>3. QED BY <3>1, <3>3, <3>4, <3>5, <5>1, <5>2
        <4>3. QED BY <4>1, <4>2 DEF ShownSoFar, ShownToCursor
      <3>9. QED BY <3>7, <3>8
    <2>5. pc' = "asked" => data'.status # "found"
      BY <1>1 DEF NoData
    <2>6. \A id \in Live(table)' \cap 1..(Len(table') - inserts') : Untied(id)' => ShownSoFar(id)'
      BY <1>1, <2>4 DEF Untied
    <2>7. QED BY <2>5, <2>6 DEF Following, Followed
  <1>4. QED BY <1>2, <1>3 DEF Followed

LEMMA FollowedInsert == Typed /\ Followed /\ Insert => Followed'
  <1> SUFFICES ASSUME Typed, Followed, Insert, walk = "cursor" PROVE Followed'
    BY DEF Followed, Insert
  <1> DEFINE c == query.lastItemId
  <1>1. UNCHANGED <<walk, query, data, total, pc, deletes>>
    BY DEF Insert
  <1>2. /\ table \in Seq(Row) /\ DOMAIN table = 1..Len(table) /\ Len(table) \in Nat
        /\ c \in DOMAIN table \cup {None} /\ inserts \in 0..Len(table)
    BY TypeFacts DEF Typed
  <1>3. \A id \in DOMAIN table :
          /\ Untied(id)' => Untied(id)
          /\ seen'[id] = seen[id] /\ table'[id] = table[id]
          /\ id \in Live(table)' <=> id \in Live(table)
    BY InsertPushes
  <1>4. ASSUME NEW id \in Live(table)' \cap 1..(Len(table') - inserts'), Untied(id)'
        PROVE  /\ id \in DOMAIN table /\ id \in Live(table) \cap 1..(Len(table) - inserts)
               /\ Untied(id)
    <2>1. Len(table') - inserts' = Len(table) - inserts
      BY <1>2, InsertAdds DEF Insert
    <2>2. id \in DOMAIN table
      BY <1>2, <1>4, <2>1
    <2>3. QED BY <1>3, <1>4, <2>1, <2>2
  <1>5. CASE StoppedShort
    <2>1. Lost'
      BY <1>1, <1>2, <1>3, <1>5 DEF Lost, StoppedShort
    <2>2. ASSUME NEW id \in Live(table)' \cap 1..(Len(table') - inserts'), Untied(id)'
          PROVE  ShownToCursor(id)'
      <3>1. id \in DOMAIN table /\ ShownToCursor(id)
        BY <1>4, <1>5, <2>2 DEF StoppedShort
      <3>2. QED BY <1>1, <1>2, <1>3, <3>1 DEF ShownToCursor
    <2>3. QED BY <1>1, <1>5, <2>1, <2>2 DEF Followed, StoppedShort
  <1>6. CASE Following
    <2>1. \A i \in DOMAIN table : Reached(c, i)' <=> Reached(c, i)
      BY <1>1, <1>2, <1>3 DEF Reached
    <2>2. Len(data.rows) = query.pageSize => Last(data.rows) \in DOMAIN table
      BY LastIsShown
    <2>3. ASSUME NEW id \in Live(table)' \cap 1..(Len(table') - inserts'), Untied(id)'
          PROVE  ShownSoFar(id)'
      <3>1. id \in DOMAIN table /\ ShownSoFar(id)
        BY <1>4, <1>6, <2>3 DEF Following
      <3>2. QED BY <1>1, <1>2, <1>3, <2>1, <2>2, <3>1 DEF ShownSoFar, ShownToCursor
    <2>4. QED BY <1>1, <1>6, <2>1, <2>2, <2>3 DEF Following, Followed
  <1>7. QED BY <1>5, <1>6 DEF Followed

LEMMA FollowedDelete == Typed /\ Followed /\ Delete => Followed'
  <1> SUFFICES ASSUME Typed, Followed, Delete, walk = "cursor" PROVE Followed'
    BY DEF Followed, Delete
  <1> DEFINE c == query.lastItemId
  <1>1. UNCHANGED <<walk, query, data, total, seen, pc, inserts>>
    BY DEF Delete
  <1>2. /\ table \in Seq(Row) /\ DOMAIN table = 1..Len(table) /\ Len(table) \in Nat
        /\ c \in DOMAIN table \cup {None}
    BY TypeFacts
  <1>3. /\ Len(table') = Len(table) /\ DOMAIN table' = DOMAIN table
        /\ Live(table') \subseteq Live(table) /\ Live(table) \subseteq DOMAIN table
        /\ \A id \in DOMAIN table : table'[id].created = table[id].created
    BY <1>2, DeleteMarks, LiveFinite
  <1>4. CASE StoppedShort
    <2>1. Lost'
      BY <1>1, <1>3, <1>4 DEF Lost, StoppedShort
    <2>2. ASSUME NEW id \in Live(table)' \cap 1..(Len(table') - inserts'), Untied(id)'
          PROVE  ShownToCursor(id)'
      <3>1. /\ id \in DOMAIN table /\ id \in Live(table) \cap 1..(Len(table) - inserts)
            /\ Untied(id)
        BY <1>1, <1>3, <2>2 DEF Untied
      <3>2. ShownToCursor(id)
        BY <1>4, <3>1 DEF StoppedShort
      <3>3. QED BY <1>1, <1>2, <1>3, <3>1, <3>2 DEF ShownToCursor
    <2>3. QED BY <1>1, <1>4, <2>1, <2>2 DEF Followed, StoppedShort
  <1>5. CASE Following
    <2>1. \A i \in DOMAIN table : Reached(c, i)' <=> Reached(c, i)
      BY <1>1, <1>2, <1>3 DEF Reached
    <2>2. Len(data.rows) = query.pageSize => Last(data.rows) \in DOMAIN table
      BY LastIsShown
    <2>3. ASSUME NEW id \in Live(table)' \cap 1..(Len(table') - inserts'), Untied(id)'
          PROVE  ShownSoFar(id)'
      <3>1. id \in Live(table) \cap 1..(Len(table) - inserts) /\ Untied(id) /\ id \in DOMAIN table
        BY <1>1, <1>3, <2>3 DEF Untied
      <3>2. ShownSoFar(id)
        BY <1>5, <3>1 DEF Following
      <3>3. QED BY <1>1, <1>2, <1>3, <2>1, <2>2, <3>1, <3>2 DEF ShownSoFar, ShownToCursor
    <2>4. QED BY <1>1, <1>5, <2>1, <2>2, <2>3 DEF Following, Followed
  <1>6. QED BY <1>4, <1>5 DEF Followed

LEMMA FollowedNext == Typed /\ Followed /\ [Next]_vars => Followed'
  <1> SUFFICES ASSUME Typed, Followed, [Next]_vars PROVE Followed'
    OBVIOUS
  <1>1. CASE Count
    BY <1>1 DEF Count, Followed, Following, StoppedShort, ShownSoFar,
                       ShownToCursor, Lost, Reached, Untied
  <1>2. CASE AnswerError
    <2>1. ASSUME walk = "cursor" PROVE FALSE
      BY <1>2, <2>1 DEF AnswerError, Typed, Refused, None
    <2>2. QED BY <1>2, <2>1 DEF AnswerError, Followed
  <1>3. CASE UNCHANGED vars
    BY <1>3 DEF vars, Followed, Following, StoppedShort, ShownSoFar,
                       ShownToCursor, Lost, Reached, Untied
  <1>4. QED BY <1>1, <1>2, <1>3, FollowedFindMany, FollowedAnswer, FollowedInsert,
               FollowedDelete DEF Next, Done

\* A walk by cursors that ends shows every row once that was there throughout,
\* ties apart, and after the loss of its cursor at least those before it: the rows
\* above the cursor have been shown, and findMany starts at it.
THEOREM CursorsMissNothing == Spec => []CursorMissesNothing
  <1>1. Typed /\ Followed => CursorMissesNothing
    <2> SUFFICES ASSUME Typed, Followed, pc = "done", walk = "cursor",
                        NEW id \in Live(table) \cap 1..(Len(table) - inserts), Untied(id)
                 PROVE  \/ seen[id] = 1
                        \/ /\ seen[id] = 0 /\ Lost
                           /\ table[id].created < table[query.lastItemId].created
      BY DEF CursorMissesNothing
    <2>1. CASE StoppedShort
      <3> DEFINE c == query.lastItemId
      <3>1. \A i \in DOMAIN table : table[i].created \in Nat
        BY TypeFacts, LiveFinite DEF Row
      <3>2. c # None /\ c \in DOMAIN table /\ id \in DOMAIN table /\ Lost
        BY <2>1, TypeFacts, LiveFinite DEF StoppedShort, Lost
      <3>3. seen[id] = IF table[id].created >= table[c].created THEN 1 ELSE 0
        BY <2>1, <3>2 DEF StoppedShort, ShownToCursor
      <3>4. QED BY <3>1, <3>2, <3>3
    <2>2. CASE Following
      BY <2>2 DEF Following, ShownSoFar
    <2>3. QED BY <2>1, <2>2 DEF Followed
  <1>2. QED BY <1>1, TypedInit, TypedNext, FollowedInit, FollowedNext, PTL DEF Spec
=============================================================================
