--------------------------- MODULE TimelineProofs ---------------------------
(***************************************************************************)
(* What the agent timeline promises for any number of agents, runs, tasks  *)
(* and rows of a page: each story is told once and in order, a finished    *)
(* run is complete, and the chat panel shows an unbroken stretch of rows.  *)
(***************************************************************************)
EXTENDS Timeline, FiniteSetTheorems, SequenceTheorems, WellFoundedInduction, TLAPS

\* What rows, tasks and outboxes refer to.
RowRefers(row) ==
  /\ row.run \in RunId \cup {0}
  /\ row.key.kind \in {"input", "worker", "terminal"} => row.key.of \in RunId
  /\ row.key.kind \in {"receipt", "status"} => row.key.of \in TaskId
  /\ row.key.kind = "status" => row.key.n <= task[row.key.of].version
  /\ row.key.kind = "worker" => row.key.n \in 1..bound.event
  /\ row.key.kind \in {"input", "receipt"} => row.key.n = 0
  /\ row.key.kind # "terminal" => row.key.status = "none"

TaskRefers(t) ==
  /\ task[t].sender # task[t].target
  /\ task[t].status = "running" => task[t].run # 0
  /\ task[t].run # 0 => run[task[t].run].source = "task"

UsedTyped == used \in [reset : Nat, select : Nat, fault : Nat, crash : Nat]

Typed ==
  /\ TypeOK /\ UsedTyped
  /\ \A p \in Position : RowRefers(timeline[p])
  /\ \A t \in TaskId : TaskRefers(t)
  /\ \A r \in RunId : outbox[r].log \subseteq 1..bound.event
  /\ \A c \in calls : c.cursor \in Position \cup {0}

\* What a relay has stored is a beginning of the outbox, up to the last sequence it knows;
\* a batch continues it, and one that came with the end of the turn ends with the final
\* event.
Storing(out, stored, rel) ==
  /\ \A b \in rel.batch : rel.after < b
  /\ \A s \in out.log : rel.after < s /\ s \notin rel.batch => \A b \in rel.batch : b < s
  /\ rel.batch = {} => rel.status = "completed"
  /\ rel.status = "completed" => out.status = "completed" /\ out.final \subseteq stored \cup rel.batch

Copied(status, out, stored, rel) ==
  /\ \A e \in stored : \A s \in out.log : s <= e => s \in stored
  /\ rel.after \in stored \cup {0}
  /\ rel.pc \in {"polling", "storing"} => \A e \in stored : e <= rel.after
  /\ rel.pc = "storing" => Storing(out, stored, rel)
  /\ status = "completed" => out.status = "completed" /\ out.final \subseteq stored

Relayed(r) == Copied(run[r].status, outbox[r], events[r], relay[r])

RelayInv == \A r \in RunId : Relayed(r)

\* A state is told to those only who have been told of the task.
StatusHasReceipt ==
  \A p \in Position : timeline[p].key.kind = "status" =>
    Has(timeline[p].agent, ReceiptKey(timeline[p].key.of))

StoryInv == StoriesInOrder /\ StatusHasReceipt

\* The panel b shows a stretch of the visible rows, up to the cursor; without earlier
\* messages to offer it shows all of them.
Stretch(b, visible) ==
  /\ b.shown \subseteq visible
  /\ \A x, y \in b.shown : \A z \in visible : x <= z /\ z <= y => z \in b.shown
  /\ b.shown = {} => b.cursor = 0
  /\ b.shown # {} => b.cursor \in b.shown /\ \A x \in b.shown : x <= b.cursor
  /\ ~b.loaded => b.shown = {} /\ ~b.earlier
  /\ b.loaded /\ ~b.earlier => \A p \in visible : p <= b.cursor => p \in b.shown

\* A page is a stretch of the visible rows: right behind the cursor, or the last ones,
\* before a cursor if there is one, and all of them unless it tells of more.
Behind(c, visible) ==
  /\ \A p \in c.rows : c.cursor < p
  /\ \A p \in c.rows : \A z \in visible : c.cursor < z /\ z <= p => z \in c.rows

Latest(c, visible) ==
  /\ \A x, y \in c.rows : \A z \in visible : x <= z /\ z <= y => z \in c.rows
  /\ ~c.more => \A x \in c.rows : \A z \in visible : z <= x => z \in c.rows

Earlier(c, visible) ==
  /\ \A p \in c.rows : p < c.cursor
  /\ \A p \in c.rows : \A z \in visible : p <= z /\ z < c.cursor => z \in c.rows
  /\ ~c.more => \A z \in visible : z < c.cursor => z \in c.rows

Paged(c, visible) ==
  /\ c.rows \subseteq visible
  /\ c.incremental => Behind(c, visible)
  /\ ~c.incremental /\ c.cursor = 0 => Latest(c, visible)
  /\ ~c.incremental /\ c.cursor # 0 => Earlier(c, visible)

\* The call under way continues what the panel b shows.
Continues(c, b) ==
  /\ c.agent = b.agent
  /\ c.kind = "refresh" => c.incremental = b.loaded /\ c.cursor = b.cursor
  /\ c.kind = "earlier" => /\ ~c.incremental /\ b.loading
                           /\ c.cursor \in b.shown /\ \A x \in b.shown : c.cursor <= x

CallFits(c, b, visible) ==
  /\ c.selection <= b.selection /\ c.revision <= b.revision
  /\ c.selection = b.selection => Continues(c, b)
  /\ c.pc \in {"inspect", "reply"} => Paged(c, visible)

\* The world of the panel and its calls, which others write: n rows, the rows visible of
\* each agent, the runs there are and each agent's context.
World(n, visible, runs, context) ==
  /\ n \in Nat /\ runs \subseteq Nat
  /\ visible \in [Agent -> SUBSET (1..n)] /\ context \in [Agent -> Nat]

\* The panel is not ahead of the agent's rows, nor of its context.
PanelKept(b, n, visible, context) ==
  /\ b \in Browser /\ b.shown \subseteq 1..n /\ b.cursor \in 0..n
  /\ Stretch(b, visible) /\ b.context <= context /\ b.resetting <= context

\* An answer that will count is not behind the panel's context.
Timely(c, b) ==
  c.selection = b.selection /\ c.revision = b.revision /\ c.kind = "refresh" /\ c.pc # "ensure"
    => b.context <= c.context

CallKept(c, b, n, visible, runs, context) ==
  /\ c \in Call /\ c.rows \subseteq 1..n /\ c.active \in runs \cup {0} /\ c.cursor \in 0..n
  /\ CallFits(c, b, visible)
  /\ c.context <= context /\ Timely(c, b)

\* The panel waits for one call of a kind.
Alone(cs, b) ==
  \A c, d \in cs : c.selection = b.selection /\ d.selection = b.selection /\ c.kind = d.kind => c = d

Kept(cs, b, n, visible, runs, context) ==
  /\ PanelKept(b, n, visible[b.agent], context[b.agent])
  /\ \A c \in cs : CallKept(c, b, n, visible[c.agent], runs, context[c.agent])
  /\ Alone(cs, b)

Seen == [a \in Agent |-> Visible(a)]

Watched == Kept(calls, browser, Len(timeline), Seen, RunId, conv)

Inv == Typed /\ RelayInv /\ StoryInv /\ Watched

-----------------------------------------------------------------------------
(* Sets of numbers.                                                        *)

\* A set of natural numbers has a least element.
LEMMA LeastNatural ==
  ASSUME NEW S, S \subseteq Nat, S # {}
  PROVE  \E m \in S : \A x \in S : m <= x
<1>1. PICK m \in S : \A x \in S : ~(<<x, m>> \in OpToRel(<, Nat))
  BY NatLessThanWellFounded, WFMin
<1>2. \A x, y \in Nat : x < y => <<x, y>> \in OpToRel(<, Nat)
  BY DEF OpToRel
<1>3. m \in Nat /\ \A x \in S : x \in Nat /\ ~(x < m)
  BY <1>1, <1>2
<1> QED
  BY <1>3

\* A bounded one has a greatest element as well.
LEMMA GreatestNatural ==
  ASSUME NEW S, S # {}, NEW n \in Nat, S \subseteq 0..n
  PROVE  \E m \in S : \A x \in S : x <= m
<1> DEFINE rest == {n - x : x \in S}
<1>1. rest \subseteq Nat /\ rest # {}
  <2>1. \A x \in S : n - x \in Nat
    OBVIOUS
  <2> QED
    BY <2>1
<1>2. PICK m \in rest : \A x \in rest : m <= x
  BY <1>1, LeastNatural
<1>3. PICK y \in S : m = n - y
  OBVIOUS
<1>4. \A x \in S : n - y <= n - x /\ x \in Nat /\ y \in Nat
  BY <1>2, <1>3
<1> QED
  BY <1>4

\* The first and the last of a set are what their names say.
LEMMA FirstIsLeast ==
  ASSUME NEW S, S \subseteq Nat, S # {}
  PROVE  FirstOf(S) \in S /\ \A x \in S : FirstOf(S) <= x
BY LeastNatural DEF FirstOf

\* The greatest of a bounded set is what its name says.
LEMMA MaxIsGreatest ==
  ASSUME NEW S, S # {}, NEW n \in Nat, S \subseteq 0..n
  PROVE  SetMax(S) \in S /\ \A x \in S : x <= SetMax(S)
BY GreatestNatural DEF SetMax

\* How many elements of a set are not above x.
Rank(S, x) == Cardinality({u \in S : u <= x})

\* A rank is a number and no more than the size of the set.
LEMMA RankIsNatural ==
  ASSUME NEW S, IsFiniteSet(S), NEW x
  PROVE  /\ IsFiniteSet({u \in S : u <= x}) /\ Rank(S, x) \in Nat
         /\ Rank(S, x) <= Cardinality(S) /\ Cardinality(S) \in Nat
<1>1. {u \in S : u <= x} \subseteq S
  OBVIOUS
<1> QED
  BY <1>1, FS_Subset, FS_CardinalityType DEF Rank

\* The higher element has the higher rank.
LEMMA RankIsStrict ==
  ASSUME NEW S, IsFiniteSet(S), S \subseteq Nat, NEW x \in S, NEW y \in S, x < y
  PROVE  Rank(S, x) < Rank(S, y)
<1> DEFINE A == {u \in S : u <= x}
           B == {u \in S : u <= y}
<1>1. A \subseteq B /\ y \in B /\ y \notin A /\ IsFiniteSet(B)
  <2>1. x \in Nat /\ y \in Nat /\ \A u \in S : u \in Nat
    OBVIOUS
  <2>2. \A u \in S : u <= x => u <= y
    BY <2>1
  <2>3. IsFiniteSet(B)
    BY RankIsNatural
  <2>4. A \subseteq B
    BY <2>2
  <2>5. y \in B /\ y \notin A
    BY <2>1
  <2> QED
    BY <2>3, <2>4, <2>5
<1>2. Cardinality(A) <= Cardinality(B) /\ Cardinality(A) # Cardinality(B)
  BY <1>1, FS_Subset
<1>3. /\ Rank(S, x) = Cardinality(A) /\ Rank(S, y) = Cardinality(B)
      /\ Rank(S, x) \in Nat /\ Rank(S, y) \in Nat
  BY RankIsNatural DEF Rank
<1> HIDE DEF A, B
<1> QED
  BY <1>2, <1>3

\* Every rank is that of one element.
LEMMA RankExists ==
  ASSUME NEW S, IsFiniteSet(S), S \subseteq Nat, NEW i \in 1..Cardinality(S)
  PROVE  \E x \in S : Rank(S, x) = i
<1> DEFINE T == {k \in 1..Cardinality(S) : \A x \in S : Rank(S, x) # k}
<1>1. SUFFICES ASSUME T # {} PROVE FALSE
  OBVIOUS
<1>2. T \subseteq Nat
  OBVIOUS
<1>3. PICK k \in T : \A j \in T : k <= j
  BY <1>1, <1>2, LeastNatural
<1>4. Cardinality(S) \in Nat /\ k \in 1..Cardinality(S) /\ \A x \in S : Rank(S, x) # k
  BY FS_CardinalityType
<1>5. \A j \in 1..Cardinality(S) : j < k => \E x \in S : Rank(S, x) = j
  BY <1>3, <1>4
<1> HIDE DEF T
<1>6. \E low \in SUBSET S : /\ Cardinality(low) = k - 1
                            /\ \A u \in low : \A z \in S \ low : u < z
  <2>1. CASE k = 1
    <3> WITNESS {} \in SUBSET S
    <3> QED
      BY <2>1, FS_EmptySet
  <2>2. CASE k # 1
    <3>1. k - 1 \in 1..Cardinality(S) /\ k - 1 < k
      BY <1>4, <2>2
    <3>2. PICK x \in S : Rank(S, x) = k - 1
      BY <1>5, <3>1
    <3> WITNESS {u \in S : u <= x} \in SUBSET S
    <3> QED
      BY <3>2 DEF Rank
  <2> QED
    BY <2>1, <2>2
<1>7. PICK low \in SUBSET S : /\ Cardinality(low) = k - 1
                              /\ \A u \in low : \A z \in S \ low : u < z
  BY <1>6
<1>8. IsFiniteSet(low) /\ low # S /\ S \ low \subseteq Nat
  <2>1. IsFiniteSet(low)
    BY FS_Subset
  <2>2. Cardinality(low) # Cardinality(S)
    BY <1>4, <1>7
  <2> QED
    BY <2>1, <2>2
<1>9. PICK z \in S \ low : \A y \in S \ low : z <= y
  BY <1>8, LeastNatural
<1>10. {u \in S : u <= z} = low \cup {z}
  <2>1. \A u \in S : u <= z <=> u \in low \/ u = z
    <3> TAKE u \in S
    <3>1. u \in Nat /\ z \in Nat
      OBVIOUS
    <3>2. u \in low => u < z
      BY <1>7
    <3>3. u \notin low => z <= u
      BY <1>9
    <3> QED
      BY <3>1, <3>2, <3>3
  <2> QED
    BY <2>1
<1>11. Cardinality(low \cup {z}) = Cardinality(low) + 1
  BY <1>8, FS_AddElement
<1>12. Rank(S, z) = k
  BY <1>4, <1>7, <1>10, <1>11 DEF Rank
<1> QED
  BY <1>4, <1>12

-----------------------------------------------------------------------------
(* Pages.                                                                  *)

\* The first rows of a set are a beginning of it.
LEMMA FirstRowsBegin ==
  ASSUME NEW S, IsFiniteSet(S), S \subseteq Nat, NEW n \in Nat,
         NEW p \in FirstRows(S, n), NEW z \in S, z <= p
  PROVE  z \in FirstRows(S, n)
<1>1. p \in S /\ p \in Nat /\ z \in Nat /\ Rank(S, p) <= n
  BY DEF FirstRows, Rank
<1>2. Rank(S, z) <= Rank(S, p) /\ Rank(S, z) \in Nat /\ Rank(S, p) \in Nat
  <2>1. /\ Rank(S, z) \in Nat /\ Rank(S, p) \in Nat
    BY RankIsNatural
  <2>2. CASE z = p
    BY <2>1, <2>2
  <2>3. CASE z < p
    <3>1. Rank(S, z) < Rank(S, p)
      BY <2>3, <1>1, RankIsStrict
    <3> QED
      BY <2>1, <3>1
  <2> QED
    BY <1>1, <2>1, <2>2, <2>3
<1>3. Rank(S, z) <= n
  BY <1>1, <1>2
<1> QED
  BY <1>3 DEF FirstRows, Rank

\* The last rows are an end of it, and all of it when they are few.
LEMMA Above ==
  ASSUME NEW S, IsFiniteSet(S), NEW x
  PROVE  LET above == {u \in S : u >= x}
         IN  IsFiniteSet(above) /\ Cardinality(above) \in Nat /\ Cardinality(above) <= Cardinality(S)
<1>1. {u \in S : u >= x} \in SUBSET S
  OBVIOUS
<1> QED
  BY <1>1, FS_Subset, FS_CardinalityType

\* What is behind one of the last rows is one of them.
LEMMA LastRowsEnd ==
  ASSUME NEW S, IsFiniteSet(S), S \subseteq Nat, NEW n \in Nat,
         NEW p \in LastRows(S, n), NEW z \in S, p <= z
  PROVE  z \in LastRows(S, n)
<1> DEFINE A == {u \in S : u >= z}
           B == {u \in S : u >= p}
<1>1. p \in S /\ p \in Nat /\ z \in Nat /\ Cardinality(B) <= n
  BY DEF LastRows
<1>2. A \subseteq B
  <2>1. \A u \in S : u \in Nat /\ (u >= z => u >= p)
    BY <1>1
  <2> QED
    BY <2>1
<1>3. IsFiniteSet(A) /\ IsFiniteSet(B) /\ Cardinality(A) \in Nat /\ Cardinality(B) \in Nat
  BY Above
<1>4. Cardinality(A) <= Cardinality(B)
  BY <1>2, <1>3, FS_Subset
<1>5. Cardinality(A) <= n
  BY <1>1, <1>3, <1>4
<1> QED
  BY <1>5 DEF LastRows

\* A small set consists of its last rows.
LEMMA FewRows ==
  ASSUME NEW S, IsFiniteSet(S), NEW n \in Nat, Cardinality(S) <= n
  PROVE  LastRows(S, n) = S
<1>1. ASSUME NEW z \in S PROVE z \in LastRows(S, n)
  <2> DEFINE A == {u \in S : u >= z}
  <2>1. Cardinality(A) \in Nat /\ Cardinality(A) <= Cardinality(S) /\ Cardinality(S) \in Nat
    BY Above, FS_CardinalityType
  <2>2. Cardinality(A) <= n
    BY <2>1
  <2> QED
    BY <2>2 DEF LastRows
<1> QED
  BY <1>1 DEF LastRows

\* A probe that comes back with no more than a page has found everything.
LEMMA ProbeTells ==
  ASSUME NEW S, IsFiniteSet(S), NEW m \in Nat, S \subseteq 0..m, NEW n \in Nat,
         Cardinality(LastRows(S, n + 1)) <= n
  PROVE  LastRows(S, n + 1) = S
<1> DEFINE found == LastRows(S, n + 1)
           rest == S \ found
<1>1. found \subseteq S
  BY DEF LastRows
<1>2. SUFFICES ASSUME rest # {} PROVE FALSE
  BY <1>1
<1>3. PICK z \in rest : \A y \in rest : y <= z
  <2>1. rest \subseteq 0..m
    OBVIOUS
  <2> HIDE DEF rest
  <2> QED
    BY <1>2, <2>1, GreatestNatural
<1> DEFINE A == {u \in S : u >= z}
<1>4. z \in S /\ IsFiniteSet(A) /\ Cardinality(A) \in Nat /\ ~(Cardinality(A) <= n + 1)
  BY Above DEF LastRows
<1>5. A \ {z} \subseteq found
  <2>1. ASSUME NEW u \in A, u # z PROVE u \in found
    <3>1. u \in S /\ z \in Nat /\ u \in Nat /\ u > z
      BY <2>1
    <3>2. u \notin rest
      BY <1>3, <3>1
    <3> QED
      BY <3>1, <3>2
  <2> QED
    BY <2>1
<1>6. IsFiniteSet(found) /\ Cardinality(found) \in Nat
  BY <1>1, FS_Subset, FS_CardinalityType
<1>7. z \in A /\ z \in Nat
  BY <1>4
<1>8. Cardinality(A \ {z}) = Cardinality(A) - 1
  BY <1>4, <1>7, FS_RemoveElement
<1>9. Cardinality(A \ {z}) <= Cardinality(found)
  BY <1>5, <1>6, FS_Subset
<1> HIDE DEF A, rest
<1> QED
  BY <1>4, <1>6, <1>8, <1>9

-----------------------------------------------------------------------------
(* Tables.                                                                 *)

\* What adding a row to a table does.
LEMMA Pushed ==
  ASSUME NEW S, NEW s \in Seq(S), NEW e \in S
  PROVE  /\ Len(s) \in Nat /\ DOMAIN s = 1..Len(s)
         /\ Append(s, e) \in Seq(S) /\ Len(Append(s, e)) = Len(s) + 1
         /\ DOMAIN Append(s, e) = (DOMAIN s) \cup {Len(s) + 1}
         /\ \A i \in DOMAIN s : Append(s, e)[i] = s[i]
         /\ Append(s, e)[Len(s) + 1] = e
<1>1. /\ Append(s, e) \in Seq(S) /\ Len(Append(s, e)) = Len(s) + 1
      /\ \A i \in 1..Len(s) : Append(s, e)[i] = s[i]
      /\ Append(s, e)[Len(s) + 1] = e
  BY AppendProperties
<1>2. /\ Len(s) \in Nat /\ DOMAIN s = 1..Len(s)
      /\ DOMAIN Append(s, e) = 1..Len(Append(s, e))
  BY <1>1, LenProperties
<1>3. \A n \in Nat : 1..(n + 1) = (1..n) \cup {n + 1}
  OBVIOUS
<1> QED
  BY <1>1, <1>2, <1>3

\* What adding rows to a table does.
LEMMA Joined ==
  ASSUME NEW S, NEW p \in Seq(S), NEW q \in Seq(S)
  PROVE  /\ p \o q \in Seq(S) /\ Len(p \o q) = Len(p) + Len(q)
         /\ Len(p) \in Nat /\ Len(q) \in Nat /\ DOMAIN p = 1..Len(p) /\ DOMAIN q = 1..Len(q)
         /\ \A k \in 1..Len(p) : (p \o q)[k] = p[k]
         /\ \A k \in 1..Len(q) : (p \o q)[Len(p) + k] = q[k]
         /\ \A k \in 1..Len(p \o q) : k > Len(p) => k - Len(p) \in 1..Len(q) /\ (p \o q)[k] = q[k - Len(p)]
<1>1. /\ Len(p) \in Nat /\ Len(q) \in Nat /\ DOMAIN p = 1..Len(p) /\ DOMAIN q = 1..Len(q)
      /\ p \o q \in Seq(S) /\ Len(p \o q) = Len(p) + Len(q)
  BY LenProperties, ConcatProperties
<1>2. \A k \in 1..(Len(p) + Len(q)) : (p \o q)[k] = IF k <= Len(p) THEN p[k] ELSE q[k - Len(p)]
  BY ConcatProperties
<1>3. \A m, n \in Nat :
        /\ \A k \in 1..m : k \in 1..(m + n) /\ k <= m
        /\ \A k \in 1..n : m + k \in 1..(m + n) /\ ~(m + k <= m) /\ (m + k) - m = k
        /\ \A k \in 1..(m + n) : k > m => ~(k <= m) /\ k - m \in 1..n
  OBVIOUS
<1>4. \A k \in 1..Len(p) : (p \o q)[k] = p[k]
  BY <1>1, <1>2, <1>3
<1>5. \A k \in 1..Len(q) : (p \o q)[Len(p) + k] = q[k]
  BY <1>1, <1>2, <1>3
<1>6. \A k \in 1..Len(p \o q) : k > Len(p) => k - Len(p) \in 1..Len(q) /\ (p \o q)[k] = q[k - Len(p)]
  BY <1>1, <1>2, <1>3
<1> QED
  BY <1>1, <1>4, <1>5, <1>6

\* What a change of a row does.
LEMMA RowChanged ==
  ASSUME NEW S, NEW s \in Seq(S), NEW i \in DOMAIN s, NEW e \in S
  PROVE  /\ [s EXCEPT ![i] = e] \in Seq(S) /\ DOMAIN [s EXCEPT ![i] = e] = DOMAIN s
         /\ Len([s EXCEPT ![i] = e]) = Len(s)
         /\ [s EXCEPT ![i] = e][i] = e
         /\ \A k \in DOMAIN s : k # i => [s EXCEPT ![i] = e][k] = s[k]
<1>1. i \in 1..Len(s)
  BY LenProperties
<1> QED
  BY <1>1, ExceptSeq

\* What the types say of tables.
LEMMA Rows ==
  ASSUME TypeOK
  PROVE  /\ RunId = 1..Len(run) /\ Len(run) \in Nat /\ \A r \in RunId : run[r] \in Run
         /\ TaskId = 1..Len(task) /\ Len(task) \in Nat /\ \A t \in TaskId : task[t] \in Task
         /\ Position = 1..Len(timeline) /\ Len(timeline) \in Nat
         /\ \A p \in Position : timeline[p] \in Row
         /\ RunId \subseteq Nat /\ TaskId \subseteq Nat /\ Position \subseteq Nat
         /\ 0 \notin RunId /\ 0 \notin TaskId /\ 0 \notin Position
<1>1. run \in Seq(Run) /\ task \in Seq(Task) /\ timeline \in Seq(Row)
  BY DEF TypeOK
<1>2. /\ RunId = 1..Len(run) /\ Len(run) \in Nat /\ run \in [1..Len(run) -> Run]
      /\ TaskId = 1..Len(task) /\ Len(task) \in Nat /\ task \in [1..Len(task) -> Task]
      /\ Position = 1..Len(timeline) /\ Len(timeline) \in Nat
      /\ timeline \in [1..Len(timeline) -> Row]
  BY <1>1, LenProperties DEF RunId, TaskId, Position
<1>3. \A n \in Nat : 1..n \subseteq Nat /\ 0 \notin 1..n
  OBVIOUS
<1>4. /\ RunId \subseteq Nat /\ TaskId \subseteq Nat /\ Position \subseteq Nat
      /\ 0 \notin RunId /\ 0 \notin TaskId /\ 0 \notin Position
  BY <1>2, <1>3
<1>5. (\A r \in RunId : run[r] \in Run) /\ (\A t \in TaskId : task[t] \in Task)
  BY <1>2
<1>6. \A p \in Position : timeline[p] \in Row
  BY <1>2
<1> QED
  BY <1>2, <1>4, <1>5, <1>6

-----------------------------------------------------------------------------
(* Rows that are added.                                                    *)

\* The rows of the timeline stay, and those that come stand behind them.
TimelineGrows ==
  /\ timeline' \in Seq(Row) /\ Position \subseteq Position'
  /\ \A p \in Position : timeline'[p] = timeline[p]
  /\ \A p \in Position : \A q \in Position' \ Position : p < q

\* A row with a key the agent has not is added behind all others, and nothing else.
LEMMA AppendedRow ==
  ASSUME TypeOK, NEW a \in Agent, NEW r \in Nat, NEW key \in Key, NEW isScheduled,
         timeline' = Appended(a, r, key, isScheduled)
  PROVE  /\ TimelineGrows
         /\ \/ timeline' = timeline /\ (isScheduled \/ Has(a, key))
            \/ /\ ~isScheduled /\ ~Has(a, key)
               /\ Position' = Position \cup {Len(timeline) + 1}
               /\ timeline'[Len(timeline) + 1] = [agent |-> a, run |-> r, key |-> key]
<1>1. timeline \in Seq(Row) /\ Position = 1..Len(timeline) /\ Len(timeline) \in Nat
  BY Rows DEF TypeOK
<1>2. CASE isScheduled \/ Has(a, key)
  <2>1. timeline' = timeline
    BY <1>2 DEF Appended
  <2>2. Position' = Position
    BY <2>1 DEF Position
  <2> QED
    BY <1>1, <1>2, <2>1, <2>2 DEF TimelineGrows
<1>3. CASE ~(isScheduled \/ Has(a, key))
  <2> DEFINE row == [agent |-> a, run |-> r, key |-> key]
  <2>1. timeline' = Append(timeline, row) /\ row \in Row
    BY <1>3 DEF Appended, Row
  <2> HIDE DEF row
  <2>2. /\ timeline' \in Seq(Row) /\ DOMAIN timeline' = (DOMAIN timeline) \cup {Len(timeline) + 1}
        /\ \A p \in DOMAIN timeline : timeline'[p] = timeline[p]
        /\ timeline'[Len(timeline) + 1] = row
    BY <1>1, <2>1, Pushed
  <2>3. Position' = Position \cup {Len(timeline) + 1}
    BY <2>2 DEF Position
  <2>4. \A p \in Position : timeline'[p] = timeline[p]
    BY <2>2 DEF Position
  <2>5. \A p \in Position : p < Len(timeline) + 1
    BY <1>1
  <2>6. TimelineGrows
    BY <2>2, <2>3, <2>4, <2>5 DEF TimelineGrows
  <2> QED
    BY <1>3, <2>2, <2>3, <2>6 DEF row
<1> QED
  BY <1>2, <1>3

Side == {"sender", "target"}
Kind == {"receipt", "status"}

\* The row about a task says what its side and its kind ask for.
LEMMA TaskRowTyped ==
  ASSUME TypeOK, NEW side \in Side, NEW kind \in Kind, NEW t \in TaskId
  PROVE  /\ TaskRow(side, kind, t) \in Row
         /\ TaskRow(side, kind, t).agent = (IF side = "sender" THEN task[t].sender ELSE task[t].target)
         /\ TaskRow(side, kind, t).run = (IF side = "sender" THEN task[t].senderRun ELSE task[t].run)
         /\ TaskRow(side, kind, t).key = (IF kind = "receipt" THEN ReceiptKey(t) ELSE StatusKey(t))
         /\ TaskRow(side, kind, t).key.kind = kind /\ TaskRow(side, kind, t).key.of = t
<1>1. task[t] \in Task /\ t \in Nat
  BY Rows
<1>2. ReceiptKey(t) \in Key /\ StatusKey(t) \in Key
  BY <1>1 DEF ReceiptKey, StatusKey, Key, Task
<1>3. ReceiptKey(t).kind = "receipt" /\ StatusKey(t).kind = "status" /\ ReceiptKey(t).of = t /\ StatusKey(t).of = t
  BY DEF ReceiptKey, StatusKey
<1> QED
  BY <1>1, <1>2, <1>3 DEF TaskRow, Row, Task, Side, Kind

\* What a projection lacks, it gets once, in the order of the tasks.
LEMMA MissingRows ==
  ASSUME TypeOK, NEW side \in Side, NEW kind \in Kind
  PROVE  LET rows == Missing(side, kind)
             lacking == Lacking(side, kind)
         IN  /\ rows \in Seq(Row)
             /\ \A i \in 1..Len(rows) : /\ rows[i].key.of \in lacking
                                        /\ rows[i] = TaskRow(side, kind, rows[i].key.of)
                                        /\ Rank(lacking, rows[i].key.of) = i
             /\ \A t \in lacking : \E i \in 1..Len(rows) : rows[i] = TaskRow(side, kind, t)
<1> DEFINE lacking == Lacking(side, kind)
           n == Cardinality(lacking)
           nth(i) == CHOOSE t \in lacking : Cardinality({u \in lacking : u <= t}) = i
           rows == [i \in 1..n |-> TaskRow(side, kind, nth(i))]
<1>1. Missing(side, kind) = rows
  BY DEF Missing
<1>2. lacking \subseteq TaskId /\ lacking \subseteq Nat
  BY Rows DEF Lacking
<1>3. IsFiniteSet(lacking) /\ n \in Nat
  <2>1. TaskId = 1..Len(task) /\ Len(task) \in Nat
    BY Rows
  <2>2. IsFiniteSet(TaskId)
    BY <2>1, FS_Interval
  <2> QED
    BY <1>2, <2>2, FS_Subset, FS_CardinalityType
<1> HIDE DEF lacking
<1>4. \A i \in 1..n : nth(i) \in lacking /\ Rank(lacking, nth(i)) = i
  <2>1. \A i \in 1..n : \E t \in lacking : Rank(lacking, t) = i
    BY <1>2, <1>3, RankExists
  <2> TAKE i \in 1..n
  <2>2. PICK t \in lacking : Cardinality({u \in lacking : u <= t}) = i
    BY <2>1 DEF Rank
  <2> QED
    BY <2>2 DEF Rank
<1> HIDE DEF n, nth
<1>5. \A i \in 1..n : /\ rows[i] = TaskRow(side, kind, nth(i)) /\ TaskRow(side, kind, nth(i)) \in Row
                      /\ rows[i].key.of = nth(i)
  <2> TAKE i \in 1..n
  <2>1. nth(i) \in TaskId
    BY <1>2, <1>4
  <2>2. TaskRow(side, kind, nth(i)) \in Row /\ TaskRow(side, kind, nth(i)).key.of = nth(i)
    BY <2>1, TaskRowTyped
  <2>3. rows[i] = TaskRow(side, kind, nth(i))
    OBVIOUS
  <2> QED
    BY <2>2, <2>3
<1>6. rows \in [1..n -> Row]
  BY <1>5
<1>7. rows \in Seq(Row) /\ Len(rows) = n
  BY <1>3, <1>6, IsASeq
<1>8. ASSUME NEW t \in lacking PROVE \E i \in 1..n : rows[i] = TaskRow(side, kind, t)
  <2> DEFINE i == Rank(lacking, t)
  <2>1. t \in {u \in lacking : u <= t} /\ IsFiniteSet({u \in lacking : u <= t})
    BY <1>2, <1>3, RankIsNatural
  <2>2. Cardinality({u \in lacking : u <= t}) # 0
    BY <2>1, FS_EmptySet
  <2>3. i \in 1..n
    BY <1>3, <2>2, RankIsNatural DEF n, Rank
  <2> HIDE DEF i
  <2>4. nth(i) \in lacking /\ Rank(lacking, nth(i)) = i
    BY <1>4, <2>3
  <2>5. ~(nth(i) < t) /\ ~(t < nth(i))
    <3>1. \A x, y \in lacking : x < y => Rank(lacking, x) < Rank(lacking, y)
      BY <1>2, <1>3, RankIsStrict
    <3> QED
      BY <2>3, <2>4, <3>1 DEF i
  <2>6. nth(i) = t
    <3>1. \A x, y \in Nat : ~(x < y) /\ ~(y < x) => x = y
      OBVIOUS
    <3>2. nth(i) \in Nat /\ t \in Nat
      BY <1>2, <2>4
    <3> QED
      BY <2>5, <3>1, <3>2
  <2> QED
    BY <1>5, <2>3, <2>6
<1> HIDE DEF rows
<1> QED
  BY <1>1, <1>4, <1>5, <1>7, <1>8 DEF lacking

\* Every task a projection lacks has a row in it.
LEMMA MissingHas ==
  ASSUME TypeOK, NEW side \in Side, NEW kind \in Kind, NEW t \in Lacking(side, kind)
  PROVE  \E i \in 1..Len(Missing(side, kind)) : Missing(side, kind)[i] = TaskRow(side, kind, t)
<1>1. \A u \in Lacking(side, kind) :
        \E i \in 1..Len(Missing(side, kind)) : Missing(side, kind)[i] = TaskRow(side, kind, u)
  BY MissingRows
<1> QED
  BY <1>1

\* The rows of a projection: receipts before states, each once for each side.
LEMMA SyncedRows ==
  ASSUME Typed, timeline' = Synced
  PROVE  /\ TimelineGrows
         /\ \A p \in Position' \ Position : \E side \in Side, kind \in Kind :
              /\ timeline'[p].key.of \in Lacking(side, kind)
              /\ timeline'[p] = TaskRow(side, kind, timeline'[p].key.of)
         /\ \A p, q \in Position' \ Position : p < q =>
              /\ timeline'[p].key.kind = "status" => timeline'[q].key.kind # "receipt"
              /\ timeline'[p].agent = timeline'[q].agent => timeline'[p].key # timeline'[q].key
         /\ \A side \in Side, kind \in Kind : \A t \in Lacking(side, kind) :
              \E p \in Position' : timeline'[p] = TaskRow(side, kind, t)
<1> DEFINE A == Missing("sender", "receipt")
           B == Missing("target", "receipt")
           C == Missing("sender", "status")
           D == Missing("target", "status")
           S1 == timeline \o A
           S2 == S1 \o B
           S3 == S2 \o C
           S4 == S3 \o D
           n0 == Len(timeline)
           n1 == Len(S1)
           n2 == Len(S2)
           n3 == Len(S3)
           n4 == Len(S4)
<1>0. /\ TypeOK /\ Side = {"sender", "target"} /\ Kind = {"receipt", "status"}
  BY DEF Typed, Side, Kind
<1>1. timeline \in Seq(Row) /\ A \in Seq(Row) /\ B \in Seq(Row) /\ C \in Seq(Row) /\ D \in Seq(Row)
  BY <1>0, MissingRows DEF TypeOK
<1>2. timeline' = S4
  BY DEF Synced
<1> HIDE DEF A, B, C, D
<1>3. /\ S1 \in Seq(Row) /\ n1 = n0 + Len(A) /\ n0 \in Nat /\ Len(A) \in Nat
      /\ \A k \in 1..n0 : S1[k] = timeline[k]
      /\ \A k \in 1..Len(A) : S1[n0 + k] = A[k]
      /\ \A k \in 1..n1 : k > n0 => k - n0 \in 1..Len(A) /\ S1[k] = A[k - n0]
  BY <1>1, Joined
<1> HIDE DEF S1
<1>4. /\ S2 \in Seq(Row) /\ n2 = n1 + Len(B) /\ n1 \in Nat /\ Len(B) \in Nat
      /\ \A k \in 1..n1 : S2[k] = S1[k]
      /\ \A k \in 1..Len(B) : S2[n1 + k] = B[k]
      /\ \A k \in 1..n2 : k > n1 => k - n1 \in 1..Len(B) /\ S2[k] = B[k - n1]
  <2>1. S1 \in Seq(Row) /\ B \in Seq(Row)
    BY <1>1, <1>3
  <2> HIDE DEF n0, n1, n2, n3, n4
  <2> QED
    BY <2>1, Joined DEF n1, n2
<1> HIDE DEF S2
<1>5. /\ S3 \in Seq(Row) /\ n3 = n2 + Len(C) /\ n2 \in Nat /\ Len(C) \in Nat
      /\ \A k \in 1..n2 : S3[k] = S2[k]
      /\ \A k \in 1..Len(C) : S3[n2 + k] = C[k]
      /\ \A k \in 1..n3 : k > n2 => k - n2 \in 1..Len(C) /\ S3[k] = C[k - n2]
  <2>1. S2 \in Seq(Row) /\ C \in Seq(Row)
    BY <1>1, <1>4
  <2> HIDE DEF n0, n1, n2, n3, n4
  <2> QED
    BY <2>1, Joined DEF n2, n3
<1> HIDE DEF S3
<1>6. /\ S4 \in Seq(Row) /\ n4 = n3 + Len(D) /\ n3 \in Nat /\ Len(D) \in Nat
      /\ \A k \in 1..n3 : S4[k] = S3[k]
      /\ \A k \in 1..Len(D) : S4[n3 + k] = D[k]
      /\ \A k \in 1..n4 : k > n3 => k - n3 \in 1..Len(D) /\ S4[k] = D[k - n3]
  <2>1. S3 \in Seq(Row) /\ D \in Seq(Row)
    BY <1>1, <1>5
  <2> HIDE DEF n0, n1, n2, n3, n4
  <2> QED
    BY <2>1, Joined DEF n3, n4
<1> HIDE DEF S4
<1>7. DOMAIN S4 = 1..n4 /\ DOMAIN timeline = 1..n0 /\ n4 \in Nat
  BY <1>1, <1>6, LenProperties
<1> DEFINE a == Len(A)
           b == Len(B)
           c == Len(C)
           d == Len(D)
<1>8. /\ n0 \in Nat /\ n1 \in Nat /\ n2 \in Nat /\ n3 \in Nat /\ n4 \in Nat
      /\ n0 <= n1 /\ n1 <= n2 /\ n2 <= n3 /\ n3 <= n4
      /\ a \in Nat /\ b \in Nat /\ c \in Nat /\ d \in Nat
      /\ n1 = n0 + a /\ n2 = n1 + b /\ n3 = n2 + c /\ n4 = n3 + d
  BY <1>3, <1>4, <1>5, <1>6, <1>7
<1>9. Position = 1..n0 /\ Position' = 1..n4
  BY <1>2, <1>7 DEF Position
<1>10. \A k \in 1..n0 : S4[k] = timeline[k]
  <2> TAKE k \in 1..n0
  <2> HIDE DEF n0, n1, n2, n3, n4, a, b, c, d
  <2>1. k \in 1..n1 /\ k \in 1..n2 /\ k \in 1..n3
    BY <1>8
  <2> QED
    BY <2>1, <1>3, <1>4, <1>5, <1>6 DEF n0, n1, n2, n3, n4
\* Each new row is in one of the four blocks, and each row of a block is in the timeline.
<1> DEFINE In(p, M, low, high) == p \in (low + 1)..high /\ p - low \in 1..Len(M) /\ S4[p] = M[p - low]
<1>11. \A p \in (n0 + 1)..n4 : In(p, A, n0, n1) \/ In(p, B, n1, n2) \/ In(p, C, n2, n3) \/ In(p, D, n3, n4)
  <2> TAKE p \in (n0 + 1)..n4
  <2>1. /\ p \in 1..n4 /\ p > n0
        /\ \/ p > n3
           \/ p \in 1..n3 /\ p > n2
           \/ p \in 1..n3 /\ p \in 1..n2 /\ p > n1
           \/ p \in 1..n3 /\ p \in 1..n2 /\ p \in 1..n1
        /\ p > n3 => p \in (n3 + 1)..n4
        /\ p > n2 /\ p \in 1..n3 => p \in (n2 + 1)..n3
        /\ p > n1 /\ p \in 1..n2 => p \in (n1 + 1)..n2
        /\ p > n0 /\ p \in 1..n1 => p \in (n0 + 1)..n1
    <3> HIDE DEF n0, n1, n2, n3, n4, a, b, c, d
    <3> QED
      BY <1>8
  <2> HIDE DEF n0, n1, n2, n3, n4
  <2>2. /\ p > n3 => S4[p] = D[p - n3] /\ p - n3 \in 1..Len(D)
        /\ p \in 1..n3 => S4[p] = S3[p]
    BY <2>1, <1>6 DEF n3, n4
  <2>3. /\ p \in 1..n3 /\ p > n2 => S3[p] = C[p - n2] /\ p - n2 \in 1..Len(C)
        /\ p \in 1..n2 => S3[p] = S2[p]
    BY <1>5 DEF n2, n3
  <2>4. /\ p \in 1..n2 /\ p > n1 => S2[p] = B[p - n1] /\ p - n1 \in 1..Len(B)
        /\ p \in 1..n1 => S2[p] = S1[p]
    BY <1>4 DEF n1, n2
  <2>5. p \in 1..n1 => S1[p] = A[p - n0] /\ p - n0 \in 1..Len(A)
    BY <2>1, <1>3 DEF n0, n1
  <2>6. CASE p > n3
    BY <2>1, <2>2, <2>6
  <2>7. CASE p \in 1..n3 /\ p > n2
    BY <2>1, <2>2, <2>3, <2>7
  <2>8. CASE p \in 1..n3 /\ p \in 1..n2 /\ p > n1
    BY <2>1, <2>2, <2>3, <2>4, <2>8
  <2>9. CASE p \in 1..n3 /\ p \in 1..n2 /\ p \in 1..n1
    BY <2>1, <2>2, <2>3, <2>4, <2>5, <2>9
  <2> QED
    BY <2>1, <2>6, <2>7, <2>8, <2>9
<1>12. /\ \A k \in 1..Len(A) : n0 + k \in 1..n4 /\ S4[n0 + k] = A[k]
       /\ \A k \in 1..Len(B) : n1 + k \in 1..n4 /\ S4[n1 + k] = B[k]
       /\ \A k \in 1..Len(C) : n2 + k \in 1..n4 /\ S4[n2 + k] = C[k]
       /\ \A k \in 1..Len(D) : n3 + k \in 1..n4 /\ S4[n3 + k] = D[k]
  <2>1. /\ \A k \in 1..a : n0 + k \in 1..n1 /\ n0 + k \in 1..n2 /\ n0 + k \in 1..n3 /\ n0 + k \in 1..n4
        /\ \A k \in 1..b : n1 + k \in 1..n2 /\ n1 + k \in 1..n3 /\ n1 + k \in 1..n4
        /\ \A k \in 1..c : n2 + k \in 1..n3 /\ n2 + k \in 1..n4
        /\ \A k \in 1..d : n3 + k \in 1..n4
    <3> HIDE DEF n0, n1, n2, n3, n4, a, b, c, d
    <3> QED
      BY <1>8
  <2> HIDE DEF n0, n1, n2, n3, n4
  <2>2. \A k \in 1..Len(A) : n0 + k \in 1..n4 /\ S4[n0 + k] = A[k]
    BY <2>1, <1>3, <1>4, <1>5, <1>6 DEF n0, n1, n2, n3, n4
  <2>3. \A k \in 1..Len(B) : n1 + k \in 1..n4 /\ S4[n1 + k] = B[k]
    BY <2>1, <1>3, <1>4, <1>5, <1>6 DEF n0, n1, n2, n3, n4
  <2>4. \A k \in 1..Len(C) : n2 + k \in 1..n4 /\ S4[n2 + k] = C[k]
    BY <2>1, <1>3, <1>4, <1>5, <1>6 DEF n0, n1, n2, n3, n4
  <2>5. \A k \in 1..Len(D) : n3 + k \in 1..n4 /\ S4[n3 + k] = D[k]
    BY <2>1, <1>3, <1>4, <1>5, <1>6 DEF n0, n1, n2, n3, n4
  <2> QED
    BY <2>2, <2>3, <2>4, <2>5
<1> HIDE DEF n0, n1, n2, n3, n4
<1>13. TimelineGrows
  <2>1. Position \subseteq Position' /\ \A p \in Position : \A q \in Position' \ Position : p < q
    <3>1. n0 \in Nat /\ n4 \in Nat /\ n0 <= n4
      BY <1>8
    <3> QED
      BY <3>1, <1>9
  <2>2. timeline' \in Seq(Row) /\ \A p \in Position : timeline'[p] = timeline[p]
    BY <1>2, <1>6, <1>9, <1>10
  <2> QED
    BY <2>1, <2>2 DEF TimelineGrows
\* What the rows of a block say.
<1> DEFINE Row4(p, side, kind, low, high) ==
             /\ p \in (low + 1)..high
             /\ S4[p].key.of \in Lacking(side, kind)
             /\ S4[p] = TaskRow(side, kind, S4[p].key.of)
             /\ Rank(Lacking(side, kind), S4[p].key.of) = p - low
<1>14. \A p \in (n0 + 1)..n4 :
          \/ Row4(p, "sender", "receipt", n0, n1) \/ Row4(p, "target", "receipt", n1, n2)
          \/ Row4(p, "sender", "status", n2, n3) \/ Row4(p, "target", "status", n3, n4)
  <2>1. \A p : In(p, A, n0, n1) => Row4(p, "sender", "receipt", n0, n1)
    BY <1>0, MissingRows DEF A
  <2>2. \A p : In(p, B, n1, n2) => Row4(p, "target", "receipt", n1, n2)
    BY <1>0, MissingRows DEF B
  <2>3. \A p : In(p, C, n2, n3) => Row4(p, "sender", "status", n2, n3)
    BY <1>0, MissingRows DEF C
  <2>4. \A p : In(p, D, n3, n4) => Row4(p, "target", "status", n3, n4)
    BY <1>0, MissingRows DEF D
  <2> HIDE DEF In, Row4
  <2> QED
    BY <1>11, <2>1, <2>2, <2>3, <2>4
<1>15. \A p \in Position' \ Position : p \in (n0 + 1)..n4
  BY <1>8, <1>9
\* A row tells its kind and task, and that tells its place.
<1>16. \A p \in (n0 + 1)..n4 :
         /\ S4[p].key.kind \in Kind /\ S4[p].key.of \in TaskId
         /\ S4[p].key.kind = "receipt" => p <= n2
         /\ S4[p].key.kind = "status" => p > n2
  <2> TAKE p \in (n0 + 1)..n4
  <2>1. \A side \in Side, kind \in Kind : \A low, high :
           Row4(p, side, kind, low, high) => S4[p].key.kind = kind /\ S4[p].key.of \in TaskId
    BY <1>0, TaskRowTyped DEF Lacking
  <2>2. /\ p \in (n0 + 1)..n1 \/ p \in (n1 + 1)..n2 => p <= n2
        /\ p \in (n2 + 1)..n3 \/ p \in (n3 + 1)..n4 => p > n2
    BY <1>8
  <2>3. \A side, kind, low, high : Row4(p, side, kind, low, high) => p \in (low + 1)..high
    OBVIOUS
  <2> HIDE DEF Row4
  <2> QED
    BY <1>0, <1>14, <2>1, <2>2, <2>3
<1>17. ASSUME NEW p \in (n0 + 1)..n4, NEW q \in (n0 + 1)..n4, p < q, S4[p].agent = S4[q].agent
       PROVE  S4[p].key # S4[q].key
  <2>1. SUFFICES ASSUME S4[p].key = S4[q].key PROVE FALSE
    OBVIOUS
  <2> DEFINE t == S4[p].key.of
             kind == S4[p].key.kind
  <2>2. kind \in Kind /\ t \in TaskId /\ S4[q].key.of = t /\ S4[q].key.kind = kind
    BY <1>16, <2>1
  <2>3. \A side, k, low, high :
          /\ Row4(p, side, k, low, high) => /\ S4[p] = TaskRow(side, k, t)
                                            /\ Rank(Lacking(side, k), t) = p - low
          /\ Row4(q, side, k, low, high) => /\ S4[q] = TaskRow(side, k, t)
                                            /\ Rank(Lacking(side, k), t) = q - low
    BY <2>2
  <2>4. \A side \in Side, k \in Kind : \A low, high :
          Row4(p, side, k, low, high) \/ Row4(q, side, k, low, high) => k = kind
    BY <1>0, <2>2, <2>3, TaskRowTyped
  <2>5. \A side, other \in Side : \A low, high, low2, high2 :
          Row4(p, side, kind, low, high) /\ Row4(q, other, kind, low2, high2) => side = other
    <3>1. TaskRow("sender", kind, t).agent # TaskRow("target", kind, t).agent
      BY <1>0, <2>2, TaskRowTyped DEF Typed, TaskRefers
    <3> HIDE DEF Row4, t, kind
    <3> QED
      BY <1>0, <1>17, <2>3, <3>1
  <2>6. p \in Nat /\ q \in Nat
    BY <1>8
  <2> HIDE DEF Row4, t, kind
  <2>7. \A side, k, low, high : low \in Nat => ~(Row4(p, side, k, low, high) /\ Row4(q, side, k, low, high))
    <3>1. \A low \in Nat : p - low # q - low
      BY <1>17, <2>6
    <3> QED
      BY <2>3, <3>1
  <2> QED
    BY <1>0, <1>8, <1>14, <2>4, <2>5, <2>7
<1>18. \A side \in Side, kind \in Kind : \A t \in Lacking(side, kind) :
              \E p \in Position' : timeline'[p] = TaskRow(side, kind, t)
  <2>1. ASSUME NEW side \in Side, NEW kind \in Kind, NEW t \in Lacking(side, kind)
        PROVE  \E i \in 1..Len(Missing(side, kind)) : Missing(side, kind)[i] = TaskRow(side, kind, t)
    BY <1>0, MissingHas
  <2> TAKE side \in Side, kind \in Kind
  <2> TAKE t \in Lacking(side, kind)
  <2>2. PICK i \in 1..Len(Missing(side, kind)) : Missing(side, kind)[i] = TaskRow(side, kind, t)
    BY <2>1
  <2>3. CASE side = "sender" /\ kind = "receipt"
    BY <1>2, <1>9, <1>12, <2>2, <2>3 DEF A
  <2>4. CASE side = "target" /\ kind = "receipt"
    BY <1>2, <1>9, <1>12, <2>2, <2>4 DEF B
  <2>5. CASE side = "sender" /\ kind = "status"
    BY <1>2, <1>9, <1>12, <2>2, <2>5 DEF C
  <2>6. CASE side = "target" /\ kind = "status"
    BY <1>2, <1>9, <1>12, <2>2, <2>6 DEF D
  <2> QED
    BY <1>0, <2>3, <2>4, <2>5, <2>6
<1>19. \A p \in Position' \ Position : \E side \in Side, kind \in Kind :
              /\ timeline'[p].key.of \in Lacking(side, kind)
              /\ timeline'[p] = TaskRow(side, kind, timeline'[p].key.of)
  <2>1. \A p, side, kind, low, high : Row4(p, side, kind, low, high) =>
              /\ S4[p].key.of \in Lacking(side, kind)
              /\ S4[p] = TaskRow(side, kind, S4[p].key.of)
    OBVIOUS
  <2> HIDE DEF Row4
  <2> QED
    BY <1>0, <1>2, <1>14, <1>15, <2>1
<1>20. \A p, q \in Position' \ Position : p < q =>
              /\ timeline'[p].key.kind = "status" => timeline'[q].key.kind # "receipt"
              /\ timeline'[p].agent = timeline'[q].agent => timeline'[p].key # timeline'[q].key
  <2> TAKE p, q \in Position' \ Position
  <2>1. p \in (n0 + 1)..n4 /\ q \in (n0 + 1)..n4 /\ p \in Nat /\ q \in Nat
    BY <1>8, <1>15
  <2> HIDE DEF Row4
  <2>2. p < q => (S4[p].key.kind = "status" => S4[q].key.kind # "receipt")
    BY <1>8, <1>16, <2>1
  <2> QED
    BY <1>2, <1>17, <2>1, <2>2
<1> QED
  BY <1>13, <1>18, <1>19, <1>20

-----------------------------------------------------------------------------
(* What a step may do to each table.                                       *)

\* What the handler of a page writes.
LEMMA HandlerWrites ==
  ASSUME HandlerStep
  PROVE  /\ UNCHANGED <<run, outbox, events, relay, browser, used, bound>>
         /\ task' = task \/ task' = Reconciled
         /\ timeline' = timeline \/ timeline' = Synced
<1>1. PICK c \in calls : HandlerEnsures(c) \/ HandlerSyncs(c) \/ HandlerQueries(c) \/ HandlerInspects(c)
  BY DEF HandlerStep
<1>2. CASE HandlerEnsures(c)
  BY <1>2 DEF HandlerEnsures
<1>3. CASE HandlerSyncs(c)
  BY <1>3 DEF HandlerSyncs
<1>4. CASE HandlerQueries(c)
  BY <1>4 DEF HandlerQueries
<1>5. CASE HandlerInspects(c)
  BY <1>5 DEF HandlerInspects
<1> QED
  BY <1>1, <1>2, <1>3, <1>4, <1>5

\* The panel writes no table when it asks for a page or receives one.
LEMMA PanelWrites ==
  ASSUME Refresh \/ Receive \/ LoadEarlier
  PROVE  UNCHANGED <<run, outbox, events, relay, task, timeline, conv, used, bound>>
<1>1. CASE Refresh
  BY <1>1 DEF Refresh
<1>2. CASE Receive
  <2>1. PICK c \in calls : ReceiveRefresh(c) \/ ReceiveEarlier(c)
    BY <1>2 DEF Receive
  <2>2. CASE ReceiveRefresh(c)
    BY <2>2 DEF ReceiveRefresh
  <2>3. CASE ReceiveEarlier(c)
    BY <2>3 DEF ReceiveEarlier
  <2> QED
    BY <2>1, <2>2, <2>3
<1>3. CASE LoadEarlier
  BY <1>3 DEF LoadEarlier
<1> QED
  BY <1>1, <1>2, <1>3

Step == Next \/ UNCHANGED vars

\* A relay that finishes has the status of a finished turn.
LEMMA FinishesCompleted ==
  ASSUME RelayInv, NEW r \in RunId, RelayFinishes(r)
  PROVE  relay[r].status = "completed"
BY DEF RelayInv, Relayed, Copied, Storing, RelayFinishes, Finishing

\* The table of runs changes by a new run or the end of one.
LEMMA RunMoves ==
  ASSUME Typed, RelayInv, Step
  PROVE  \/ run' = run
         \/ \E a \in Agent, source \in Sources \cup {"task"} : NewRun(a, source)
         \/ \E r \in RunId, status \in {"completed", "interrupted"} : FinishRun(r, status)
<1>1. bound.source \subseteq Sources /\ \A t \in TaskId : task[t].target \in Agent
  BY Rows, TimelineAssumption DEF Typed, TypeOK, Task
<1>2. CASE \E a \in Agent, source \in bound.source : CreateRun(a, source)
  BY <1>1, <1>2 DEF CreateRun
<1>3. CASE \E t \in TaskId : StartCollaboration(t)
  BY <1>1, <1>3 DEF StartCollaboration
<1>4. CASE \E r \in RunId : StopRun(r)
  BY <1>4 DEF StopRun
<1>5. CASE \E r \in RunId : RelayFinishes(r)
  BY <1>5, FinishesCompleted DEF RelayFinishes
<1>6. CASE \E r \in RunId : \/ WorkerAppends(r) \/ WorkerFinishes(r) \/ StoreFails(r) \/ CancelRelay(r)
                            \/ RelayRun(r) \/ RelayPolls(r) \/ AppendWorkerEvent(r)
  BY <1>6 DEF WorkerAppends, WorkerFinishes, StoreFails, CancelRelay, RelayRun, RelayPolls, AppendWorkerEvent
<1>7. CASE \/ \E a, b \in Agent : EnqueueTask(a, b)
           \/ ReconcileCollaborationTasks \/ SyncCollaborationTimeline
           \/ \E a \in Agent : OtherResets(a) \/ SelectAgent(a)
           \/ BrowserResets \/ ReceiveReset
  BY <1>7 DEF EnqueueTask, ReconcileCollaborationTasks, SyncCollaborationTimeline, OtherResets, SelectAgent,
     BrowserResets, ReceiveReset
<1>8. CASE HandlerStep \/ Refresh \/ Receive \/ LoadEarlier \/ RequestFails \/ Restart
  BY <1>8, HandlerWrites, PanelWrites DEF RequestFails, Restart
<1>9. CASE UNCHANGED vars
  BY <1>9 DEF vars
<1> QED
  BY <1>2, <1>3, <1>4, <1>5, <1>6, <1>7, <1>8, <1>9 DEF Step, Next, RelayStep

\* The steps that write rows of the timeline.
LEMMA TimelineMoves ==
  ASSUME Typed, RelayInv, Step
  PROVE  \/ timeline' = timeline
         \/ \E a \in Agent, source \in Sources \cup {"task"} : NewRun(a, source)
         \/ \E r \in RunId, status \in {"completed", "interrupted"} : FinishRun(r, status)
         \/ \E r \in RunId : AppendWorkerEvent(r)
         \/ \E a \in Agent : ResetAgentConversation(a)
         \/ timeline' = Synced
<1>1. /\ bound.source \subseteq Sources /\ \A t \in TaskId : task[t].target \in Agent
      /\ browser.agent \in Agent
  BY Rows, TimelineAssumption DEF Typed, TypeOK, Task, Browser
<1>2. CASE \E a \in Agent, source \in bound.source : CreateRun(a, source)
  BY <1>1, <1>2 DEF CreateRun
<1>3. CASE \E t \in TaskId : StartCollaboration(t)
  BY <1>1, <1>3 DEF StartCollaboration
<1>4. CASE \E r \in RunId : StopRun(r)
  BY <1>4 DEF StopRun
<1>5. CASE \E r \in RunId : RelayFinishes(r)
  BY <1>5, FinishesCompleted DEF RelayFinishes
<1>6. CASE \E r \in RunId : \/ WorkerAppends(r) \/ WorkerFinishes(r) \/ StoreFails(r) \/ CancelRelay(r)
                            \/ RelayRun(r) \/ RelayPolls(r) \/ AppendWorkerEvent(r)
  BY <1>6 DEF WorkerAppends, WorkerFinishes, StoreFails, CancelRelay, RelayRun, RelayPolls
<1>7. CASE \/ \E a, b \in Agent : EnqueueTask(a, b)
           \/ ReconcileCollaborationTasks \/ SyncCollaborationTimeline
           \/ \E a \in Agent : OtherResets(a) \/ SelectAgent(a)
           \/ BrowserResets \/ ReceiveReset
  BY <1>1, <1>7 DEF EnqueueTask, ReconcileCollaborationTasks, SyncCollaborationTimeline, OtherResets, SelectAgent,
     BrowserResets, ReceiveReset
<1>8. CASE HandlerStep \/ Refresh \/ Receive \/ LoadEarlier \/ RequestFails \/ Restart
  BY <1>8, HandlerWrites, PanelWrites DEF RequestFails, Restart
<1>9. CASE UNCHANGED vars
  BY <1>9 DEF vars
<1> QED
  BY <1>2, <1>3, <1>4, <1>5, <1>6, <1>7, <1>8, <1>9 DEF Step, Next, RelayStep

\* What adding a row to one of several tables of the same length does.
LEMMA TableGrows ==
  ASSUME NEW S, NEW n \in Nat, NEW s \in [1..n -> S], NEW e \in S
  PROVE  /\ Append(s, e) \in [(1..n) \cup {n + 1} -> S] /\ Append(s, e)[n + 1] = e
         /\ \A k \in 1..n : Append(s, e)[k] = s[k]
<1>1. s \in Seq(S) /\ Len(s) = n /\ DOMAIN s = 1..n
  BY IsASeq, LenProperties
<1>2. /\ Append(s, e) \in Seq(S) /\ DOMAIN Append(s, e) = (1..n) \cup {n + 1}
      /\ Append(s, e)[n + 1] = e /\ \A k \in 1..n : Append(s, e)[k] = s[k]
  BY <1>1, Pushed
<1>3. Append(s, e) \in [DOMAIN Append(s, e) -> S]
  BY <1>2, LenProperties
<1> QED
  BY <1>2, <1>3

\* The tables of a run get a row each.
LEMMA NewRunRows ==
  ASSUME Typed, NEW a \in Agent, NEW source \in Sources \cup {"task"}, NewRun(a, source)
  PROVE  LET r == Len(run) + 1
         IN  /\ run' \in Seq(Run) /\ RunId' = RunId \cup {r} /\ r \notin RunId /\ r \in Nat
             /\ run'[r] = [agent |-> a, source |-> source, status |-> "active"]
             /\ outbox' \in [RunId' -> Outbox] /\ events' \in [RunId' -> SUBSET (1..bound.event)]
             /\ relay' \in [RunId' -> Relay]
             /\ \A k \in RunId : /\ run'[k] = run[k] /\ outbox'[k] = outbox[k]
                                 /\ events'[k] = events[k] /\ relay'[k] = relay[k]
             /\ outbox'[r] = [log |-> {}, status |-> "running", final |-> {}] /\ events'[r] = {}
             /\ relay'[r] = [pc |-> "new", after |-> 0, batch |-> {}, status |-> "running"]
<1> DEFINE r == Len(run) + 1
           row == [agent |-> a, source |-> source, status |-> "active"]
           out == [log |-> {}, status |-> "running", final |-> {}]
           rel == [pc |-> "new", after |-> 0, batch |-> {}, status |-> "running"]
<1>1. /\ run \in Seq(Run) /\ RunId = 1..Len(run) /\ Len(run) \in Nat
      /\ outbox \in [RunId -> Outbox] /\ events \in [RunId -> SUBSET (1..bound.event)]
      /\ relay \in [RunId -> Relay]
  BY Rows DEF Typed, TypeOK
<1>2. row \in Run /\ out \in Outbox /\ rel \in Relay /\ {} \in SUBSET (1..bound.event)
  BY DEF Run, RunStatus, Outbox, Relay, RelayPC
<1>3. /\ run' = Append(run, row) /\ outbox' = Append(outbox, out)
      /\ events' = Append(events, {}) /\ relay' = Append(relay, rel)
  BY DEF NewRun
<1> HIDE DEF row, out, rel
<1>5. /\ run' \in Seq(Run) /\ DOMAIN run' = (DOMAIN run) \cup {r} /\ run'[r] = row
      /\ \A k \in DOMAIN run : run'[k] = run[k]
  BY <1>1, <1>2, <1>3, Pushed
<1>6. RunId' = RunId \cup {r} /\ r \notin RunId /\ r \in Nat /\ DOMAIN run = RunId
  BY <1>1, <1>5 DEF RunId
<1>7. RunId' = (1..Len(run)) \cup {r}
  BY <1>1, <1>6
<1>8. outbox' \in [RunId' -> Outbox] /\ outbox'[r] = out /\ \A k \in RunId : outbox'[k] = outbox[k]
  <2>1. outbox \in [1..Len(run) -> Outbox]
    BY <1>1
  <2>2. /\ Append(outbox, out) \in [(1..Len(run)) \cup {Len(run) + 1} -> Outbox]
        /\ Append(outbox, out)[Len(run) + 1] = out
        /\ \A k \in 1..Len(run) : Append(outbox, out)[k] = outbox[k]
    <3>1. Len(run) \in Nat /\ out \in Outbox
      BY <1>1, <1>2
    <3> QED
      BY <2>1, <3>1, TableGrows
  <2> QED
    BY <1>1, <1>3, <1>7, <2>2
<1>9. events' \in [RunId' -> SUBSET (1..bound.event)] /\ events'[r] = {} /\ \A k \in RunId : events'[k] = events[k]
  <2> DEFINE Stored == SUBSET (1..bound.event)
             none == {}
  <2>1. events \in [1..Len(run) -> Stored] /\ none \in Stored /\ Len(run) \in Nat
    BY <1>1
  <2>2. events' = Append(events, none)
    BY <1>3
  <2>3. none = {} /\ Stored = SUBSET (1..bound.event)
    OBVIOUS
  <2> HIDE DEF Stored, none
  <2>4. /\ Append(events, none) \in [(1..Len(run)) \cup {Len(run) + 1} -> Stored]
        /\ Append(events, none)[Len(run) + 1] = none
        /\ \A k \in 1..Len(run) : Append(events, none)[k] = events[k]
    BY <2>1, TableGrows
  <2> QED
    BY <1>1, <1>7, <2>2, <2>3, <2>4
<1>10. relay' \in [RunId' -> Relay] /\ relay'[r] = rel /\ \A k \in RunId : relay'[k] = relay[k]
  <2>1. relay \in [1..Len(run) -> Relay]
    BY <1>1
  <2>2. /\ Append(relay, rel) \in [(1..Len(run)) \cup {Len(run) + 1} -> Relay]
        /\ Append(relay, rel)[Len(run) + 1] = rel
        /\ \A k \in 1..Len(run) : Append(relay, rel)[k] = relay[k]
    <3>1. Len(run) \in Nat /\ rel \in Relay
      BY <1>1, <1>2
    <3> QED
      BY <2>1, <3>1, TableGrows
  <2> QED
    BY <1>1, <1>3, <1>7, <2>2
<1> QED
  BY <1>5, <1>6, <1>8, <1>9, <1>10 DEF row, out, rel

\* Runs stay, with their agent and source; at most the status of one changes.
RunsGrow ==
  /\ run' \in Seq(Run) /\ RunId \subseteq RunId'
  /\ \A r \in RunId : run'[r].agent = run[r].agent /\ run'[r].source = run[r].source

\* A run with another status is the same run otherwise.
LEMMA StatusSet ==
  ASSUME Typed, NEW r \in RunId, NEW status \in {"completed", "interrupted"},
         run' = [run EXCEPT ![r].status = status]
  PROVE  /\ run' \in Seq(Run) /\ RunId' = RunId
         /\ run'[r] = [run[r] EXCEPT !.status = status]
         /\ run'[r].status = status /\ run'[r].agent = run[r].agent /\ run'[r].source = run[r].source
         /\ \A k \in RunId : k # r => run'[k] = run[k]
<1> DEFINE row == [run[r] EXCEPT !.status = status]
<1>1. run \in Seq(Run) /\ run[r] \in Run /\ r \in DOMAIN run
  BY Rows DEF Typed, TypeOK, RunId
<1>2. row \in Run /\ row.status = status /\ row.agent = run[r].agent /\ row.source = run[r].source
  BY <1>1 DEF Run, RunStatus
<1>3. run' = [run EXCEPT ![r] = row]
  OBVIOUS
<1> HIDE DEF row
<1>4. /\ run' \in Seq(Run) /\ DOMAIN run' = DOMAIN run /\ run'[r] = row
      /\ \A k \in DOMAIN run : k # r => run'[k] = run[k]
  BY <1>1, <1>2, <1>3, RowChanged
<1> QED
  BY <1>2, <1>4 DEF RunId, row

\* Runs are never removed, and neither their agent nor their source changes.
LEMMA RunsMove ==
  ASSUME Typed, RelayInv, Step
  PROVE  RunsGrow
<1>1. run \in Seq(Run)
  BY DEF Typed, TypeOK
<1>2. CASE run' = run
  BY <1>1, <1>2 DEF RunsGrow, RunId
<1>3. CASE \E a \in Agent, source \in Sources \cup {"task"} : NewRun(a, source)
  BY <1>3, NewRunRows DEF RunsGrow
<1>4. CASE \E r \in RunId, status \in {"completed", "interrupted"} : FinishRun(r, status)
  <2>1. PICK r \in RunId, status \in {"completed", "interrupted"} : FinishRun(r, status)
    BY <1>4
  <2> QED
    BY <2>1, StatusSet DEF FinishRun, RunsGrow
<1> QED
  BY <1>2, <1>3, <1>4, RunMoves

\* Whether a run is that of a schedule never changes.
LEMMA ScheduledStays ==
  ASSUME Typed, RunsGrow, NEW r \in RunId \cup {0}
  PROVE  Scheduled(r)' <=> Scheduled(r)
BY DEF Scheduled, RunsGrow

\* Tasks stay, with their participants; their version grows.
TasksGrow ==
  /\ task' \in Seq(Task) /\ TaskId \subseteq TaskId'
  /\ \A t \in TaskId :
       /\ task'[t].sender = task[t].sender /\ task'[t].senderRun = task[t].senderRun
       /\ task'[t].target = task[t].target /\ task[t].version <= task'[t].version
       /\ \/ task'[t].run = task[t].run
          \/ task'[t].run # 0 /\ task'[t].run \notin RunId /\ task'[t].run \in RunId'
             /\ run'[task'[t].run].source = "task"

\* The steps that write rows of tasks.
LEMMA TaskMoves ==
  ASSUME Typed, RelayInv, Step
  PROVE  \/ task' = task
         \/ \E a, b \in Agent : EnqueueTask(a, b)
         \/ \E t \in TaskId : StartCollaboration(t)
         \/ task' = Reconciled
<1>1. CASE \/ \E a \in Agent, source \in bound.source : CreateRun(a, source)
           \/ \E r \in RunId : RelayFinishes(r)
  BY <1>1 DEF CreateRun, RelayFinishes
<1>2. CASE \E r \in RunId : \/ WorkerAppends(r) \/ WorkerFinishes(r) \/ StoreFails(r) \/ CancelRelay(r)
                            \/ RelayRun(r) \/ RelayPolls(r) \/ AppendWorkerEvent(r) \/ StopRun(r)
  BY <1>2 DEF WorkerAppends, WorkerFinishes, StoreFails, CancelRelay, RelayRun, RelayPolls, AppendWorkerEvent,
     StopRun
<1>3. CASE \/ ReconcileCollaborationTasks \/ SyncCollaborationTimeline
           \/ \E a \in Agent : OtherResets(a) \/ SelectAgent(a)
  BY <1>3 DEF ReconcileCollaborationTasks, SyncCollaborationTimeline, OtherResets, SelectAgent
<1>6. CASE BrowserResets \/ ReceiveReset
  BY <1>6 DEF BrowserResets, ReceiveReset
<1>4. CASE HandlerStep \/ Refresh \/ Receive \/ LoadEarlier \/ RequestFails \/ Restart
  BY <1>4, HandlerWrites, PanelWrites DEF RequestFails, Restart
<1>5. CASE UNCHANGED vars
  BY <1>5 DEF vars
<1> QED
  BY <1>1, <1>2, <1>3, <1>4, <1>5, <1>6 DEF Step, Next, RelayStep

\* A task with another status has a new version and is the same otherwise.
LEMMA TaskEdited ==
  ASSUME NEW row \in Task, NEW status \in TaskStatus
  PROVE  LET new == [row EXCEPT !.status = status, !.version = @ + 1]
         IN  /\ new \in Task /\ new.status = status /\ new.version = row.version + 1
             /\ new.run = row.run /\ new.sender = row.sender /\ new.senderRun = row.senderRun
             /\ new.target = row.target
<1> DEFINE new == [row EXCEPT !.status = status, !.version = @ + 1]
           one == [row EXCEPT !.status = status]
<1>1. one \in Task /\ one.status = status /\ one.version = row.version /\ row.version \in Nat
  BY DEF Task
<1>2. /\ one.run = row.run /\ one.sender = row.sender /\ one.senderRun = row.senderRun
      /\ one.target = row.target
  BY DEF Task
<1>3. new = [one EXCEPT !.version = row.version + 1]
  BY DEF Task
<1> HIDE DEF one
<1>4. [one EXCEPT !.version = row.version + 1] \in Task
  BY <1>1 DEF Task
<1>5. /\ new.status = one.status /\ new.version = row.version + 1 /\ new.run = one.run
      /\ new.sender = one.sender /\ new.senderRun = one.senderRun /\ new.target = one.target
  BY <1>1, <1>3 DEF Task
<1> HIDE DEF new
<1> QED
  BY <1>1, <1>2, <1>3, <1>4, <1>5 DEF new
\* A task that takes over the outcome of its run.
LEMMA ReconciledTask ==
  ASSUME Typed, task' = Reconciled
  PROVE  /\ task' \in Seq(Task) /\ TaskId' = TaskId
         /\ \A t \in TaskId :
              \/ task'[t] = task[t]
              \/ /\ task[t].status = "running" /\ task[t].run \in RunId
                 /\ task'[t].status = run[task[t].run].status /\ task'[t].status # "active"
                 /\ task'[t].version = task[t].version + 1 /\ task'[t].run = task[t].run
                 /\ task'[t].sender = task[t].sender /\ task'[t].senderRun = task[t].senderRun
                 /\ task'[t].target = task[t].target
<1>1. /\ TaskId = 1..Len(task) /\ Len(task) \in Nat /\ \A t \in TaskId : task[t] \in Task
      /\ \A r \in RunId : run[r] \in Run
      /\ \A t \in TaskId : task[t].run \in RunId \cup {0} /\ TaskRefers(t)
  BY Rows DEF Typed, TypeOK
<1>2. task' = [t \in TaskId |-> task'[t]] /\ TaskId' = TaskId
  BY DEF Reconciled, TaskId
<1>3. ASSUME NEW t \in TaskId
      PROVE  /\ task'[t] \in Task
             /\ \/ task'[t] = task[t]
                \/ /\ task[t].status = "running" /\ task[t].run \in RunId
                   /\ task'[t].status = run[task[t].run].status /\ task'[t].status # "active"
                   /\ task'[t].version = task[t].version + 1 /\ task'[t].run = task[t].run
                   /\ task'[t].sender = task[t].sender /\ task'[t].senderRun = task[t].senderRun
                   /\ task'[t].target = task[t].target
  <2> DEFINE running == task[t].status = "running" /\ run[task[t].run].status # "active"
             new == [task[t] EXCEPT !.status = run[task[t].run].status, !.version = @ + 1]
  <2>1. task'[t] = IF running THEN new ELSE task[t]
    BY DEF Reconciled
  <2>2. task[t].status = "running" => task[t].run \in RunId
    BY <1>1 DEF TaskRefers
  <2>3. CASE running
    <3>1. run[task[t].run].status \in {"completed", "interrupted"}
      BY <1>1, <2>2, <2>3 DEF Run, RunStatus
    <3>2. run[task[t].run].status \in TaskStatus /\ task[t] \in Task
      BY <1>1, <3>1 DEF TaskStatus
    <3>3. /\ new \in Task /\ new.status = run[task[t].run].status /\ new.version = task[t].version + 1
          /\ new.run = task[t].run /\ new.sender = task[t].sender /\ new.senderRun = task[t].senderRun
          /\ new.target = task[t].target
      BY <3>2, TaskEdited
    <3>4. new.status # "active"
      BY <3>1, <3>3
    <3> HIDE DEF new
    <3> QED
      BY <2>1, <2>2, <2>3, <3>3, <3>4
  <2>4. CASE ~running
    BY <1>1, <2>1, <2>4
  <2> QED
    BY <2>3, <2>4
<1>4. task' \in [1..Len(task) -> Task]
  BY <1>1, <1>2, <1>3
<1>5. task' \in Seq(Task)
  BY <1>1, <1>4, IsASeq
<1> QED
  BY <1>2, <1>3, <1>5

\* The active run is one of the agent's runs, or none.
LEMMA ActiveRunIs ==
  ASSUME NEW a
  PROVE  ActiveRun(a) \in RunId \cup {0} /\ ActiveRuns(a) \subseteq RunId
BY DEF ActiveRun, ActiveRuns

\* So it is a number.
LEMMA ActiveRunCounts ==
  ASSUME TypeOK, NEW a
  PROVE  ActiveRun(a) \in Nat
<1>1. RunId \cup {0} \subseteq Nat
  BY Rows
<1>2. ActiveRun(a) \in RunId \cup {0}
  BY ActiveRunIs
<1> QED
  BY <1>1, <1>2

\* A task that is started.
LEMMA TaskStarted ==
  ASSUME NEW row \in Task, NEW r \in Nat
  PROVE  LET new == [row EXCEPT !.status = "running", !.run = r, !.version = @ + 1]
         IN  /\ new \in Task /\ new.status = "running" /\ new.version = row.version + 1
             /\ new.run = r /\ new.sender = row.sender /\ new.senderRun = row.senderRun
             /\ new.target = row.target
<1> DEFINE new == [row EXCEPT !.status = "running", !.run = r, !.version = @ + 1]
           one == [row EXCEPT !.run = r]
           two == [one EXCEPT !.status = "running", !.version = @ + 1]
<1>1. /\ one \in Task /\ one.run = r /\ one.version = row.version /\ one.sender = row.sender
      /\ one.senderRun = row.senderRun /\ one.target = row.target
  BY DEF Task
<1>2. "running" \in TaskStatus
  BY DEF TaskStatus
<1>3. new = two
  BY DEF Task
<1> HIDE DEF one
<1>4. /\ two \in Task /\ two.status = "running" /\ two.version = one.version + 1
      /\ two.run = one.run /\ two.sender = one.sender /\ two.senderRun = one.senderRun
      /\ two.target = one.target
  BY <1>1, <1>2, TaskEdited
<1> HIDE DEF two, new
<1>5. /\ new \in Task /\ new.status = "running" /\ new.version = row.version + 1
      /\ new.run = r /\ new.sender = row.sender /\ new.senderRun = row.senderRun
      /\ new.target = row.target
  BY <1>1, <1>3, <1>4
<1> QED
  BY <1>5 DEF new

\* What becomes of the table of tasks, and what its rows refer to.
LEMMA TasksMove ==
  ASSUME Typed, RelayInv, Step
  PROVE  /\ TasksGrow
         /\ \A t \in TaskId' : /\ task'[t].run \in RunId' \cup {0} /\ task'[t].senderRun \in RunId' \cup {0}
                               /\ TaskRefers(t)'
<1>1. /\ task \in Seq(Task) /\ TaskId = 1..Len(task) /\ Len(task) \in Nat
      /\ \A t \in TaskId : task[t] \in Task
      /\ \A t \in TaskId : task[t].run \in RunId \cup {0} /\ task[t].senderRun \in RunId \cup {0}
      /\ \A t \in TaskId : TaskRefers(t)
      /\ RunId \subseteq Nat /\ 0 \notin RunId
  BY Rows DEF Typed, TypeOK
<1>2. RunsGrow
  BY RunsMove
<1>3. \A r \in RunId : r \in RunId' /\ run'[r].source = run[r].source
  BY <1>2 DEF RunsGrow
<1>4. \A t \in TaskId : task[t].version \in Nat
  BY <1>1 DEF Task
<1>kept. ASSUME NEW t \in TaskId,
                task'[t].run = task[t].run, task'[t].senderRun = task[t].senderRun,
                task'[t].sender = task[t].sender, task'[t].target = task[t].target,
                task'[t].status = "running" => task[t].run # 0
         PROVE  /\ task'[t].run \in RunId' \cup {0} /\ task'[t].senderRun \in RunId' \cup {0}
                /\ TaskRefers(t)'
  <2>1. task[t].run \in RunId \cup {0} /\ task[t].senderRun \in RunId \cup {0} /\ TaskRefers(t)
    BY <1>1
  <2>2. RunId \subseteq RunId'
    BY <1>3
  <2>3. task[t].sender # task[t].target
    BY <2>1 DEF TaskRefers
  <2>4. task[t].run # 0 => run'[task[t].run].source = "task"
    BY <1>3, <2>1 DEF TaskRefers
  <2> QED
    BY <1>kept, <2>1, <2>2, <2>3, <2>4 DEF TaskRefers
<1>same. ASSUME NEW t \in TaskId, task'[t] = task[t]
         PROVE  /\ task'[t].run \in RunId' \cup {0} /\ task'[t].senderRun \in RunId' \cup {0}
                /\ TaskRefers(t)'
  <2>1. task[t].status = "running" => task[t].run # 0
    BY <1>1 DEF TaskRefers
  <2> QED
    BY <1>same, <1>kept, <2>1
<1>5. CASE task' = task
  <2>1. TaskId' = TaskId
    BY <1>5 DEF TaskId
  <2>2. TasksGrow
    BY <1>1, <1>4, <1>5, <2>1 DEF TasksGrow
  <2> QED
    BY <1>5, <1>same, <2>1, <2>2
<1>6. CASE \E a, b \in Agent : EnqueueTask(a, b)
  <2>1. PICK a \in Agent, b \in Agent : EnqueueTask(a, b)
    BY <1>6
  <2> DEFINE row == [sender |-> a, senderRun |-> ActiveRun(a), target |-> b,
                     run |-> 0, status |-> "queued", version |-> 1]
  <2>2. /\ row \in Task /\ row.run = 0 /\ row.status = "queued" /\ row.sender # row.target
        /\ row.senderRun \in RunId \cup {0}
    <3>1. ActiveRun(a) \in RunId \cup {0}
      BY ActiveRunIs
    <3>2. ActiveRun(a) \in Nat
      BY ActiveRunCounts DEF Typed
    <3>3. a # b
      BY <2>1 DEF EnqueueTask
    <3>4. row \in Task
      BY <3>2 DEF Task, TaskStatus
    <3> QED
      BY <3>1, <3>3, <3>4
  <2>3. task' = Append(task, row)
    BY <2>1 DEF EnqueueTask
  <2> HIDE DEF row
  <2>4. /\ task' \in Seq(Task) /\ DOMAIN task' = (DOMAIN task) \cup {Len(task) + 1}
        /\ \A t \in DOMAIN task : task'[t] = task[t]
        /\ task'[Len(task) + 1] = row
    BY <1>1, <2>2, <2>3, Pushed
  <2>5. TaskId' = TaskId \cup {Len(task) + 1} /\ \A t \in TaskId : task'[t] = task[t]
    BY <2>4 DEF TaskId
  <2>6. TasksGrow
    BY <1>1, <1>4, <2>4, <2>5 DEF TasksGrow
  <2>7. ASSUME NEW t \in TaskId
        PROVE  /\ task'[t].run \in RunId' \cup {0} /\ task'[t].senderRun \in RunId' \cup {0}
               /\ TaskRefers(t)'
    BY <1>same, <2>5
  <2>8. ASSUME NEW t, t = Len(task) + 1
        PROVE  /\ task'[t].run \in RunId' \cup {0} /\ task'[t].senderRun \in RunId' \cup {0}
               /\ TaskRefers(t)'
    BY <1>3, <2>2, <2>4, <2>8 DEF TaskRefers
  <2> QED
    BY <2>5, <2>6, <2>7, <2>8
<1>7. CASE \E t \in TaskId : StartCollaboration(t)
  <2>1. PICK t \in TaskId : StartCollaboration(t)
    BY <1>7
  <2> DEFINE r == Len(run) + 1
             row == [task[t] EXCEPT !.status = "running", !.run = r, !.version = @ + 1]
  <2>2. task[t].target \in Agent /\ task[t] \in Task /\ "task" \in Sources \cup {"task"}
    BY <1>1 DEF Task
  <2>3. NewRun(task[t].target, "task")
    BY <2>1 DEF StartCollaboration
  <2>4. /\ RunId' = RunId \cup {r} /\ r \notin RunId /\ r \in Nat
        /\ run'[r] = [agent |-> task[t].target, source |-> "task", status |-> "active"]
    BY <2>2, <2>3, NewRunRows
  <2>5. run'[r].source = "task" /\ r # 0
    BY <1>1, <2>4, Rows DEF Typed
  <2>6. /\ row \in Task /\ row.status = "running" /\ row.version = task[t].version + 1
        /\ row.run = r /\ row.sender = task[t].sender /\ row.senderRun = task[t].senderRun
        /\ row.target = task[t].target
    BY <2>2, <2>4, TaskStarted
  <2>7. task' = [task EXCEPT ![t] = row]
    BY <2>1 DEF StartCollaboration
  <2> HIDE DEF row, r
  <2>8. /\ task' \in Seq(Task) /\ DOMAIN task' = DOMAIN task /\ task'[t] = row
        /\ \A u \in DOMAIN task : u # t => task'[u] = task[u]
    BY <1>1, <2>6, <2>7, RowChanged DEF TaskId
  <2>9. TaskId' = TaskId /\ \A u \in TaskId : u # t => task'[u] = task[u]
    BY <2>8 DEF TaskId
  <2>10. TasksGrow
    BY <1>4, <2>4, <2>5, <2>6, <2>8, <2>9 DEF TasksGrow
  <2>11. ASSUME NEW u \in TaskId
         PROVE  /\ task'[u].run \in RunId' \cup {0} /\ task'[u].senderRun \in RunId' \cup {0}
                /\ TaskRefers(u)'
    <3>1. CASE u = t
      BY <1>1, <1>3, <2>4, <2>5, <2>6, <2>8, <3>1 DEF TaskRefers
    <3>2. CASE u # t
      BY <1>same, <2>9, <3>2
    <3> QED
      BY <3>1, <3>2
  <2> QED
    BY <2>9, <2>10, <2>11
<1>8. CASE task' = Reconciled
  <2>1. /\ task' \in Seq(Task) /\ TaskId' = TaskId
        /\ \A t \in TaskId :
             \/ task'[t] = task[t]
             \/ /\ task[t].status = "running" /\ task[t].run \in RunId
                /\ task'[t].status = run[task[t].run].status /\ task'[t].status # "active"
                /\ task'[t].version = task[t].version + 1 /\ task'[t].run = task[t].run
                /\ task'[t].sender = task[t].sender /\ task'[t].senderRun = task[t].senderRun
                /\ task'[t].target = task[t].target
    BY <1>8, ReconciledTask
  <2>2. TasksGrow
    BY <1>4, <2>1 DEF TasksGrow
  <2>3. ASSUME NEW t \in TaskId
        PROVE  /\ task'[t].run \in RunId' \cup {0} /\ task'[t].senderRun \in RunId' \cup {0}
               /\ TaskRefers(t)'
    <3>1. CASE task'[t] = task[t]
      BY <1>same, <3>1
    <3>2. CASE /\ task[t].run \in RunId /\ task'[t].run = task[t].run
               /\ task'[t].sender = task[t].sender /\ task'[t].senderRun = task[t].senderRun
               /\ task'[t].target = task[t].target
      BY <1>1, <1>kept, <3>2
    <3> QED
      BY <2>1, <3>1, <3>2
  <2> QED
    BY <2>1, <2>2, <2>3
<1> QED
  BY <1>5, <1>6, <1>7, <1>8, TaskMoves

\* The rows of a run: its outbox, what is stored of it, and its relay.
RunRows(n, out, stored, rel) ==
  /\ out \in Outbox /\ stored \subseteq 1..n /\ rel \in Relay
  /\ stored \subseteq out.log /\ rel.batch \subseteq out.log /\ out.final \subseteq out.log
  /\ out.log \subseteq 1..n

\* Fields of the three records.
LEMMA RunRowFields ==
  ASSUME NEW n \in Nat, NEW out, NEW stored, NEW rel, RunRows(n, out, stored, rel)
  PROVE  /\ out.log \subseteq Nat /\ out.status \in {"running", "completed"} /\ out.final \subseteq Nat
         /\ rel.pc \in RelayPC /\ rel.after \in Nat /\ rel.batch \subseteq Nat
         /\ rel.status \in {"running", "completed"} /\ stored \subseteq Nat
         /\ \A s \in out.log : s \in Nat /\ 0 < s
<1>1. out \in Outbox /\ rel \in Relay /\ out.log \subseteq 1..n /\ stored \subseteq 1..n
  BY DEF RunRows
<1>2. \A s \in 1..n : s \in Nat /\ 0 < s
  OBVIOUS
<1> QED
  BY <1>1, <1>2 DEF Outbox, Relay

\* The worker appends an event.
LEMMA AppendKeepsCopy ==
  ASSUME NEW n \in Nat, NEW status, NEW out, NEW stored, NEW rel, RunRows(n, out, stored, rel),
         Copied(status, out, stored, rel), NEW s \in 1..n, \A old \in out.log : old < s
  PROVE  LET new == [out EXCEPT !.log = @ \cup {s}]
         IN  RunRows(n, new, stored, rel) /\ Copied(status, new, stored, rel)
<1> DEFINE new == [out EXCEPT !.log = @ \cup {s}]
<1>1. /\ out \in Outbox /\ out.log \subseteq 1..n /\ stored \subseteq out.log /\ rel.batch \subseteq out.log
      /\ out.final \subseteq out.log /\ stored \subseteq 1..n /\ rel \in Relay
  BY DEF RunRows
<1>2. /\ new \in Outbox /\ new.log = out.log \cup {s} /\ new.status = out.status /\ new.final = out.final
  BY <1>1 DEF Outbox
<1> HIDE DEF new
<1>3. s \in Nat /\ 0 < s /\ \A x \in 1..n : x \in Nat
  OBVIOUS
<1>4. RunRows(n, new, stored, rel)
  BY <1>1, <1>2 DEF RunRows
<1>5. rel.after < s
  BY <1>1, <1>3 DEF Copied
<1>6. \A e \in stored : \A x \in new.log : x <= e => x \in stored
  <2>1. \A e \in stored : ~(s <= e)
    BY <1>1, <1>3
  <2> QED
    BY <1>2, <2>1 DEF Copied
<1>7. ASSUME Storing(out, stored, rel) PROVE Storing(new, stored, rel)
  BY <1>1, <1>2, <1>7 DEF Storing
<1>8. Copied(status, new, stored, rel)
  BY <1>2, <1>6, <1>7 DEF Copied
<1> QED
  BY <1>4, <1>8 DEF new

\* The turn ends.
LEMMA FinishKeepsCopy ==
  ASSUME NEW n \in Nat, NEW status, NEW out, NEW stored, NEW rel, RunRows(n, out, stored, rel),
         Copied(status, out, stored, rel), out.status = "running"
  PROVE  LET new == [out EXCEPT !.status = "completed", !.final = out.log]
         IN  RunRows(n, new, stored, rel) /\ Copied(status, new, stored, rel)
<1> DEFINE new == [out EXCEPT !.status = "completed", !.final = out.log]
<1>1. out \in Outbox
  BY DEF RunRows
<1>2. /\ new \in Outbox /\ new.log = out.log /\ new.status = "completed" /\ new.final = out.log
  BY <1>1 DEF Outbox
<1> HIDE DEF new
<1>3. RunRows(n, new, stored, rel)
  BY <1>2 DEF RunRows
<1>4. Storing(out, stored, rel) => Storing(new, stored, rel)
  BY <1>2 DEF Storing
<1>5. Copied(status, new, stored, rel)
  BY <1>2, <1>4 DEF Copied
<1> QED
  BY <1>3, <1>5 DEF new

\* A relay begins.
LEMMA BeginKeepsCopy ==
  ASSUME NEW n \in Nat, NEW status, NEW out, NEW stored, NEW rel, RunRows(n, out, stored, rel),
         Copied(status, out, stored, rel)
  PROVE  LET new == [pc |-> "polling", after |-> IF stored = {} THEN 0 ELSE SetMax(stored),
                     batch |-> {}, status |-> "running"]
         IN  RunRows(n, out, stored, new) /\ Copied(status, out, stored, new)
<1> DEFINE after == IF stored = {} THEN 0 ELSE SetMax(stored)
           new == [pc |-> "polling", after |-> after, batch |-> {}, status |-> "running"]
<1>1. stored \subseteq 1..n /\ stored \subseteq Nat /\ stored \subseteq 0..n
  BY DEF RunRows
<1>2. after \in stored \cup {0} /\ after \in Nat /\ \A e \in stored : e <= after
  BY <1>1, MaxIsGreatest
<1> HIDE DEF after
<1>3. /\ new \in Relay /\ new.pc = "polling" /\ new.after = after /\ new.batch = {}
  BY <1>2 DEF Relay, RelayPC
<1> HIDE DEF new
<1>4. RunRows(n, out, stored, new)
  BY <1>3 DEF RunRows
<1>5. Copied(status, out, stored, new)
  BY <1>2, <1>3 DEF Copied
<1> QED
  BY <1>4, <1>5 DEF new, after

\* It polls.
LEMMA PollKeepsCopy ==
  ASSUME NEW n \in Nat, NEW status, NEW out, NEW stored, NEW rel, RunRows(n, out, stored, rel),
         Copied(status, out, stored, rel), rel.pc = "polling",
         NEW batch, batch = {s \in out.log : s > rel.after}, batch # {} \/ out.status # "running"
  PROVE  LET new == [rel EXCEPT !.pc = "storing", !.status = out.status, !.batch = batch]
         IN  RunRows(n, out, stored, new) /\ Copied(status, out, stored, new)
<1> DEFINE new == [rel EXCEPT !.pc = "storing", !.status = out.status, !.batch = batch]
<1>1. /\ out.log \subseteq Nat /\ out.status \in {"running", "completed"} /\ rel.after \in Nat
      /\ \A s \in out.log : s \in Nat /\ 0 < s
  BY RunRowFields
<1>2. rel \in Relay /\ stored \subseteq out.log /\ out.final \subseteq out.log
  BY DEF RunRows
<1>3. /\ new \in Relay /\ new.pc = "storing" /\ new.after = rel.after /\ new.batch = batch
      /\ new.status = out.status
  BY <1>1, <1>2 DEF Relay, RelayPC
<1> HIDE DEF new
<1>4. RunRows(n, out, stored, new)
  BY <1>3 DEF RunRows
<1>5. \A s \in out.log : s \in stored \/ s \in batch
  <2>1. ASSUME NEW s \in out.log, ~(s > rel.after) PROVE s \in stored
    <3>1. s <= rel.after /\ rel.after \in stored
      BY <1>1, <2>1 DEF Copied
    <3> QED
      BY <3>1 DEF Copied
  <2> QED
    BY <2>1
<1>6. Storing(out, stored, new)
  <2>1. \A b \in batch : rel.after < b
    BY <1>1
  <2>2. \A s \in out.log : rel.after < s => s \in batch
    BY <1>1
  <2> QED
    BY <1>1, <1>2, <1>3, <1>5, <2>1, <2>2 DEF Storing
<1>7. Copied(status, out, stored, new)
  BY <1>3, <1>6 DEF Copied
<1> QED
  BY <1>4, <1>7 DEF new

\* It stores the first event of its batch, or finds it stored.
LEMMA StoreKeepsCopy ==
  ASSUME NEW n \in Nat, NEW status, NEW out, NEW stored, NEW rel, RunRows(n, out, stored, rel),
         Copied(status, out, stored, rel), rel.pc = "storing", rel.batch # {},
         NEW s, s = FirstOf(rel.batch)
  PROVE  LET new == [rel EXCEPT !.batch = @ \ {s}, !.after = s,
                       !.pc = IF rel.batch = {s} /\ rel.status = "running" THEN "polling" ELSE @]
         IN  RunRows(n, out, stored \cup {s}, new) /\ Copied(status, out, stored \cup {s}, new)
<1> DEFINE new == [rel EXCEPT !.batch = @ \ {s}, !.after = s,
                     !.pc = IF rel.batch = {s} /\ rel.status = "running" THEN "polling" ELSE @]
           pc == IF rel.batch = {s} /\ rel.status = "running" THEN "polling" ELSE rel.pc
<1>1. /\ out.log \subseteq Nat /\ stored \subseteq Nat /\ rel.after \in Nat /\ rel.batch \subseteq Nat
      /\ rel.status \in {"running", "completed"} /\ rel.pc \in RelayPC
      /\ \A x \in out.log : x \in Nat /\ 0 < x
  BY RunRowFields
<1>2. s \in rel.batch /\ \A b \in rel.batch : s <= b
  BY <1>1, FirstIsLeast
<1>3. /\ rel \in Relay /\ rel.batch \subseteq out.log /\ out \in Outbox /\ out.log \subseteq 1..n
      /\ stored \subseteq out.log /\ stored \subseteq 1..n /\ out.final \subseteq out.log
  BY DEF RunRows
<1>4. pc \in RelayPC /\ s \in Nat /\ rel.batch \ {s} \subseteq Nat
  BY <1>1, <1>2 DEF RelayPC
<1>5. /\ new \in Relay /\ new.pc = pc /\ new.after = s /\ new.batch = rel.batch \ {s}
      /\ new.status = rel.status
  <2> DEFINE left == rel.batch \ {s}
             one == [rel EXCEPT !.batch = left]
             two == [one EXCEPT !.after = s]
  <2>1. left \subseteq Nat
    BY <1>4
  <2>2. new = [two EXCEPT !.pc = pc]
    BY <1>3 DEF Relay
  <2> HIDE DEF new, pc, left
  <2>3. one \in Relay /\ one.batch = left /\ one.status = rel.status
    BY <1>3, <2>1 DEF Relay
  <2> HIDE DEF one
  <2>4. two \in Relay /\ two.after = s /\ two.batch = one.batch /\ two.status = one.status
    BY <1>4, <2>3 DEF Relay
  <2> HIDE DEF two
  <2>5. /\ new \in Relay /\ new.pc = pc /\ new.after = two.after /\ new.batch = two.batch
        /\ new.status = two.status
    BY <1>4, <2>2, <2>4 DEF Relay
  <2> QED
    BY <2>3, <2>4, <2>5 DEF left
<1> HIDE DEF new
<1>6. RunRows(n, out, stored \cup {s}, new)
  BY <1>2, <1>3, <1>5 DEF RunRows
<1>7. Storing(out, stored, rel)
  BY DEF Copied
<1>8. \A x \in out.log : x <= s => x \in stored \cup {s}
  <2> TAKE x \in out.log
  <2>1. CASE x <= rel.after
    <3>1. rel.after \in stored
      BY <1>1, <2>1 DEF Copied
    <3> QED
      BY <2>1, <3>1 DEF Copied
  <2>2. CASE ~(x <= rel.after) /\ x \notin rel.batch
    BY <1>1, <1>2, <1>4, <1>7, <2>2 DEF Storing
  <2>3. CASE x \in rel.batch
    BY <1>1, <1>2, <1>4, <2>3
  <2> QED
    BY <2>1, <2>2, <2>3
<1>9. \A e \in stored : e <= s
  BY <1>1, <1>2, <1>4, <1>7 DEF Copied, Storing
<1>10. Storing(out, stored \cup {s}, new) \/ pc # "storing"
  <2>1. \A b \in rel.batch \ {s} : s < b
    BY <1>1, <1>2
  <2>2. \A x \in out.log : s < x /\ x \notin rel.batch \ {s} => \A b \in rel.batch \ {s} : b < x
    <3> TAKE x \in out.log
    <3>1. rel.after < s
      BY <1>2, <1>7 DEF Storing
    <3>2. s < x => rel.after < x /\ x # s
      BY <1>1, <1>4, <3>1
    <3> QED
      BY <1>7, <3>2 DEF Storing
  <2>3. pc = "storing" /\ rel.batch \ {s} = {} => rel.status = "completed"
    BY <1>1, <1>2
  <2>4. rel.status = "completed" =>
          out.status = "completed" /\ out.final \subseteq (stored \cup {s}) \cup (rel.batch \ {s})
    BY <1>7 DEF Storing
  <2> HIDE DEF pc
  <2> QED
    BY <1>5, <2>1, <2>2, <2>3, <2>4 DEF Storing
<1> HIDE DEF pc
<1>11. Copied(status, out, stored \cup {s}, new)
  <2>1. \A e \in stored \cup {s} : \A x \in out.log : x <= e => x \in stored \cup {s}
    BY <1>8 DEF Copied
  <2>2. \A e \in stored \cup {s} : e <= s
    BY <1>4, <1>9
  <2>3. status = "completed" => out.status = "completed" /\ out.final \subseteq stored \cup {s}
    BY DEF Copied
  <2> QED
    BY <1>5, <1>10, <2>1, <2>2, <2>3 DEF Copied
<1> QED
  BY <1>6, <1>11 DEF new

\* A relay that stops, starts over or drops its batch knows what it knew.
LEMMA DropKeepsCopy ==
  ASSUME NEW n \in Nat, NEW status, NEW out, NEW stored, NEW rel, RunRows(n, out, stored, rel),
         Copied(status, out, stored, rel), NEW pc \in RelayPC, pc # "storing",
         pc = "polling" => rel.pc \in {"polling", "storing"},
         NEW batch \in {rel.batch, {}}, NEW new, new = [rel EXCEPT !.pc = pc, !.batch = batch]
  PROVE  RunRows(n, out, stored, new) /\ Copied(status, out, stored, new)
<1>1. rel \in Relay /\ batch \subseteq out.log /\ batch \subseteq Nat
  BY RunRowFields DEF RunRows
<1>2. /\ new \in Relay /\ new.pc = pc /\ new.after = rel.after /\ new.batch = batch
      /\ new.status = rel.status
  BY <1>1 DEF Relay
<1> QED
  BY <1>1, <1>2 DEF RunRows, Copied

\* A run that is interrupted, or completed when all is stored.
LEMMA EndKeepsCopy ==
  ASSUME NEW status, NEW out, NEW stored, NEW rel, Copied(status, out, stored, rel),
         NEW ended, ended = "completed" => out.status = "completed" /\ out.final \subseteq stored
  PROVE  Copied(ended, out, stored, rel)
BY DEF Copied

\* The steps that touch a run, its outbox, what is stored of it or its relay.
RunStep(r) ==
  \/ WorkerAppends(r) \/ WorkerFinishes(r) \/ StoreFails(r) \/ StopRun(r) \/ CancelRelay(r)
  \/ RelayRun(r) \/ RelayPolls(r) \/ AppendWorkerEvent(r) \/ RelayFinishes(r)

\* The steps that write outboxes, the events table and relays.
LEMMA RelayMoves ==
  ASSUME Typed, RelayInv, Step
  PROVE  \/ UNCHANGED <<run, outbox, events, relay>>
         \/ \E a \in Agent, source \in Sources \cup {"task"} : NewRun(a, source)
         \/ \E r \in RunId : RunStep(r)
         \/ Restart
<1>1. bound.source \subseteq Sources /\ \A t \in TaskId : task[t].target \in Agent
  BY Rows, TimelineAssumption DEF Typed, TypeOK, Task
<1>2. CASE \E a \in Agent, source \in bound.source : CreateRun(a, source)
  BY <1>1, <1>2 DEF CreateRun
<1>3. CASE \E t \in TaskId : StartCollaboration(t)
  BY <1>1, <1>3 DEF StartCollaboration
<1>4. CASE \E r \in RunId : RunStep(r)
  BY <1>4
<1>5. CASE \/ \E a, b \in Agent : EnqueueTask(a, b)
           \/ ReconcileCollaborationTasks \/ SyncCollaborationTimeline
  BY <1>5 DEF EnqueueTask, ReconcileCollaborationTasks, SyncCollaborationTimeline
<1>8. CASE \/ \E a \in Agent : OtherResets(a) \/ SelectAgent(a)
           \/ BrowserResets \/ ReceiveReset
  BY <1>8 DEF OtherResets, SelectAgent, BrowserResets, ReceiveReset
<1>6. CASE HandlerStep \/ Refresh \/ Receive \/ LoadEarlier \/ RequestFails
  BY <1>6, HandlerWrites, PanelWrites DEF RequestFails
<1>7. CASE UNCHANGED vars
  BY <1>7 DEF vars
<1> QED
  BY <1>2, <1>3, <1>4, <1>5, <1>6, <1>7, <1>8 DEF Step, Next, RelayStep, RunStep

\* The bounds never change.
LEMMA BoundStays ==
  ASSUME Step
  PROVE  bound' = bound
<1>1. CASE \/ \E a \in Agent, source \in bound.source : CreateRun(a, source)
           \/ \E t \in TaskId : StartCollaboration(t)
  BY <1>1 DEF CreateRun, StartCollaboration
<1>2. CASE \E r \in RunId : RunStep(r)
  BY <1>2 DEF RunStep, WorkerAppends, WorkerFinishes, StoreFails, CancelRelay, RelayRun, RelayPolls, AppendWorkerEvent,
     StopRun, RelayFinishes
<1>3. CASE \/ ReconcileCollaborationTasks \/ SyncCollaborationTimeline
           \/ \E a \in Agent : OtherResets(a) \/ SelectAgent(a)
           \/ \E a, b \in Agent : EnqueueTask(a, b)
           \/ BrowserResets \/ ReceiveReset
  BY <1>3 DEF ReconcileCollaborationTasks, SyncCollaborationTimeline, OtherResets, SelectAgent,
     BrowserResets, ReceiveReset, EnqueueTask
<1>4. CASE HandlerStep \/ Refresh \/ Receive \/ LoadEarlier \/ RequestFails \/ Restart
  BY <1>4, HandlerWrites, PanelWrites DEF RequestFails, Restart
<1>5. CASE UNCHANGED vars
  BY <1>5 DEF vars
<1> QED
  BY <1>1, <1>2, <1>3, <1>4, <1>5, Zenon DEF Step, Next, RelayStep, RunStep

\* A run's rows and the copy of its outbox.
RunKept(r) ==
  /\ RunRows(bound.event, outbox[r], events[r], relay[r])
  /\ Relayed(r)

RunTables ==
  /\ outbox \in [RunId -> Outbox] /\ events \in [RunId -> SUBSET (1..bound.event)]
  /\ relay \in [RunId -> Relay]

\* What the invariant says of each run.
LEMMA RunsKept ==
  ASSUME Typed, RelayInv
  PROVE  /\ RunTables /\ \A r \in RunId : RunKept(r)
         /\ bound.event \in Nat /\ run \in Seq(Run)
<1>1. /\ outbox \in [RunId -> Outbox] /\ events \in [RunId -> SUBSET (1..bound.event)]
      /\ relay \in [RunId -> Relay] /\ run \in Seq(Run)
      /\ \A r \in RunId : /\ events[r] \subseteq outbox[r].log
                          /\ relay[r].batch \subseteq outbox[r].log
                          /\ outbox[r].final \subseteq outbox[r].log
      /\ \A r \in RunId : outbox[r].log \subseteq 1..bound.event
  BY DEF Typed, TypeOK
<1>2. bound.event \in Nat
  BY TimelineAssumption DEF Typed, TypeOK
<1> QED
  BY <1>1, <1>2 DEF RunTables, RunKept, RunRows, RelayInv

\* A step of one run keeps what holds of all.
LEMMA OneRun ==
  ASSUME RunTables, \A k \in RunId : RunKept(k), NEW r \in RunId, NEW status,
         NEW out, NEW stored, NEW rel, RunRows(bound.event, out, stored, rel), Copied(status, out, stored, rel),
         RunId' = RunId, run'[r].status = status, \A k \in RunId : k # r => run'[k] = run[k],
         bound' = bound, outbox' = [outbox EXCEPT ![r] = out],
         events' = [events EXCEPT ![r] = stored], relay' = [relay EXCEPT ![r] = rel]
  PROVE  RunTables' /\ \A k \in RunId' : RunKept(k)'
<1>1. out \in Outbox /\ stored \in SUBSET (1..bound.event) /\ rel \in Relay
  BY DEF RunRows
<1>2. outbox' \in [RunId -> Outbox] /\ outbox'[r] = out /\ \A k \in RunId : k # r => outbox'[k] = outbox[k]
  BY <1>1 DEF RunTables
<1>3. /\ events' \in [RunId -> SUBSET (1..bound.event)] /\ events'[r] = stored
      /\ \A k \in RunId : k # r => events'[k] = events[k]
  <2> DEFINE Stored == SUBSET (1..bound.event)
  <2>1. stored \in Stored /\ events \in [RunId -> Stored]
    BY <1>1 DEF RunTables
  <2> HIDE DEF Stored
  <2>2. /\ events' \in [RunId -> Stored] /\ events'[r] = stored
        /\ \A k \in RunId : k # r => events'[k] = events[k]
    BY <2>1
  <2> QED
    BY <2>2 DEF Stored
<1>4. relay' \in [RunId -> Relay] /\ relay'[r] = rel /\ \A k \in RunId : k # r => relay'[k] = relay[k]
  BY <1>1 DEF RunTables
<1>5. RunTables'
  BY <1>2, <1>3, <1>4 DEF RunTables
<1>6. RunKept(r)'
  BY <1>2, <1>3, <1>4 DEF RunKept, Relayed
<1>7. ASSUME NEW k \in RunId, k # r PROVE RunKept(k)'
  BY <1>2, <1>3, <1>4, <1>7 DEF RunKept, Relayed
<1> QED
  BY <1>5, <1>6, <1>7

\* Writing back what is there changes nothing.
LEMMA SameCell ==
  ASSUME NEW D, NEW S, NEW f \in [D -> S], NEW i \in D
  PROVE  [f EXCEPT ![i] = f[i]] = f
OBVIOUS

\* The tables of runs, while nothing is written to them.
LEMMA SameRuns ==
  ASSUME RunTables, NEW r \in RunId
  PROVE  /\ outbox = [outbox EXCEPT ![r] = outbox[r]] /\ events = [events EXCEPT ![r] = events[r]]
         /\ relay = [relay EXCEPT ![r] = relay[r]]
<1>1. outbox = [outbox EXCEPT ![r] = outbox[r]]
  BY SameCell DEF RunTables
<1>2. events = [events EXCEPT ![r] = events[r]]
  BY SameCell DEF RunTables
<1>3. relay = [relay EXCEPT ![r] = relay[r]]
  BY SameCell DEF RunTables
<1> QED
  BY <1>1, <1>2, <1>3

\* The worker's two steps.
LEMMA WorkerKeeps ==
  ASSUME Typed, RelayInv, NEW r \in RunId, WorkerAppends(r) \/ WorkerFinishes(r)
  PROVE  RunTables' /\ \A k \in RunId' : RunKept(k)'
<1> DEFINE n == bound.event
<1>1. RunTables /\ n \in Nat /\ \A k \in RunId : RunKept(k)
  BY RunsKept
<1>2. RunRows(n, outbox[r], events[r], relay[r]) /\ Copied(run[r].status, outbox[r], events[r], relay[r])
  BY <1>1 DEF RunKept, Relayed
<1>3. UNCHANGED <<run, events, relay, bound>> /\ RunId' = RunId
  BY DEF WorkerAppends, WorkerFinishes, RunId
<1>4. events = [events EXCEPT ![r] = events[r]] /\ relay = [relay EXCEPT ![r] = relay[r]]
  BY <1>1, SameRuns
<1>5. \E out : /\ RunRows(n, out, events[r], relay[r]) /\ Copied(run[r].status, out, events[r], relay[r])
               /\ outbox' = [outbox EXCEPT ![r] = out]
  <2>1. CASE WorkerAppends(r)
    <3>1. PICK s \in 1..n : /\ \A old \in outbox[r].log : old < s
                            /\ outbox' = [outbox EXCEPT ![r].log = @ \cup {s}]
      BY <2>1 DEF WorkerAppends
    <3> WITNESS [outbox[r] EXCEPT !.log = @ \cup {s}]
    <3> QED
      BY <1>1, <1>2, <3>1, AppendKeepsCopy
  <2>2. CASE WorkerFinishes(r)
    <3>1. /\ outbox[r].status = "running"
          /\ outbox' = [outbox EXCEPT ![r].status = "completed", ![r].final = outbox[r].log]
      BY <2>2 DEF WorkerFinishes
    <3>2. outbox' = [outbox EXCEPT ![r] = [outbox[r] EXCEPT !.status = "completed", !.final = outbox[r].log]]
      BY <1>1, <3>1 DEF RunTables, Outbox
    <3> WITNESS [outbox[r] EXCEPT !.status = "completed", !.final = outbox[r].log]
    <3> QED
      BY <1>1, <1>2, <3>1, <3>2, FinishKeepsCopy
  <2> QED
    BY <2>1, <2>2
<1>6. PICK out : /\ RunRows(n, out, events[r], relay[r]) /\ Copied(run[r].status, out, events[r], relay[r])
                 /\ outbox' = [outbox EXCEPT ![r] = out]
  BY <1>5
<1>7. /\ events' = [events EXCEPT ![r] = events[r]] /\ relay' = [relay EXCEPT ![r] = relay[r]]
      /\ run' = run /\ bound' = bound
  BY <1>3, <1>4
<1> QED
  BY <1>1, <1>3, <1>6, <1>7, OneRun

\* The relay's steps and those that end a run; each leaves the outbox alone.
LEMMA CopyMoves ==
  ASSUME Typed, RelayInv, NEW r \in RunId,
         \/ StoreFails(r) \/ StopRun(r) \/ CancelRelay(r)
         \/ RelayRun(r) \/ RelayPolls(r) \/ AppendWorkerEvent(r) \/ RelayFinishes(r)
  PROVE  \E status, stored, rel :
           /\ RunRows(bound.event, outbox[r], stored, rel) /\ Copied(status, outbox[r], stored, rel)
           /\ RunId' = RunId /\ run'[r].status = status /\ \A k \in RunId : k # r => run'[k] = run[k]
           /\ UNCHANGED <<bound, outbox>>
           /\ events' = [events EXCEPT ![r] = stored] /\ relay' = [relay EXCEPT ![r] = rel]
<1> DEFINE n == bound.event
           out == outbox[r]
           Filed(status, stored, rel) == RunRows(n, out, stored, rel) /\ Copied(status, out, stored, rel)
           Written(status, stored, rel) ==
             /\ RunId' = RunId /\ run'[r].status = status /\ \A k \in RunId : k # r => run'[k] = run[k]
             /\ UNCHANGED <<bound, outbox>>
             /\ events' = [events EXCEPT ![r] = stored] /\ relay' = [relay EXCEPT ![r] = rel]
<1>1. RunTables /\ n \in Nat /\ \A k \in RunId : RunKept(k)
  BY RunsKept
<1>2. RunRows(n, out, events[r], relay[r]) /\ Copied(run[r].status, out, events[r], relay[r])
  BY <1>1 DEF RunKept, Relayed
<1>3. events = [events EXCEPT ![r] = events[r]] /\ relay = [relay EXCEPT ![r] = relay[r]]
  BY <1>1, SameRuns
<1>4. relay \in [RunId -> Relay] /\ relay[r] \in Relay
  BY <1>1 DEF RunTables
<1>5. run' = run => RunId' = RunId
  BY DEF RunId
<1>6. SUFFICES \E status, stored, rel : Filed(status, stored, rel) /\ Written(status, stored, rel)
  OBVIOUS
<1>7. CASE StoreFails(r)
  <2> DEFINE rel == [relay[r] EXCEPT !.pc = "polling", !.batch = {}]
  <2>1. relay[r].pc = "storing" /\ relay' = [relay EXCEPT ![r] = rel] /\ UNCHANGED <<run, outbox, events, bound>>
    BY <1>7 DEF StoreFails
  <2>2. Filed(run[r].status, events[r], rel)
    <3>1. "polling" \in RelayPC
      BY DEF RelayPC
    <3> QED
      BY <1>1, <1>2, <2>1, <3>1, DropKeepsCopy
  <2> HIDE DEF rel, Filed
  <2> QED
    BY <1>3, <1>5, <2>1, <2>2
<1>8. CASE CancelRelay(r)
  <2> DEFINE rel == [relay[r] EXCEPT !.pc = "off", !.batch = {}]
  <2>1. relay' = [relay EXCEPT ![r] = rel] /\ UNCHANGED <<run, outbox, events, bound>>
    BY <1>4, <1>8 DEF CancelRelay, Relay
  <2>2. Filed(run[r].status, events[r], rel)
    <3>1. "off" \in RelayPC
      BY DEF RelayPC
    <3> QED
      BY <1>1, <1>2, <3>1, DropKeepsCopy
  <2> HIDE DEF rel, Filed
  <2> QED
    BY <1>3, <1>5, <2>1, <2>2
<1>9. CASE RelayRun(r)
  <2> DEFINE rel == [pc |-> "polling", after |-> IF events[r] = {} THEN 0 ELSE SetMax(events[r]),
                     batch |-> {}, status |-> "running"]
  <2>1. relay' = [relay EXCEPT ![r] = rel] /\ UNCHANGED <<run, outbox, events, bound>>
    BY <1>9 DEF RelayRun, MaxEventSequence
  <2>2. Filed(run[r].status, events[r], rel)
    BY <1>1, <1>2, BeginKeepsCopy
  <2> HIDE DEF rel, Filed
  <2> QED
    BY <1>3, <1>5, <2>1, <2>2
<1>10. CASE RelayPolls(r)
  <2> DEFINE batch == {s \in outbox[r].log : s > relay[r].after}
             rel == [relay[r] EXCEPT !.pc = "storing", !.status = outbox[r].status, !.batch = batch]
  <2>1. relay[r].pc = "polling" /\ (batch # {} \/ outbox[r].status # "running")
    BY <1>10 DEF RelayPolls
  <2>2. UNCHANGED <<run, outbox, events, bound>>
    BY <1>10 DEF RelayPolls
  <2>3. relay' = [relay EXCEPT ![r] = rel]
    <3>1. relay' = [relay EXCEPT ![r].pc = "storing", ![r].status = outbox[r].status, ![r].batch = batch]
      BY <1>10 DEF RelayPolls
    <3> HIDE DEF batch
    <3> QED
      BY <1>4, <3>1 DEF Relay
  <2>4. Filed(run[r].status, events[r], rel)
    BY <1>1, <1>2, <2>1, PollKeepsCopy
  <2> HIDE DEF rel, Filed
  <2> QED
    BY <1>3, <1>5, <2>2, <2>3, <2>4
<1>11. CASE AppendWorkerEvent(r)
  <2> DEFINE s == FirstOf(relay[r].batch)
             rel == [relay[r] EXCEPT !.batch = @ \ {s}, !.after = s,
                       !.pc = IF relay[r].batch = {s} /\ relay[r].status = "running" THEN "polling" ELSE @]
  <2>1. relay[r].pc = "storing" /\ relay[r].batch # {} /\ UNCHANGED <<run, outbox, bound>>
    BY <1>11 DEF AppendWorkerEvent
  <2>2. relay' = [relay EXCEPT ![r] = rel]
    <3> DEFINE first == s
               pc == IF relay[r].batch = {first} /\ relay[r].status = "running" THEN "polling" ELSE relay[r].pc
    <3>1. relay' = [relay EXCEPT ![r].batch = @ \ {first}, ![r].after = first, ![r].pc = pc]
      BY <1>11 DEF AppendWorkerEvent
    <3>2. rel = [relay[r] EXCEPT !.batch = @ \ {first}, !.after = first, !.pc = pc]
      OBVIOUS
    <3> HIDE DEF rel, first, pc
    <3> QED
      BY <1>4, <3>1, <3>2 DEF Relay
  <2>3. events' = [events EXCEPT ![r] = @ \cup {s}]
    <3>1. CASE s \in events[r]
      <4>1. events' = events /\ events[r] \cup {s} = events[r]
        BY <1>11, <3>1 DEF AppendWorkerEvent
      <4> QED
        BY <1>3, <4>1
    <3>2. CASE s \notin events[r]
      BY <1>11, <3>2 DEF AppendWorkerEvent
    <3> QED
      BY <3>1, <3>2
  <2>4. Filed(run[r].status, events[r] \cup {s}, rel)
    BY <1>1, <1>2, <2>1, StoreKeepsCopy
  <2> HIDE DEF rel, Filed, s
  <2> QED
    BY <1>5, <2>1, <2>2, <2>3, <2>4
<1>12. CASE StopRun(r)
  <2>1. run' = [run EXCEPT ![r].status = "interrupted"] /\ UNCHANGED <<outbox, events, relay, bound>>
    BY <1>12 DEF StopRun, FinishRun
  <2>2. RunId' = RunId /\ run'[r].status = "interrupted" /\ \A k \in RunId : k # r => run'[k] = run[k]
    BY <2>1, StatusSet
  <2>3. Filed("interrupted", events[r], relay[r])
    BY <1>2, EndKeepsCopy
  <2> HIDE DEF Filed
  <2> QED
    BY <1>3, <2>1, <2>2, <2>3
<1>13. CASE RelayFinishes(r)
  <2> DEFINE rel == [relay[r] EXCEPT !.pc = "off", !.batch = {}]
  <2>1. relay[r].pc = "storing" /\ relay[r].batch = {} /\ relay[r].status = "completed"
    BY <1>13, FinishesCompleted DEF RelayFinishes, Finishing
  <2>2. UNCHANGED <<outbox, events, bound>>
    BY <1>13 DEF RelayFinishes
  <2>3. relay' = [relay EXCEPT ![r] = rel]
    <3>1. relay' = [relay EXCEPT ![r].pc = "off"]
      BY <1>13 DEF RelayFinishes
    <3> QED
      BY <1>4, <2>1, <3>1 DEF Relay
  <2>4. outbox[r].status = "completed" /\ outbox[r].final \subseteq events[r]
    BY <1>2, <2>1 DEF Copied, Storing
  <2>5. /\ RunRows(n, out, events[r], rel)
        /\ Copied(run[r].status, out, events[r], rel)
    <3>1. "off" \in RelayPC
      BY DEF RelayPC
    <3> QED
      BY <1>1, <1>2, <3>1, DropKeepsCopy
  <2> HIDE DEF rel
  <2>6. Copied("completed", out, events[r], rel)
    BY <2>4, <2>5, EndKeepsCopy
  <2>7. \/ run' = run
        \/ run' = [run EXCEPT ![r].status = "completed"]
    BY <1>13, <2>1 DEF RelayFinishes, FinishRun
  <2>8. \/ RunId' = RunId /\ run' = run
        \/ RunId' = RunId /\ run'[r].status = "completed" /\ \A k \in RunId : k # r => run'[k] = run[k]
    BY <1>5, <2>7, StatusSet
  <2>9. Filed(run[r].status, events[r], rel) /\ Filed("completed", events[r], rel)
    BY <2>5, <2>6
  <2> HIDE DEF Filed
  <2> QED
    BY <1>3, <2>2, <2>3, <2>8, <2>9
<1> QED
  BY <1>7, <1>8, <1>9, <1>10, <1>11, <1>12, <1>13

\* A new run has nothing to copy.
LEMMA NewRunKept ==
  ASSUME Typed, RelayInv, bound' = bound, NEW a \in Agent, NEW source \in Sources \cup {"task"}, NewRun(a, source)
  PROVE  RunTables' /\ \A k \in RunId' : RunKept(k)'
<1>0. PICK r : r = Len(run) + 1
  OBVIOUS
<1> DEFINE out == [log |-> {}, status |-> "running", final |-> {}]
           rel == [pc |-> "new", after |-> 0, batch |-> {}, status |-> "running"]
<1>1. /\ RunId' = RunId \cup {r}
      /\ run'[r] = [agent |-> a, source |-> source, status |-> "active"]
      /\ outbox' \in [RunId' -> Outbox] /\ events' \in [RunId' -> SUBSET (1..bound.event)]
      /\ relay' \in [RunId' -> Relay]
      /\ \A k \in RunId : /\ run'[k] = run[k] /\ outbox'[k] = outbox[k]
                          /\ events'[k] = events[k] /\ relay'[k] = relay[k]
      /\ outbox'[r] = out /\ events'[r] = {} /\ relay'[r] = rel
  BY <1>0, NewRunRows
<1>2. \A k \in RunId : RunKept(k)
  BY RunsKept
<1>3. RunTables'
  BY <1>1 DEF RunTables
<1>4. \A k \in RunId : RunKept(k)'
  BY <1>1, <1>2 DEF RunKept, Relayed
<1>5. RunRows(bound.event, out, {}, rel) /\ Copied("active", out, {}, rel)
  BY DEF RunRows, Copied, Outbox, Relay, RelayPC
<1>6. run'[r].status = "active" /\ outbox'[r] = out /\ events'[r] = {} /\ relay'[r] = rel
  BY <1>1
<1>7. RunId' = RunId \cup {r}
  BY <1>1
<1> HIDE DEF out, rel
<1>8. RunKept(r)'
  BY <1>5, <1>6 DEF RunKept, Relayed
<1> QED
  BY <1>3, <1>4, <1>7, <1>8

\* A restart of the server drops all batches.
LEMMA RestartKept ==
  ASSUME Typed, RelayInv, Restart
  PROVE  RunTables' /\ \A k \in RunId' : RunKept(k)'
<1> DEFINE pc(k) == IF run[k].status = "active" THEN "new" ELSE "off"
           rel(k) == [relay[k] EXCEPT !.batch = {}, !.pc = pc(k)]
<1>1. /\ RunTables /\ bound.event \in Nat /\ \A k \in RunId : RunKept(k)
  BY RunsKept
<1>2. /\ UNCHANGED <<run, outbox, events, bound>> /\ RunId' = RunId
      /\ relay' = [k \in RunId |-> rel(k)]
  BY DEF Restart, RunId
<1>3. ASSUME NEW k \in RunId
      PROVE  /\ rel(k) \in Relay /\ RunRows(bound.event, outbox[k], events[k], rel(k))
             /\ Copied(run[k].status, outbox[k], events[k], rel(k))
  <2>1. /\ RunRows(bound.event, outbox[k], events[k], relay[k])
        /\ Copied(run[k].status, outbox[k], events[k], relay[k]) /\ relay[k] \in Relay
    BY <1>1 DEF RunKept, Relayed, RunTables
  <2>2. rel(k) = [relay[k] EXCEPT !.pc = pc(k), !.batch = {}]
    BY <2>1 DEF Relay
  <2>3. pc(k) \in RelayPC /\ pc(k) # "storing" /\ pc(k) # "polling"
    BY DEF RelayPC
  <2> HIDE DEF rel, pc
  <2>4. /\ RunRows(bound.event, outbox[k], events[k], rel(k))
        /\ Copied(run[k].status, outbox[k], events[k], rel(k))
    BY <1>1, <2>1, <2>2, <2>3, DropKeepsCopy
  <2> QED
    BY <2>4 DEF RunRows
<1> HIDE DEF rel
<1>4. relay' \in [RunId -> Relay] /\ \A k \in RunId : relay'[k] = rel(k)
  BY <1>2, <1>3
<1>5. RunTables'
  BY <1>1, <1>2, <1>4 DEF RunTables
<1>6. \A k \in RunId : RunKept(k)'
  BY <1>2, <1>3, <1>4 DEF RunKept, Relayed
<1> QED
  BY <1>2, <1>5, <1>6

\* Every step keeps the copies of all outboxes.
LEMMA CopiesKept ==
  ASSUME Typed, RelayInv, Step
  PROVE  RunTables' /\ \A k \in RunId' : RunKept(k)'
<1>1. bound' = bound
  BY BoundStays
<1>2. RunTables /\ bound.event \in Nat /\ \A k \in RunId : RunKept(k)
  BY RunsKept
<1>3. CASE UNCHANGED <<run, outbox, events, relay>>
  <2>1. RunTables' /\ RunId' = RunId
    BY <1>1, <1>2, <1>3 DEF RunTables, RunId
  <2>2. \A k \in RunId : RunKept(k)'
    BY <1>1, <1>2, <1>3 DEF RunKept, Relayed
  <2> QED
    BY <2>1, <2>2
<1>4. CASE \E a \in Agent, source \in Sources \cup {"task"} : NewRun(a, source)
  BY <1>1, <1>4, NewRunKept
<1>5. CASE \E r \in RunId : RunStep(r)
  <2>1. PICK r \in RunId : RunStep(r)
    BY <1>5
  <2>2. CASE WorkerAppends(r) \/ WorkerFinishes(r)
    BY <2>2, WorkerKeeps
  <2>3. CASE \/ StoreFails(r) \/ StopRun(r) \/ CancelRelay(r)
             \/ RelayRun(r) \/ RelayPolls(r) \/ AppendWorkerEvent(r) \/ RelayFinishes(r)
    <3>1. PICK status, stored, rel :
            /\ RunRows(bound.event, outbox[r], stored, rel) /\ Copied(status, outbox[r], stored, rel)
            /\ RunId' = RunId /\ run'[r].status = status /\ \A k \in RunId : k # r => run'[k] = run[k]
            /\ UNCHANGED <<bound, outbox>>
            /\ events' = [events EXCEPT ![r] = stored] /\ relay' = [relay EXCEPT ![r] = rel]
      BY <2>3, CopyMoves
    <3>2. outbox' = [outbox EXCEPT ![r] = outbox[r]]
      BY <1>2, <3>1, SameRuns
    <3> QED
      BY <1>2, <3>1, <3>2, OneRun
  <2> QED
    BY <2>1, <2>2, <2>3 DEF RunStep
<1>6. CASE Restart
  BY <1>6, RestartKept
<1> QED
  BY <1>3, <1>4, <1>5, <1>6, RelayMoves

\* In the form of the invariant.
LEMMA RelayKept ==
  ASSUME Typed, RelayInv, Step
  PROVE  /\ RelayInv' /\ RunTables'
         /\ \A r \in RunId' : /\ events'[r] \subseteq outbox'[r].log
                              /\ relay'[r].batch \subseteq outbox'[r].log
                              /\ outbox'[r].final \subseteq outbox'[r].log
                              /\ outbox'[r].log \subseteq 1..bound'.event
BY CopiesKept DEF RunKept, RunRows, RelayInv

\* What a row refers to stays.
LEMMA RefersStays ==
  ASSUME Typed, RunsGrow, TasksGrow, bound' = bound, NEW row \in Row, RowRefers(row)
  PROVE  RowRefers(row)'
<1>1. /\ \A r \in RunId : r \in RunId'
      /\ \A t \in TaskId : t \in TaskId'
      /\ \A t \in TaskId : task[t].version <= task'[t].version
  BY DEF RunsGrow, TasksGrow
<1>2. \A t \in TaskId : task[t].version \in Nat /\ task'[t].version \in Nat
  <2>1. \A t \in TaskId : task[t] \in Task /\ task'[t] \in Task
    BY Rows DEF Typed, TasksGrow, TaskId
  <2> QED
    BY <2>1 DEF Task
<1>3. row.key.n \in Nat
  BY DEF Row, Key
<1>4. row.key.kind = "status" => row.key.n <= task'[row.key.of].version
  <2>1. SUFFICES ASSUME row.key.kind = "status" PROVE row.key.n <= task'[row.key.of].version
    OBVIOUS
  <2>2. row.key.of \in TaskId /\ row.key.n <= task[row.key.of].version
    BY <2>1 DEF RowRefers
  <2> QED
    BY <1>1, <1>2, <1>3, <2>2
<1>5. /\ row.run \in RunId' \cup {0}
      /\ row.key.kind \in {"input", "worker", "terminal"} => row.key.of \in RunId'
      /\ row.key.kind \in {"receipt", "status"} => row.key.of \in TaskId'
  <2>1. row.run \in RunId \cup {0}
    BY DEF RowRefers
  <2>2. row.key.kind \in {"input", "worker", "terminal"} => row.key.of \in RunId
    BY DEF RowRefers
  <2>3. row.key.kind \in {"receipt", "status"} => row.key.of \in TaskId
    BY DEF RowRefers
  <2> QED
    BY <1>1, <2>1, <2>2, <2>3
<1> QED
  BY <1>4, <1>5 DEF RowRefers

\* A row with the key of an event of a run, or of none, refers to what exists.
LEMMA KeysRefer ==
  ASSUME NEW row \in Row, row.run \in RunId \cup {0},
         \/ row.key = InputKey(row.run) /\ row.run # 0
         \/ \E s \in 1..bound.event : row.key = WorkerKey(row.run, s) /\ row.run # 0
         \/ \E status : row.key = TerminalKey(row.run, status) /\ row.run # 0
         \/ \E c : row.key = ResetKey(c)
  PROVE  RowRefers(row)
<1>1. CASE row.key = InputKey(row.run) /\ row.run # 0
  <2>1. row.key.kind = "input" /\ row.key.of = row.run /\ row.key.n = 0 /\ row.key.status = "none"
    BY <1>1 DEF InputKey
  <2> QED
    BY <1>1, <2>1 DEF RowRefers
<1>2. CASE \E s \in 1..bound.event : row.key = WorkerKey(row.run, s) /\ row.run # 0
  <2>1. /\ row.key.kind = "worker" /\ row.key.of = row.run /\ row.key.n \in 1..bound.event
        /\ row.key.status = "none" /\ row.run # 0
    BY <1>2 DEF WorkerKey
  <2> QED
    BY <2>1 DEF RowRefers
<1>3. CASE \E status : row.key = TerminalKey(row.run, status) /\ row.run # 0
  <2>1. row.key.kind = "terminal" /\ row.key.of = row.run /\ row.run # 0
    BY <1>3 DEF TerminalKey
  <2> QED
    BY <2>1 DEF RowRefers
<1>4. CASE \E c : row.key = ResetKey(c)
  <2>1. row.key.kind = "reset" /\ row.key.status = "none"
    BY <1>4 DEF ResetKey
  <2> QED
    BY <2>1 DEF RowRefers
<1> QED
  BY <1>1, <1>2, <1>3, <1>4

\* So does a row about a task.
LEMMA TaskRowRefers ==
  ASSUME Typed, NEW side \in Side, NEW kind \in Kind, NEW t \in TaskId
  PROVE  RowRefers(TaskRow(side, kind, t))
<1> DEFINE row == TaskRow(side, kind, t)
<1>1. /\ row.run = (IF side = "sender" THEN task[t].senderRun ELSE task[t].run)
      /\ row.key = (IF kind = "receipt" THEN ReceiptKey(t) ELSE StatusKey(t))
      /\ row.key.kind = kind /\ row.key.of = t
  BY TaskRowTyped DEF Typed
<1>2. /\ task[t].run \in RunId \cup {0} /\ task[t].senderRun \in RunId \cup {0} /\ task[t].version \in Nat
  BY Rows DEF Typed, TypeOK, Task
<1>3. kind = "receipt" \/ kind = "status"
  BY DEF Kind
<1>4. row.run \in RunId \cup {0}
  BY <1>1, <1>2
<1>5. /\ ReceiptKey(t).n = 0 /\ ReceiptKey(t).status = "none"
      /\ StatusKey(t).n = task[t].version /\ StatusKey(t).status = "none"
  BY DEF ReceiptKey, StatusKey
<1> HIDE DEF row
<1>6. RowRefers(row)
  <2>1. CASE kind = "receipt"
    BY <1>1, <1>4, <1>5, <2>1 DEF RowRefers
  <2>2. CASE kind = "status"
    BY <1>1, <1>2, <1>4, <1>5, <2>2 DEF RowRefers
  <2> QED
    BY <1>3, <2>1, <2>2
<1> QED
  BY <1>6 DEF row

\* The keys are keys.
LEMMA KeysTyped ==
  ASSUME NEW r \in Nat
  PROVE  /\ InputKey(r) \in Key /\ InputKey(r).kind = "input" /\ InputKey(r).of = r
         /\ \A s \in Nat : WorkerKey(r, s) \in Key /\ WorkerKey(r, s).kind = "worker"
                           /\ WorkerKey(r, s).of = r /\ WorkerKey(r, s).n = s
         /\ \A status \in RunStatus : TerminalKey(r, status) \in Key /\ TerminalKey(r, status).kind = "terminal"
         /\ ResetKey(r) \in Key /\ ResetKey(r).kind = "reset"
BY DEF Key, InputKey, WorkerKey, TerminalKey, ResetKey

-----------------------------------------------------------------------------
(* The stories.                                                            *)

\* The order of two keys of one agent: what RunStoryInOrder and TaskStoryInOrder ask of
\* each pair of rows.
PairInOrder(first, second) ==
  /\ first # second
  /\ first.of = second.of => /\ second.kind # "input" \/ first.kind # "worker"
                             /\ first.kind = "worker" /\ second.kind = "worker" => first.n < second.n
  /\ first.kind = "status" /\ first.of = second.of =>
       /\ second.kind # "receipt"
       /\ second.kind = "status" => first.n < second.n

PairsInOrder ==
  \A p, q \in Position : Before(p, q) => PairInOrder(timeline[p].key, timeline[q].key)

NothingScheduled == \A p \in Position : ~Scheduled(timeline[p].run)

\* What is told of a run.
RunTold(r) ==
  /\ Has(run[r].agent, InputKey(r))
  /\ \A s \in 1..bound.event : Has(run[r].agent, WorkerKey(r, s)) <=> s \in events[r]

RunsTold == \A r \in RunId : ~Scheduled(r) => RunTold(r)

\* These are the parts of the invariant.
LEMMA StoryParts ==
  StoriesInOrder <=> PairsInOrder /\ NothingScheduled /\ RunsTold
<1>1. StoriesInOrder => PairsInOrder
  <2> SUFFICES ASSUME StoriesInOrder, NEW p \in Position, NEW q \in Position, Before(p, q)
               PROVE  PairInOrder(timeline[p].key, timeline[q].key)
    BY DEF PairsInOrder
  <2>1. LET first == timeline[p].key
            second == timeline[q].key
        IN  /\ first # second
            /\ first.of = second.of => /\ second.kind # "input" \/ first.kind # "worker"
                                       /\ first.kind = "worker" /\ second.kind = "worker"
                                            => first.n < second.n
    BY DEF StoriesInOrder, RunStoryInOrder
  <2>2. LET first == timeline[p].key
            second == timeline[q].key
        IN  first.kind = "status" /\ first.of = second.of =>
              /\ second.kind # "receipt"
              /\ second.kind = "status" => first.n < second.n
    BY DEF StoriesInOrder, TaskStoryInOrder
  <2> QED
    BY <2>1, <2>2 DEF PairInOrder
<1>2. StoriesInOrder => NothingScheduled /\ RunsTold
  BY DEF StoriesInOrder, RunStoryInOrder, NothingScheduled, RunsTold, RunTold
<1>3. ASSUME PairsInOrder, NothingScheduled, RunsTold PROVE RunStoryInOrder
  <2>1. ASSUME NEW p \in Position, NEW q \in Position, Before(p, q)
        PROVE  LET first == timeline[p].key
                   second == timeline[q].key
               IN  /\ first # second
                   /\ first.of = second.of => /\ second.kind # "input" \/ first.kind # "worker"
                                              /\ first.kind = "worker" /\ second.kind = "worker"
                                                   => first.n < second.n
    BY <1>3, <2>1 DEF PairsInOrder, PairInOrder
  <2> QED
    BY <1>3, <2>1 DEF RunStoryInOrder, NothingScheduled, RunsTold, RunTold
<1>4. ASSUME PairsInOrder PROVE TaskStoryInOrder
  BY <1>4 DEF PairsInOrder, PairInOrder, TaskStoryInOrder
<1> QED
  BY <1>1, <1>2, <1>3, <1>4 DEF StoriesInOrder

\* Pairs stay in order when each new row is in order behind the others of its agent.
LEMMA PairsGrow ==
  ASSUME Typed, PairsInOrder, TimelineGrows,
         \A q \in Position' \ Position : \A p \in Position' :
           p < q /\ timeline'[p].agent = timeline'[q].agent
             => PairInOrder(timeline'[p].key, timeline'[q].key)
  PROVE  PairsInOrder'
<1>1. SUFFICES ASSUME NEW p \in Position', NEW q \in Position', Before(p, q)'
               PROVE  PairInOrder(timeline'[p].key, timeline'[q].key)
  BY DEF PairsInOrder
<1>2. p < q /\ timeline'[p].agent = timeline'[q].agent
  BY <1>1 DEF Before
<1>3. CASE q \notin Position
  BY <1>2, <1>3
<1>4. CASE q \in Position /\ p \in Position
  <2>1. timeline'[p] = timeline[p] /\ timeline'[q] = timeline[q]
    BY <1>4 DEF TimelineGrows
  <2> QED
    BY <1>2, <1>4, <2>1 DEF PairsInOrder, Before
<1>5. CASE q \in Position /\ p \notin Position
  <2>1. q < p
    BY <1>5 DEF TimelineGrows
  <2>2. p \in Nat /\ q \in Nat
    <3>1. timeline' \in Seq(Row)
      BY DEF TimelineGrows
    <3>2. Position' = 1..Len(timeline')
      BY <3>1, LenProperties DEF Position
    <3>3. Len(timeline') \in Nat
      BY <3>1, LenProperties
    <3> QED
      BY <3>2, <3>3
  <2> QED
    BY <1>2, <2>1, <2>2
<1> QED
  BY <1>3, <1>4, <1>5

\* What is in the timeline stays in it; one row more is no more than that.
LEMMA HasStays ==
  ASSUME TimelineGrows, NEW a, NEW key, Has(a, key)
  PROVE  Has(a, key)'
BY DEF TimelineGrows, Has

\* A row that was not there is one of the new ones.
LEMMA HasCame ==
  ASSUME TimelineGrows, NEW a, NEW key, Has(a, key)', ~Has(a, key)
  PROVE  \E p \in Position' \ Position : timeline'[p].agent = a /\ timeline'[p].key = key
<1>1. PICK p \in Position' : timeline'[p].agent = a /\ timeline'[p].key = key
  BY DEF Has
<1>2. p \notin Position
  BY <1>1 DEF TimelineGrows, Has
<1> QED
  BY <1>1, <1>2

\* Nothing is scheduled that was not, and new rows are not.
LEMMA ScheduledGrows ==
  ASSUME Typed, RunsGrow, TimelineGrows, NothingScheduled,
         \A p \in Position' \ Position : ~Scheduled(timeline[p].run)'
  PROVE  NothingScheduled'
<1>1. SUFFICES ASSUME NEW p \in Position' PROVE ~Scheduled(timeline[p].run)'
  BY DEF NothingScheduled
<1>2. CASE p \in Position
  <2>1. timeline'[p] = timeline[p] /\ timeline[p].run \in RunId \cup {0} /\ ~Scheduled(timeline[p].run)
    BY <1>2 DEF TimelineGrows, NothingScheduled, Typed, RowRefers
  <2> QED
    BY <2>1 DEF Scheduled, RunsGrow
<1>3. CASE p \notin Position
  BY <1>3
<1> QED
  BY <1>2, <1>3

\* A row of another kind than a state changes nothing for StatusHasReceipt.
LEMMA ReceiptsGrow ==
  ASSUME Typed, TimelineGrows, StatusHasReceipt,
         \A p \in Position' \ Position :
           timeline'[p].key.kind = "status" => Has(timeline[p].agent, ReceiptKey(timeline[p].key.of))'
  PROVE  StatusHasReceipt'
<1>1. SUFFICES ASSUME NEW p \in Position', timeline'[p].key.kind = "status"
               PROVE  Has(timeline[p].agent, ReceiptKey(timeline[p].key.of))'
  BY DEF StatusHasReceipt
<1>2. CASE p \in Position
  <2>1. timeline'[p] = timeline[p]
    BY <1>2 DEF TimelineGrows
  <2>2. Has(timeline[p].agent, ReceiptKey(timeline[p].key.of))
    BY <1>1, <1>2, <2>1 DEF StatusHasReceipt
  <2>3. PICK q \in Position : timeline[q].agent = timeline[p].agent /\ timeline[q].key = ReceiptKey(timeline[p].key.of)
    BY <2>2 DEF Has
  <2>4. q \in Position' /\ timeline'[q] = timeline[q]
    BY <2>3 DEF TimelineGrows
  <2> QED
    BY <2>1, <2>3, <2>4 DEF Has, ReceiptKey
<1>3. CASE p \notin Position
  BY <1>1, <1>3
<1> QED
  BY <1>2, <1>3

RowsRefer == \A p \in Position : RowRefers(timeline[p])

\* What holds of the rows, and what one step does to the tables they refer to.
RowsGood == PairsInOrder /\ NothingScheduled /\ StatusHasReceipt /\ RowsRefer

TablesGrow == Typed /\ RunsGrow /\ TasksGrow /\ bound' = bound

\* Rows go on to refer to what exists.
LEMMA RefersGrow ==
  ASSUME TablesGrow, TimelineGrows, RowsRefer,
         \A p \in Position' \ Position : RowRefers(timeline[p])'
  PROVE  RowsRefer'
<1>1. SUFFICES ASSUME NEW p \in Position' PROVE RowRefers(timeline[p])'
  BY DEF RowsRefer
<1>2. CASE p \in Position
  <2>1. PICK row : row = timeline[p]
    OBVIOUS
  <2>2. row \in Row /\ RowRefers(row)
    BY <1>2, <2>1, Rows DEF RowsRefer, TablesGrow, Typed
  <2>3. RowRefers(row)'
    BY <2>2, RefersStays DEF TablesGrow
  <2>4. timeline'[p] = row
    BY <1>2, <2>1 DEF TimelineGrows
  <2> QED
    BY <2>3, <2>4 DEF RowRefers
<1>3. CASE p \notin Position
  BY <1>3
<1> QED
  BY <1>2, <1>3

\* Positions are numbers.
LEMMA PositionsGrow ==
  ASSUME TimelineGrows
  PROVE  Position' \subseteq Nat /\ Position' = 1..Len(timeline') /\ Len(timeline') \in Nat
<1>1. timeline' \in Seq(Row)
  BY DEF TimelineGrows
<1>2. Position' = 1..Len(timeline')
  BY <1>1, LenProperties DEF Position
<1>3. Len(timeline') \in Nat
  BY <1>1, LenProperties
<1> QED
  BY <1>2, <1>3

\* Without a new row nothing changes.
LEMMA SameRows ==
  ASSUME TablesGrow, RowsGood, timeline' = timeline
  PROVE  TimelineGrows /\ RowsGood'
<1>1. TimelineGrows /\ Position' \ Position = {}
  <2>1. Position' = Position /\ timeline \in Seq(Row)
    BY DEF Position, TablesGrow, Typed, TypeOK
  <2> QED
    BY <2>1 DEF TimelineGrows
<1>2. Typed /\ RunsGrow
  BY DEF TablesGrow
<1>3. PairsInOrder'
  BY <1>1, <1>2, PairsGrow DEF RowsGood
<1>4. NothingScheduled'
  BY <1>1, <1>2, ScheduledGrows DEF RowsGood
<1>5. StatusHasReceipt'
  BY <1>1, <1>2, ReceiptsGrow DEF RowsGood
<1>6. RowsRefer'
  BY <1>1, RefersGrow DEF RowsGood
<1> QED
  BY <1>1, <1>3, <1>4, <1>5, <1>6 DEF RowsGood

\* One new row that is not about a task: the agent has none with its key, no event of a
\* worker precedes its input, and those of its run come before it.
LEMMA OneRow ==
  ASSUME TablesGrow, RowsGood, TimelineGrows,
         NEW m, Position' = Position \cup {m}, m \notin Position, NEW row \in Row, timeline'[m] = row,
         row.key.kind \notin {"receipt", "status"}, ~Has(row.agent, row.key),
         RowRefers(row)', ~Scheduled(row.run)',
         row.key.kind = "input" =>
           \A p \in Position : timeline[p].key.kind = "worker" => timeline[p].key.of # row.key.of,
         row.key.kind = "worker" =>
           \A p \in Position : /\ timeline[p].key.kind = "worker" /\ timeline[p].key.of = row.key.of
                               /\ timeline[p].agent = row.agent
                               => timeline[p].key.n < row.key.n
  PROVE  RowsGood'
<1>1. Typed /\ RunsGrow
  BY DEF TablesGrow
<1>2. \A p \in Position' \ Position : p = m
  OBVIOUS
<1>3. PairsInOrder'
  <2>1. ASSUME NEW p \in Position', p < m, timeline'[p].agent = row.agent
        PROVE  PairInOrder(timeline'[p].key, row.key)
    <3>1. m \in Nat /\ p # m
      <4>3. m \in Nat
        BY PositionsGrow
      <4> QED
        BY <2>1, <4>3
    <3>2. p \in Position /\ timeline'[p] = timeline[p]
      BY <3>1 DEF TimelineGrows
    <3> DEFINE first == timeline[p].key
    <3>3. first # row.key
      BY <2>1, <3>2 DEF Has
    <3>4. timeline[p].agent = row.agent
      BY <2>1, <3>2
    <3>5. row.key.kind = "input" => first.kind # "worker" \/ first.of # row.key.of
      BY <3>2
    <3>6. row.key.kind = "worker" /\ first.kind = "worker" /\ first.of = row.key.of => first.n < row.key.n
      BY <3>2, <3>4
    <3>7. row.key.kind # "receipt" /\ row.key.kind # "status"
      OBVIOUS
    <3>8. timeline'[p].key = first
      BY <3>2
    <3> HIDE DEF first
    <3> QED
      BY <3>3, <3>5, <3>6, <3>7, <3>8 DEF PairInOrder
  <2>2. \A q \in Position' \ Position : \A p \in Position' :
           p < q /\ timeline'[p].agent = timeline'[q].agent
             => PairInOrder(timeline'[p].key, timeline'[q].key)
    BY <1>2, <2>1
  <2> QED
    BY <1>1, <2>2, PairsGrow DEF RowsGood
<1>4. NothingScheduled'
  <2>1. \A p \in Position' \ Position : ~Scheduled(timeline[p].run)'
    BY <1>2 DEF Scheduled
  <2> QED
    BY <1>1, <2>1, ScheduledGrows DEF RowsGood
<1>5. StatusHasReceipt'
  <2>1. \A p \in Position' \ Position : timeline'[p].key.kind # "status"
    BY <1>2
  <2> QED
    BY <1>1, <2>1, ReceiptsGrow DEF RowsGood
<1>6. RowsRefer'
  <2>1. \A p \in Position' \ Position : RowRefers(timeline[p])'
    BY <1>2 DEF RowRefers
  <2> QED
    BY <2>1, RefersGrow DEF RowsGood
<1> QED
  BY <1>3, <1>4, <1>5, <1>6 DEF RowsGood

\* The same for a row that is appended unless it is there.
LEMMA AppendedGood ==
  ASSUME TablesGrow, RowsGood, NEW a \in Agent, NEW r \in Nat, NEW key \in Key, NEW isScheduled,
         timeline' = Appended(a, r, key, isScheduled),
         key.kind \notin {"receipt", "status"},
         ~isScheduled => ~Scheduled(r)',
         NEW row, row = [agent |-> a, run |-> r, key |-> key], RowRefers(row)',
         key.kind = "input" =>
           \A p \in Position : timeline[p].key.kind = "worker" => timeline[p].key.of # key.of,
         key.kind = "worker" =>
           \A p \in Position : /\ timeline[p].key.kind = "worker" /\ timeline[p].key.of = key.of
                               /\ timeline[p].agent = a
                               => timeline[p].key.n < key.n
  PROVE  /\ TimelineGrows /\ RowsGood'
         /\ ~isScheduled => Has(a, key)'
         /\ \A p \in Position' \ Position : timeline'[p].agent = a /\ timeline'[p].key = key
<1>1. TypeOK
  BY DEF TablesGrow, Typed
<1>2. /\ TimelineGrows
      /\ \/ timeline' = timeline /\ (isScheduled \/ Has(a, key))
         \/ /\ ~isScheduled /\ ~Has(a, key)
            /\ Position' = Position \cup {Len(timeline) + 1}
            /\ timeline'[Len(timeline) + 1] = row
  BY <1>1, AppendedRow
<1>3. CASE timeline' = timeline /\ (isScheduled \/ Has(a, key))
  <2>1. Position' = Position
    BY <1>3 DEF Position
  <2>2. RowsGood'
    BY <1>3, SameRows
  <2>3. Has(a, key) => Has(a, key)'
    BY <1>2, HasStays
  <2> QED
    BY <1>2, <1>3, <2>1, <2>2, <2>3
<1>4. CASE /\ ~isScheduled /\ ~Has(a, key)
           /\ Position' = Position \cup {Len(timeline) + 1}
           /\ timeline'[Len(timeline) + 1] = row
  <2>1. PICK m : m = Len(timeline) + 1
    OBVIOUS
  <2>2. m \notin Position
    BY <1>1, <2>1, Rows
  <2>3. row \in Row /\ row.agent = a /\ row.run = r /\ row.key = key
    BY DEF Row
  <2>4. Position' = Position \cup {m} /\ timeline'[m] = row
    BY <1>4, <2>1
  <2>5. RowsGood'
    BY <1>2, <1>4, <2>2, <2>3, <2>4, OneRow
  <2>6. Has(a, key)'
    BY <2>3, <2>4 DEF Has
  <2>7. \A p \in Position' \ Position : timeline'[p].agent = a /\ timeline'[p].key = key
    BY <2>2, <2>3, <2>4
  <2> QED
    BY <1>2, <2>5, <2>6, <2>7
<1> QED
  BY <1>2, <1>3, <1>4

\* What is told of a run stays told when nothing is added to it.
LEMMA ToldStays ==
  ASSUME TablesGrow, TimelineGrows, NEW r \in RunId, events'[r] = events[r], RunTold(r),
         \A p \in Position' \ Position :
           timeline'[p].key.kind = "worker" => timeline'[p].key.of # r
  PROVE  RunTold(r)'
<1>1. run'[r].agent = run[r].agent /\ bound' = bound
  BY DEF TablesGrow, RunsGrow
<1>2. Has(run[r].agent, InputKey(r))'
  <2>1. PICK b, key : b = run[r].agent /\ key = InputKey(r)
    OBVIOUS
  <2>2. Has(b, key)
    BY <2>1 DEF RunTold
  <2>3. Has(b, key)'
    BY <2>2, HasStays
  <2> QED
    BY <1>1, <2>1, <2>3 DEF Has, InputKey
<1>3. ASSUME NEW s \in 1..bound.event
      PROVE  Has(run[r].agent, WorkerKey(r, s))' <=> s \in events'[r]
  <2>1. PICK b, key : b = run[r].agent /\ key = WorkerKey(r, s)
    OBVIOUS
  <2>2. Has(b, key) <=> s \in events[r]
    BY <2>1 DEF RunTold
  <2>3. Has(b, key) => Has(b, key)'
    BY HasStays
  <2>4. key.kind = "worker" /\ key.of = r
    BY <2>1 DEF WorkerKey
  <2>5. Has(b, key)' => Has(b, key)
    BY <2>4, HasCame
  <2>6. Has(b, key)' <=> Has(run[r].agent, WorkerKey(r, s))'
    BY <1>1, <2>1 DEF Has, WorkerKey
  <2> QED
    BY <2>2, <2>3, <2>5, <2>6
<1> QED
  BY <1>1, <1>2, <1>3 DEF RunTold

\* A run is inserted with its input.
LEMMA NewRunTold ==
  ASSUME TablesGrow, RowsGood, RunsTold, NEW a \in Agent, NEW source \in Sources \cup {"task"}, NewRun(a, source)
  PROVE  TimelineGrows /\ RowsGood' /\ RunsTold'
<1>0. PICK r, key, sch, row : /\ r = Len(run) + 1 /\ key = InputKey(r) /\ sch = (source = "schedule")
                              /\ row = [agent |-> a, run |-> r, key |-> key]
  OBVIOUS
<1>1. /\ RunId' = RunId \cup {r} /\ r \notin RunId /\ r \in Nat
      /\ run'[r] = [agent |-> a, source |-> source, status |-> "active"]
      /\ \A k \in RunId : events'[k] = events[k]
      /\ events'[r] = {}
  BY <1>0, NewRunRows DEF TablesGrow
<1>2. run'[r].agent = a /\ run'[r].source = source /\ r # 0
  BY <1>0, <1>1, Rows DEF TablesGrow, Typed
<1>3. key \in Key /\ key.kind = "input" /\ key.of = r /\ row \in Row /\ row.run = r /\ row.key = key
  BY <1>0, <1>1, KeysTyped DEF Row
<1>4. timeline' = Appended(a, r, key, sch)
  BY <1>0 DEF NewRun
<1>5. Scheduled(r)' <=> sch
  BY <1>0, <1>2 DEF Scheduled
<1>6. \A p \in Position : /\ timeline[p].key.kind = "worker" => timeline[p].key.of \in RunId
                          /\ timeline[p].key \in Key
  BY Rows DEF RowsGood, RowsRefer, RowRefers, TablesGrow, Typed, Row
<1>7. RowRefers(row)'
  <2>1. /\ row.run \in RunId' /\ row.key.kind = "input" /\ row.key.of \in RunId' /\ row.key.n = 0
        /\ row.key.status = "none"
    BY <1>0, <1>1, <1>3 DEF InputKey
  <2> QED
    BY <2>1 DEF RowRefers
<1>8. /\ TimelineGrows /\ RowsGood'
      /\ ~sch => Has(a, key)'
      /\ \A p \in Position' \ Position : timeline'[p].agent = a /\ timeline'[p].key = key
  <2>1. /\ r \in Nat /\ key \in Key /\ key.kind = "input" /\ key.of = r
        /\ row = [agent |-> a, run |-> r, key |-> key]
        /\ \A p \in Position : timeline[p].key.kind = "worker" => timeline[p].key.of # key.of
    BY <1>0, <1>1, <1>3, <1>6
  <2> QED
    BY <2>1, <1>4, <1>5, <1>7, AppendedGood
<1>9. ASSUME NEW k \in RunId, ~Scheduled(k)' PROVE RunTold(k)'
  <2>1. ~Scheduled(k)
    BY <1>9, ScheduledStays DEF TablesGrow
  <2>2. RunTold(k)
    BY <2>1 DEF RunsTold
  <2>3. \A p \in Position' \ Position : timeline'[p].key.kind # "worker"
    BY <1>3, <1>8
  <2> QED
    BY <1>1, <1>8, <2>2, <2>3, ToldStays
<1>10. ASSUME ~sch PROVE RunTold(r)'
  <2>1. Has(run[r].agent, InputKey(r))'
    BY <1>0, <1>2, <1>8, <1>10 DEF Has, InputKey
  <2>2. ASSUME NEW s, Has(run[r].agent, WorkerKey(r, s))' PROVE FALSE
    <3>1. PICK p \in Position' : timeline'[p].key.kind = "worker" /\ timeline'[p].key.of = r
      BY <2>2 DEF Has, WorkerKey
    <3>2. p \in Position
      BY <1>3, <1>8, <3>1
    <3>3. timeline'[p] = timeline[p]
      BY <1>8, <3>2 DEF TimelineGrows
    <3> QED
      BY <1>1, <1>6, <3>1, <3>2, <3>3
  <2> QED
    BY <1>1, <2>1, <2>2 DEF RunTold
<1>11. RunsTold'
  BY <1>1, <1>5, <1>9, <1>10 DEF RunsTold
<1> QED
  BY <1>8, <1>11

\* A step that adds no row of a worker and leaves the events alone.
LEMMA ToldWithout ==
  ASSUME TablesGrow, TimelineGrows, RunsTold, RunId' = RunId, events' = events,
         \A p \in Position' \ Position : timeline'[p].key.kind # "worker"
  PROVE  RunsTold'
<1>1. ASSUME NEW k \in RunId, ~Scheduled(k)' PROVE RunTold(k)'
  <2>1. ~Scheduled(k)
    BY <1>1, ScheduledStays DEF TablesGrow
  <2>2. RunTold(k)
    BY <2>1 DEF RunsTold
  <2> QED
    BY <2>2, ToldStays
<1> QED
  BY <1>1 DEF RunsTold

\* The outcome of a run.
LEMMA FinishRunTold ==
  ASSUME TablesGrow, RowsGood, RunsTold, NEW r \in RunId, NEW status \in {"completed", "interrupted"},
         FinishRun(r, status), RunId' = RunId, events' = events
  PROVE  TimelineGrows /\ RowsGood' /\ RunsTold'
<1> DEFINE key == TerminalKey(r, status)
           a == run[r].agent
           row == [agent |-> a, run |-> r, key |-> key]
<1>1. run[r] \in Run /\ r \in Nat /\ r # 0 /\ a \in Agent
  BY Rows DEF TablesGrow, Typed, Run
<1>2. status \in RunStatus
  BY DEF RunStatus
<1>3. key \in Key /\ key.kind = "terminal"
  BY <1>1, <1>2, KeysTyped
<1>4. row \in Row /\ row.run = r /\ row.key = key
  BY <1>1, <1>3 DEF Row
<1>5. RowRefers(row)
  BY <1>1, <1>4, KeysRefer
<1> HIDE DEF key
<1>6. PICK new, b : new = row /\ b = a
  OBVIOUS
<1>7. RowRefers(new)'
  BY <1>4, <1>5, <1>6, RefersStays DEF TablesGrow
<1>8. timeline' = Appended(b, r, key, Scheduled(r))
  BY <1>6 DEF FinishRun, key
<1>9. ~Scheduled(r) => ~Scheduled(r)'
  BY ScheduledStays DEF TablesGrow
<1>10. PICK k, sch : k = key /\ sch = Scheduled(r)
  OBVIOUS
<1>11. /\ timeline' = Appended(b, r, k, sch) /\ b \in Agent /\ k \in Key /\ k.kind = "terminal"
       /\ new = [agent |-> b, run |-> r, key |-> k]
  BY <1>1, <1>3, <1>6, <1>8, <1>10
<1>12. ~sch => ~Scheduled(r)'
  BY <1>9, <1>10
<1>13. /\ TimelineGrows /\ RowsGood'
       /\ \A p \in Position' \ Position : timeline'[p].agent = b /\ timeline'[p].key = k
  BY <1>1, <1>7, <1>11, <1>12, AppendedGood
<1>14. \A p \in Position' \ Position : timeline'[p].key.kind # "worker"
  BY <1>11, <1>13
<1> QED
  BY <1>13, <1>14, ToldWithout

\* New chat.
LEMMA ResetTold ==
  ASSUME TablesGrow, RowsGood, RunsTold, NEW a \in Agent, ResetAgentConversation(a), RunId' = RunId, events' = events
  PROVE  TimelineGrows /\ RowsGood' /\ RunsTold'
<1>0. PICK k, r, sch : k = ResetKey(used.reset + 1) /\ r = 0 /\ sch = FALSE
  OBVIOUS
<1>1. k \in Key /\ k.kind = "reset"
  BY <1>0, KeysTyped DEF TablesGrow, Typed, UsedTyped
<1>2. timeline' = Appended(a, r, k, sch) /\ k.kind \notin {"receipt", "status", "input", "worker"} /\ r \in Nat
  BY <1>0, <1>1 DEF ResetAgentConversation
<1>3. PICK new : new = [agent |-> a, run |-> r, key |-> k]
  OBVIOUS
<1>4. new \in Row /\ new.run = 0 /\ new.key = k
  BY <1>0, <1>1, <1>3 DEF Row
<1>5. RowRefers(new)
  BY <1>0, <1>4, KeysRefer
<1>6. RowRefers(new)'
  BY <1>4, <1>5, RefersStays DEF TablesGrow
<1>7. ~Scheduled(r)'
  BY <1>0 DEF Scheduled
<1>8. /\ TimelineGrows /\ RowsGood'
      /\ \A p \in Position' \ Position : timeline'[p].agent = a /\ timeline'[p].key = k
  BY <1>1, <1>2, <1>3, <1>6, <1>7, AppendedGood
<1>9. \A p \in Position' \ Position : timeline'[p].key.kind # "worker"
  BY <1>1, <1>8
<1> QED
  BY <1>8, <1>9, ToldWithout

\* A row of a worker says which event it is.
LEMMA WorkerRow ==
  ASSUME Typed, RowsRefer, NEW p \in Position, timeline[p].key.kind = "worker"
  PROVE  /\ timeline[p].key.of \in RunId /\ timeline[p].key.n \in 1..bound.event
         /\ timeline[p].key = WorkerKey(timeline[p].key.of, timeline[p].key.n)
<1>1. timeline[p].key \in Key
  BY Rows DEF Typed, Row
<1>2. /\ timeline[p].key.of \in RunId /\ timeline[p].key.n \in 1..bound.event
      /\ timeline[p].key.status = "none"
  BY DEF RowsRefer, RowRefers
<1> QED
  BY <1>1, <1>2 DEF Key, WorkerKey

\* An event enters the timeline behind all that the relay stored before.
LEMMA WorkerEventTold ==
  ASSUME TablesGrow, RelayInv, RowsGood, RunsTold, NEW r \in RunId, AppendWorkerEvent(r)
  PROVE  TimelineGrows /\ RowsGood' /\ RunsTold'
<1>0. PICK s, a : s = FirstOf(relay[r].batch) /\ a = run[r].agent
  OBVIOUS
<1>1. /\ relay[r].pc = "storing" /\ relay[r].batch # {} /\ UNCHANGED <<run, bound>>
      /\ IF s \in events[r]
         THEN UNCHANGED <<events, timeline>>
         ELSE /\ events' = [events EXCEPT ![r] = @ \cup {s}]
              /\ timeline' = Appended(a, r, WorkerKey(r, s), Scheduled(r))
  BY <1>0 DEF AppendWorkerEvent
<1>2. RunId' = RunId
  BY <1>1 DEF RunId
<1>3. CASE s \in events[r]
  <2>1. UNCHANGED <<events, timeline>>
    BY <1>1, <1>3
  <2>2. TimelineGrows /\ RowsGood' /\ Position' = Position
    BY <2>1, SameRows DEF Position
  <2> QED
    BY <1>2, <2>1, <2>2, ToldWithout
<1>4. CASE s \notin events[r]
  <2>0. Typed
    BY DEF TablesGrow
  <2>1. /\ events' = [events EXCEPT ![r] = @ \cup {s}]
        /\ timeline' = Appended(a, r, WorkerKey(r, s), Scheduled(r))
    BY <1>1, <1>4
  <2>2. /\ RunTables /\ bound.event \in Nat
        /\ RunRows(bound.event, outbox[r], events[r], relay[r])
        /\ Copied(run[r].status, outbox[r], events[r], relay[r])
    BY <2>0, RunsKept DEF RunKept, Relayed
  <2>3. /\ relay[r].batch \subseteq outbox[r].log /\ outbox[r].log \subseteq 1..bound.event
        /\ relay[r].batch \subseteq Nat /\ relay[r].after \in Nat /\ events[r] \subseteq Nat
    BY <2>2, RunRowFields DEF RunRows
  <2>4. s \in relay[r].batch
    BY <1>0, <1>1, <2>3, FirstIsLeast
  <2>5. s \in 1..bound.event /\ s \in Nat
    BY <2>3, <2>4
  <2>6. \A e \in events[r] : e < s
    <3>1. \A e \in events[r] : e <= relay[r].after
      BY <1>1, <2>2 DEF Copied
    <3>2. relay[r].after < s
      BY <1>1, <2>2, <2>4 DEF Copied, Storing
    <3> QED
      BY <2>3, <2>5, <3>1, <3>2
  <2>7. events'[r] = events[r] \cup {s} /\ \A k \in RunId : k # r => events'[k] = events[k]
    BY <2>1, <2>2 DEF RunTables
  <2>8. run[r] \in Run /\ r \in Nat /\ r # 0 /\ a \in Agent
    BY <1>0, <2>0, Rows DEF Typed, Run
  <2>9. CASE Scheduled(r)
    <3>1. timeline' = timeline
      BY <2>1, <2>9 DEF Appended
    <3>2. TimelineGrows /\ RowsGood' /\ Position' = Position
      BY <3>1, SameRows DEF Position
    <3>3. ASSUME NEW k \in RunId, ~Scheduled(k)' PROVE RunTold(k)'
      <4>1. ~Scheduled(k) /\ k # r
        BY <2>9, <3>3, ScheduledStays DEF TablesGrow
      <4>2. RunTold(k)
        BY <4>1 DEF RunsTold
      <4> QED
        BY <2>7, <3>2, <4>1, <4>2, ToldStays
    <3> QED
      BY <1>2, <3>2, <3>3 DEF RunsTold
  <2>10. CASE ~Scheduled(r)
    <3>0. PICK key, sch, row : /\ key = WorkerKey(r, s) /\ sch = Scheduled(r)
                               /\ row = [agent |-> a, run |-> r, key |-> key]
      OBVIOUS
    <3>1. /\ key \in Key /\ key.kind = "worker" /\ key.of = r /\ key.n = s
          /\ row \in Row /\ row.run = r /\ row.key = key
      BY <2>5, <2>8, <3>0, KeysTyped DEF Row
    <3>2. timeline' = Appended(a, r, key, sch) /\ ~sch
      BY <2>1, <2>10, <3>0
    <3>3. RowRefers(row)
      BY <2>5, <2>8, <3>0, <3>1, KeysRefer
    <3>4. RowRefers(row)'
      BY <3>1, <3>3, RefersStays DEF TablesGrow
    <3>5. ~Scheduled(r)'
      BY <2>10, ScheduledStays DEF TablesGrow
    <3>6. RunTold(r)
      BY <2>10 DEF RunsTold
    <3>7. ASSUME NEW p \in Position, timeline[p].key.kind = "worker", timeline[p].key.of = r, timeline[p].agent = a
          PROVE  timeline[p].key.n < s
      <4>1. /\ timeline[p].key.n \in 1..bound.event
            /\ timeline[p].key = WorkerKey(r, timeline[p].key.n)
        BY <2>0, <3>7, WorkerRow DEF RowsGood
      <4>2. Has(run[r].agent, WorkerKey(r, timeline[p].key.n))
        BY <1>0, <3>7, <4>1 DEF Has
      <4>3. timeline[p].key.n \in events[r]
        BY <3>6, <4>1, <4>2 DEF RunTold
      <4> QED
        BY <2>6, <4>3
    <3>8. /\ TimelineGrows /\ RowsGood' /\ Has(a, key)'
          /\ \A p \in Position' \ Position : timeline'[p].agent = a /\ timeline'[p].key = key
      <4>1. /\ a \in Agent /\ r \in Nat /\ key \in Key /\ key.kind = "worker" /\ ~sch
            /\ row = [agent |-> a, run |-> r, key |-> key]
            /\ timeline' = Appended(a, r, key, sch)
            /\ \A p \in Position : /\ timeline[p].key.kind = "worker" /\ timeline[p].key.of = key.of
                                   /\ timeline[p].agent = a
                                   => timeline[p].key.n < key.n
        BY <2>8, <3>0, <3>1, <3>2, <3>7
      <4> QED
        BY <3>4, <3>5, <4>1, AppendedGood
    <3>9. ASSUME NEW k \in RunId, k # r, ~Scheduled(k)' PROVE RunTold(k)'
      <4>1. ~Scheduled(k)
        BY <3>9, ScheduledStays DEF TablesGrow
      <4>2. RunTold(k)
        BY <4>1 DEF RunsTold
      <4>3. \A p \in Position' \ Position : timeline'[p].key.of # k
        BY <3>1, <3>8, <3>9
      <4>4. events'[k] = events[k]
        BY <2>7, <3>9
      <4> QED
        BY <3>8, <4>2, <4>3, <4>4, ToldStays
    <3>10. RunTold(r)'
      <4>1. run'[r].agent = a /\ bound' = bound
        BY <1>0, <1>1
      <4>2. Has(run[r].agent, InputKey(r))'
        <5>1. PICK input : input = InputKey(r)
          OBVIOUS
        <5>2. Has(a, input)
          BY <1>0, <3>6, <5>1 DEF RunTold
        <5>3. Has(a, input)'
          BY <3>8, <5>2, HasStays
        <5> QED
          BY <4>1, <5>1, <5>3 DEF Has, InputKey
      <4>3. ASSUME NEW x \in 1..bound.event PROVE Has(run[r].agent, WorkerKey(r, x))' <=> x \in events'[r]
        <5>1. PICK other : other = WorkerKey(r, x)
          OBVIOUS
        <5>2. Has(a, other) <=> x \in events[r]
          BY <1>0, <3>6, <5>1 DEF RunTold
        <5>3. Has(a, other) => Has(a, other)'
          BY <3>8, HasStays
        <5>4. Has(a, other)' /\ ~Has(a, other) => other = key
          BY <3>8, HasCame
        <5>5. other = key <=> x = s
          BY <3>0, <5>1 DEF WorkerKey
        <5>6. Has(run[r].agent, WorkerKey(r, x))' <=> Has(a, other)'
          BY <4>1, <5>1 DEF Has, WorkerKey
        <5>7. x \in events'[r] <=> x \in events[r] \/ x = s
          BY <2>7
        <5>8. other = key => Has(a, other)'
          BY <3>8
        <5> QED
          BY <5>2, <5>3, <5>4, <5>5, <5>6, <5>7, <5>8
      <4> QED
        BY <4>1, <4>2, <4>3 DEF RunTold
    <3>11. RunsTold'
      BY <1>2, <3>9, <3>10 DEF RunsTold
    <3> QED
      BY <3>8, <3>11
  <2> QED
    BY <2>9, <2>10
<1> QED
  BY <1>3, <1>4

\* What a projection lacks.
LEMMA LackingRow ==
  ASSUME Typed, NEW side \in Side, NEW kind \in Kind, NEW t \in Lacking(side, kind), NEW row, row = TaskRow(side, kind, t)
  PROVE  /\ row \in Row /\ t \in TaskId /\ ~Scheduled(row.run) /\ ~Has(row.agent, row.key)
         /\ row.key = (IF kind = "receipt" THEN ReceiptKey(t) ELSE StatusKey(t))
         /\ row.key.kind = kind /\ row.key.of = t
<1>1. t \in TaskId /\ ~Scheduled(row.run) /\ ~Has(row.agent, row.key)
  BY DEF Lacking
<1> QED
  BY <1>1, TaskRowTyped DEF Typed

\* The projection of the tasks tells each state behind the receipt and behind older states.
LEMMA SyncTold ==
  ASSUME TablesGrow, RowsGood, timeline' = Synced
  PROVE  /\ TimelineGrows /\ RowsGood'
         /\ \A p \in Position' \ Position : timeline'[p].key.kind # "worker"
<1>0. Typed
  BY DEF TablesGrow
<1>1. /\ TimelineGrows
      /\ \A p \in Position' \ Position : \E side \in Side, kind \in Kind :
           /\ timeline'[p].key.of \in Lacking(side, kind)
           /\ timeline'[p] = TaskRow(side, kind, timeline'[p].key.of)
      /\ \A p, q \in Position' \ Position : p < q =>
           /\ timeline'[p].key.kind = "status" => timeline'[q].key.kind # "receipt"
           /\ timeline'[p].agent = timeline'[q].agent => timeline'[p].key # timeline'[q].key
      /\ \A side \in Side, kind \in Kind : \A t \in Lacking(side, kind) :
           \E p \in Position' : timeline'[p] = TaskRow(side, kind, t)
  BY <1>0, SyncedRows
<1>2. ASSUME NEW p \in Position' \ Position
      PROVE  \E side \in Side, kind \in Kind : \E t \in Lacking(side, kind) :
               timeline'[p] = TaskRow(side, kind, t)
  BY <1>1
<1>3. ASSUME NEW p \in Position' \ Position
      PROVE  /\ timeline'[p].key.kind \in Kind /\ timeline'[p].key.of \in TaskId
             /\ timeline'[p].key = (IF timeline'[p].key.kind = "receipt" THEN ReceiptKey(timeline'[p].key.of)
                                    ELSE StatusKey(timeline'[p].key.of))
             /\ ~Has(timeline'[p].agent, timeline'[p].key)
  <2>1. PICK side \in Side, kind \in Kind : \E t \in Lacking(side, kind) :
               timeline'[p] = TaskRow(side, kind, t)
    BY <1>2
  <2>2. PICK t \in Lacking(side, kind) : timeline'[p] = TaskRow(side, kind, t)
    BY <2>1
  <2>3. PICK row : row = timeline'[p]
    OBVIOUS
  <2>4. /\ t \in TaskId /\ ~Has(row.agent, row.key)
        /\ row.key = (IF kind = "receipt" THEN ReceiptKey(t) ELSE StatusKey(t))
        /\ row.key.kind = kind /\ row.key.of = t
    BY <1>0, <2>2, <2>3, LackingRow
  <2> QED
    BY <2>3, <2>4
<1>4. ASSUME NEW q \in Position' \ Position, NEW p \in Position', p < q,
             timeline'[p].agent = timeline'[q].agent
      PROVE  PairInOrder(timeline'[p].key, timeline'[q].key)
  <2>1. PICK first, second, a : first = timeline'[p].key /\ second = timeline'[q].key /\ a = timeline'[q].agent
    OBVIOUS
  <2>2. /\ second.kind \in Kind /\ second.of \in TaskId /\ ~Has(a, second)
        /\ second = (IF second.kind = "receipt" THEN ReceiptKey(second.of) ELSE StatusKey(second.of))
    BY <1>3, <2>1
  <2>3. second.kind = "receipt" \/ second.kind = "status"
    BY <2>2 DEF Kind
  <2>4. CASE p \in Position
    <3>1. timeline'[p] = timeline[p]
      BY <1>1, <2>4 DEF TimelineGrows
    <3>2. Has(a, first) /\ timeline[p].key = first /\ timeline[p].agent = a
      BY <1>4, <2>1, <2>4, <3>1 DEF Has
    <3>3. first # second
      BY <2>2, <3>2
    <3>4. first.kind = "status" /\ first.of = second.of => second.kind # "receipt"
      <4>1. first.kind = "status" => Has(a, ReceiptKey(first.of))
        BY <2>4, <3>2 DEF RowsGood, StatusHasReceipt
      <4> QED
        BY <2>2, <4>1
    <3>5. ASSUME first.kind = "status", first.of = second.of, second.kind = "status" PROVE first.n < second.n
      <4>1. second.n = task[second.of].version /\ second = StatusKey(second.of)
        BY <2>2, <3>5 DEF StatusKey
      <4>2. /\ first \in Key /\ first.n <= task[first.of].version /\ first.status = "none"
        BY <1>0, <2>4, <3>2, <3>5, Rows DEF RowsGood, RowsRefer, RowRefers, Typed, Row
      <4>3. task[second.of].version \in Nat /\ first.n \in Nat
        BY <1>0, <2>2, <4>2, Rows DEF Typed, Task, Key
      <4>4. first.n = task[second.of].version => first = StatusKey(second.of)
        BY <3>5, <4>2 DEF Key, StatusKey
      <4>5. first.n # second.n
        BY <3>3, <4>1, <4>4
      <4> QED
        BY <3>5, <4>1, <4>2, <4>3, <4>5
    <3>6. second.kind # "input" /\ second.kind # "worker"
      BY <2>3
    <3> QED
      BY <2>1, <3>3, <3>4, <3>5, <3>6 DEF PairInOrder
  <2>5. CASE p \notin Position
    <3>1. first # second /\ (first.kind = "status" => second.kind # "receipt")
      BY <1>1, <1>4, <2>1, <2>5
    <3>2. first.kind = "status" => first = StatusKey(first.of)
      BY <1>3, <2>1, <2>5
    <3>3. second.kind = "status" => second = StatusKey(second.of)
      BY <2>2
    <3>4. second.kind # "input" /\ second.kind # "worker"
      BY <2>3
    <3>5. ~(first.kind = "status" /\ second.kind = "status" /\ first.of = second.of)
      BY <3>1, <3>2, <3>3
    <3> QED
      BY <2>1, <3>1, <3>4, <3>5 DEF PairInOrder
  <2> QED
    BY <2>4, <2>5
<1>5. PairsInOrder'
  BY <1>0, <1>1, <1>4, PairsGrow DEF RowsGood
<1>6. NothingScheduled'
  <2>1. ASSUME NEW p \in Position' \ Position PROVE ~Scheduled(timeline[p].run)'
    <3>1. PICK side \in Side, kind \in Kind : \E t \in Lacking(side, kind) :
                 timeline'[p] = TaskRow(side, kind, t)
      BY <1>2
    <3>2. PICK t \in Lacking(side, kind) : timeline'[p] = TaskRow(side, kind, t)
      BY <3>1
    <3>3. PICK row : row = timeline'[p]
      OBVIOUS
    <3>4. ~Scheduled(row.run) /\ t \in TaskId
      BY <1>0, <3>2, <3>3, LackingRow
    <3>5. row.run \in RunId \cup {0}
      <4>1. RowRefers(row)
        BY <1>0, <3>2, <3>3, <3>4, TaskRowRefers
      <4> QED
        BY <4>1 DEF RowRefers
    <3> QED
      BY <3>3, <3>4, <3>5 DEF Scheduled, TablesGrow, RunsGrow
  <2> QED
    BY <1>0, <1>1, <2>1, ScheduledGrows DEF RowsGood, TablesGrow
<1>7. StatusHasReceipt'
  <2>1. ASSUME NEW p \in Position' \ Position, timeline'[p].key.kind = "status"
        PROVE  Has(timeline[p].agent, ReceiptKey(timeline[p].key.of))'
    <3>1. PICK side \in Side, kind \in Kind : \E t \in Lacking(side, kind) :
                 timeline'[p] = TaskRow(side, kind, t)
      BY <1>2
    <3>2. PICK t \in Lacking(side, kind) : timeline'[p] = TaskRow(side, kind, t)
      BY <3>1
    <3>3. PICK row, receipt : row = timeline'[p] /\ receipt = TaskRow(side, "receipt", t)
      OBVIOUS
    <3>4. /\ t \in TaskId /\ ~Scheduled(row.run) /\ row.key.kind = kind /\ row.key.of = t
      BY <1>0, <3>2, <3>3, LackingRow
    <3>5. kind = "status" /\ "receipt" \in Kind
      BY <2>1, <3>3, <3>4 DEF Kind
    <3>6. receipt.agent = row.agent /\ receipt.run = row.run
      BY <3>2, <3>3 DEF TaskRow
    <3>7. receipt.key = ReceiptKey(t)
      BY <3>3 DEF TaskRow
    <3>8. CASE t \in Lacking(side, "receipt")
      <4>1. PICK q \in Position' : timeline'[q] = receipt
        BY <1>1, <3>3, <3>5, <3>8
      <4> QED
        BY <3>3, <3>4, <3>6, <3>7, <4>1 DEF Has, ReceiptKey
    <3>9. CASE t \notin Lacking(side, "receipt")
      <4>1. Has(receipt.agent, receipt.key)
        BY <3>3, <3>4, <3>6, <3>9 DEF Lacking
      <4>2. PICK b, key : b = receipt.agent /\ key = receipt.key
        OBVIOUS
      <4>3. Has(b, key)'
        BY <1>1, <4>1, <4>2, HasStays
      <4> QED
        BY <3>3, <3>4, <3>6, <3>7, <4>2, <4>3 DEF Has, ReceiptKey
    <3> QED
      BY <3>8, <3>9
  <2> QED
    BY <1>0, <1>1, <2>1, ReceiptsGrow DEF RowsGood
<1>8. RowsRefer'
  <2>1. ASSUME NEW p \in Position' \ Position PROVE RowRefers(timeline[p])'
    <3>1. PICK side \in Side, kind \in Kind : \E t \in Lacking(side, kind) :
                 timeline'[p] = TaskRow(side, kind, t)
      BY <1>2
    <3>2. PICK t \in Lacking(side, kind) : timeline'[p] = TaskRow(side, kind, t)
      BY <3>1
    <3>3. PICK row : row = timeline'[p]
      OBVIOUS
    <3>4. row \in Row /\ RowRefers(row)
      BY <1>0, <3>2, <3>3, LackingRow, TaskRowRefers
    <3>5. RowRefers(row)'
      BY <3>4, RefersStays DEF TablesGrow
    <3> QED
      BY <3>3, <3>5 DEF RowRefers
  <2> QED
    BY <1>1, <2>1, RefersGrow DEF RowsGood
<1>9. \A p \in Position' \ Position : timeline'[p].key.kind # "worker"
  BY <1>3 DEF Kind
<1> QED
  BY <1>1, <1>5, <1>6, <1>7, <1>8, <1>9 DEF RowsGood

\* Events are stored by relays, next to the rows of new runs.
LEMMA EventsMove ==
  ASSUME Typed, RelayInv, Step
  PROVE  \/ events' = events /\ RunId' = RunId
         \/ \E a \in Agent, source \in Sources \cup {"task"} : NewRun(a, source)
         \/ \E r \in RunId : AppendWorkerEvent(r)
<1>1. CASE UNCHANGED <<run, outbox, events, relay>> \/ Restart
  BY <1>1 DEF Restart, RunId
<1>2. CASE \E r \in RunId : RunStep(r)
  <2>1. PICK r \in RunId : RunStep(r)
    BY <1>2
  <2>2. CASE WorkerAppends(r) \/ WorkerFinishes(r)
    BY <2>2 DEF WorkerAppends, WorkerFinishes, RunId
  <2>3. CASE StoreFails(r) \/ StopRun(r) \/ CancelRelay(r) \/ RelayRun(r) \/ RelayPolls(r) \/ RelayFinishes(r)
    <3>1. RunId' = RunId
      BY <2>3, CopyMoves
    <3>2. events' = events
      BY <2>3 DEF StoreFails, StopRun, CancelRelay, RelayRun, RelayPolls, RelayFinishes
    <3> QED
      BY <3>1, <3>2
  <2>4. CASE AppendWorkerEvent(r)
    BY <2>4
  <2> QED
    BY <2>1, <2>2, <2>3, <2>4 DEF RunStep
<1> QED
  BY <1>1, <1>2, RelayMoves

\* Every step keeps the stories.
LEMMA StoryKept ==
  ASSUME Typed, RelayInv, StoryInv, Step
  PROVE  TimelineGrows /\ StoryInv' /\ RowsRefer'
<1>1. TablesGrow
  BY RunsMove, TasksMove, BoundStays DEF TablesGrow
<1>2. RowsGood /\ RunsTold
  BY StoryParts DEF StoryInv, RowsGood, RowsRefer, Typed
<1> SUFFICES TimelineGrows /\ RowsGood' /\ RunsTold'
  <2>1. StoriesInOrder' <=> PairsInOrder' /\ NothingScheduled' /\ RunsTold'
    BY StoryParts, PTL
  <2> QED
    BY <2>1 DEF RowsGood, StoryInv
<1>3. CASE \E a \in Agent, source \in Sources \cup {"task"} : NewRun(a, source)
  BY <1>1, <1>2, <1>3, NewRunTold
<1>4. CASE \E r \in RunId : AppendWorkerEvent(r)
  BY <1>1, <1>2, <1>4, WorkerEventTold
<1>5. CASE events' = events /\ RunId' = RunId
  <2>1. CASE timeline' = timeline
    <3>1. TimelineGrows /\ RowsGood' /\ Position' = Position
      BY <1>1, <1>2, <2>1, SameRows DEF Position
    <3> QED
      BY <1>1, <1>2, <1>5, <3>1, ToldWithout
  <2>2. CASE \E r \in RunId, status \in {"completed", "interrupted"} : FinishRun(r, status)
    BY <1>1, <1>2, <1>5, <2>2, FinishRunTold
  <2>3. CASE \E a \in Agent : ResetAgentConversation(a)
    BY <1>1, <1>2, <1>5, <2>3, ResetTold
  <2>4. CASE timeline' = Synced
    <3>1. TimelineGrows /\ RowsGood' /\ \A p \in Position' \ Position : timeline'[p].key.kind # "worker"
      BY <1>1, <1>2, <2>4, SyncTold
    <3> QED
      BY <1>1, <1>2, <1>5, <3>1, ToldWithout
  <2> QED
    BY <1>3, <1>4, <2>1, <2>2, <2>3, <2>4, TimelineMoves
<1> QED
  BY <1>3, <1>4, <1>5, EventsMove

-----------------------------------------------------------------------------
(* The panel and its calls, while rows are added behind all others.        *)

\* Rows seen at one time and at a later one.
Grown(visible, new, n) ==
  /\ visible \subseteq 1..n /\ visible \subseteq new /\ new \subseteq Nat
  /\ \A z \in new \ visible : n < z

\* What was visible lies below what came.
LEMMA GrownFacts ==
  ASSUME NEW n \in Nat, NEW visible, NEW new, Grown(visible, new, n), NEW S, S \subseteq visible
  PROVE  /\ \A z \in new : z \in Nat /\ (z \in visible \/ n < z)
         /\ \A x \in S : x \in visible /\ x \in new /\ x \in Nat /\ x <= n
<1>1. visible \subseteq 1..n /\ visible \subseteq new /\ new \subseteq Nat
  BY DEF Grown
<1>2. \A z \in new \ visible : n < z
  BY DEF Grown
<1>3. \A x \in 1..n : x \in Nat /\ x <= n
  OBVIOUS
<1> QED
  BY <1>1, <1>2, <1>3

\* What is shown stays a stretch.
LEMMA StretchStays ==
  ASSUME NEW n \in Nat, NEW visible, NEW new, Grown(visible, new, n),
         NEW b, b.cursor \in 0..n, Stretch(b, visible)
  PROVE  Stretch(b, new)
<1>1. /\ \A z \in new : z \in Nat /\ (z \in visible \/ n < z)
      /\ \A x \in b.shown : x \in visible /\ x \in new /\ x \in Nat /\ x <= n
      /\ b.cursor \in Nat /\ b.cursor <= n
  <2>1. b.shown \subseteq visible
    BY DEF Stretch
  <2>2. b.cursor \in Nat /\ b.cursor <= n
    OBVIOUS
  <2> QED
    BY <2>1, <2>2, GrownFacts
<1>2. \A x, y \in b.shown : \A z \in new : x <= z /\ z <= y => z \in b.shown
  <2> TAKE x, y \in b.shown
  <2> TAKE z \in new
  <2>1. z <= y => z \in visible
    BY <1>1
  <2> QED
    BY <2>1 DEF Stretch
<1>3. b.loaded /\ ~b.earlier => \A p \in new : p <= b.cursor => p \in b.shown
  <2>1. \A p \in new : p <= b.cursor => p \in visible
    BY <1>1
  <2> QED
    BY <2>1 DEF Stretch
<1>4. b.shown \subseteq new
  BY <1>1
<1> QED
  BY <1>2, <1>3, <1>4 DEF Stretch

\* So does a page.
LEMMA PagedStays ==
  ASSUME NEW n \in Nat, NEW visible, NEW new, Grown(visible, new, n),
         NEW c, c.cursor \in 0..n, Paged(c, visible)
  PROVE  Paged(c, new)
<1>1. /\ \A z \in new : z \in Nat /\ (z \in visible \/ n < z)
      /\ \A x \in c.rows : x \in visible /\ x \in new /\ x \in Nat /\ x <= n
      /\ c.cursor \in Nat /\ c.cursor <= n
  <2>1. c.rows \subseteq visible
    BY DEF Paged
  <2>2. c.cursor \in Nat /\ c.cursor <= n
    OBVIOUS
  <2> QED
    BY <2>1, <2>2, GrownFacts
<1>2. \A p \in c.rows : \A z \in new : z <= p => z \in visible
  BY <1>1
<1>3. \A z \in new : z < c.cursor => z \in visible
  BY <1>1
<1>4. Behind(c, visible) => Behind(c, new)
  BY <1>2 DEF Behind
<1>5. Latest(c, visible) => Latest(c, new)
  BY <1>2 DEF Latest
<1>6. Earlier(c, visible) => Earlier(c, new)
  BY <1>3 DEF Earlier
<1>7. c.rows \subseteq new
  BY <1>1
<1> QED
  BY <1>4, <1>5, <1>6, <1>7 DEF Paged

\* And a call goes on to fit what is shown.
LEMMA FitsStays ==
  ASSUME NEW n \in Nat, NEW visible, NEW new, Grown(visible, new, n),
         NEW c, c.cursor \in 0..n, NEW b, CallFits(c, b, visible)
  PROVE  CallFits(c, b, new)
BY PagedStays DEF CallFits

\* The rows of an agent grow.
LEMMA VisibleGrows ==
  ASSUME Typed, RunsGrow, TimelineGrows, NEW a
  PROVE  Grown(Visible(a), Visible(a)', Len(timeline))
<1>1. /\ Position = 1..Len(timeline) /\ Len(timeline) \in Nat
      /\ \A p \in Position : timeline[p].run \in RunId \cup {0}
  BY Rows DEF Typed, RowRefers
<1>2. Position' \subseteq Nat
  BY PositionsGrow
<1>3. Visible(a) \subseteq Position /\ Visible(a)' \subseteq Position'
  BY DEF Visible
<1>4. \A p \in Position : p \in Visible(a)' <=> p \in Visible(a)
  <2> TAKE p \in Position
  <2>1. PICK r : r = timeline[p].run
    OBVIOUS
  <2>2. r \in RunId \cup {0}
    BY <1>1, <2>1
  <2>3. Scheduled(r)' <=> Scheduled(r)
    BY <2>2, ScheduledStays
  <2>4. p \in Position' /\ timeline'[p] = timeline[p]
    BY DEF TimelineGrows
  <2>5. Scheduled(timeline[p].run)' <=> Scheduled(r)'
    BY <2>1, <2>4 DEF Scheduled
  <2>6. p \in Visible(a)' <=> timeline'[p].agent = a /\ ~Scheduled(timeline[p].run)'
    BY <2>4 DEF Visible
  <2>7. p \in Visible(a) <=> timeline[p].agent = a /\ ~Scheduled(r)
    BY <2>1 DEF Visible
  <2> QED
    BY <2>3, <2>4, <2>5, <2>6, <2>7
<1>5. ASSUME NEW z \in Visible(a)' \ Visible(a) PROVE Len(timeline) < z
  <2>1. z \in Position' /\ z \notin Position
    BY <1>3, <1>4
  <2>2. z \in Nat /\ z \notin 1..Len(timeline) /\ z # 0
    <3>1. 0 \notin Position'
      BY PositionsGrow
    <3> QED
      BY <1>1, <1>2, <2>1, <3>1
  <2> QED
    BY <1>1, <2>2
<1> QED
  BY <1>1, <1>2, <1>3, <1>4, <1>5 DEF Grown

\* The rows of one agent are finitely many.
LEMMA VisibleFinite ==
  ASSUME TypeOK, NEW S, NEW a, S \subseteq Visible(a)
  PROVE  /\ IsFiniteSet(S) /\ S \subseteq Nat /\ S \subseteq Position /\ S \subseteq 0..Len(timeline)
         /\ Len(timeline) \in Nat
<1>1. S \subseteq Position
  BY DEF Visible
<1>2. Position = 1..Len(timeline) /\ Len(timeline) \in Nat
  BY Rows
<1>3. IsFiniteSet(S)
  <2>1. IsFiniteSet(Position)
    BY <1>2, FS_Interval
  <2> QED
    BY <1>1, <2>1, FS_Subset
<1>4. \A n \in Nat : 1..n \subseteq Nat /\ 1..n \subseteq 0..n
  OBVIOUS
<1> QED
  BY <1>1, <1>2, <1>3, <1>4

\* What a query returns fits the rows of its agent.
LEMMA PageFits ==
  ASSUME TypeOK, NEW c, c.cursor \in Nat, NEW new, new.cursor = c.cursor, new.incremental = c.incremental,
         new.rows = Page(c).rows, new.more = Page(c).more
  PROVE  Paged(new, Visible(c.agent))
<1> DEFINE visible == Visible(c.agent)
           found == AgentTimeline(c)
           behind == {p \in visible : p > c.cursor}
           below == {p \in visible : c.cursor = 0 \/ p < c.cursor}
<1>1. /\ new.more = (Cardinality(found) > Limit)
      /\ new.rows = IF c.incremental THEN FirstRows(found, Limit) ELSE LastRows(found, Limit)
  BY DEF Page
<1>2. Limit \in Nat /\ Limit + 1 \in Nat
  BY TimelineAssumption
<1>3. visible \subseteq Nat /\ \A p \in visible : p \in Nat
  BY VisibleFinite
<1>4. CASE c.incremental
  <2>1. found = FirstRows(behind, Limit + 1) /\ new.rows = FirstRows(found, Limit)
    BY <1>1, <1>4 DEF AgentTimeline
  <2>2. IsFiniteSet(behind) /\ behind \subseteq Nat
    BY VisibleFinite
  <2>3. found \subseteq behind /\ new.rows \subseteq found
    BY <2>1 DEF FirstRows
  <2>4. IsFiniteSet(found) /\ found \subseteq Nat
    BY <2>2, <2>3, FS_Subset
  <2>5. \A p \in new.rows : p \in behind /\ p \in found /\ c.cursor < p
    BY <1>3, <2>3
  <2>6. ASSUME NEW p \in new.rows, NEW z \in visible, c.cursor < z, z <= p PROVE z \in new.rows
    <3>1. z \in behind
      BY <1>3, <2>6
    <3>2. p \in FirstRows(behind, Limit + 1)
      BY <2>1, <2>5
    <3> HIDE DEF behind, found
    <3>3. z \in found
      BY <1>2, <2>1, <2>2, <2>6, <3>1, <3>2, FirstRowsBegin
    <3>4. z \in FirstRows(found, Limit)
      BY <1>2, <2>1, <2>4, <2>6, <3>3, FirstRowsBegin
    <3> QED
      BY <2>1, <3>4
  <2>7. Behind(new, visible)
    BY <2>5, <2>6 DEF Behind
  <2>8. new.rows \subseteq visible
    BY <2>5
  <2> QED
    BY <1>4, <2>7, <2>8 DEF Paged
<1>5. CASE ~c.incremental
  <2>1. found = LastRows(below, Limit + 1) /\ new.rows = LastRows(found, Limit)
    BY <1>1, <1>5 DEF AgentTimeline
  <2>2. IsFiniteSet(below) /\ below \subseteq Nat /\ below \subseteq 0..Len(timeline) /\ Len(timeline) \in Nat
    BY VisibleFinite
  <2>3. found \subseteq below /\ new.rows \subseteq found
    BY <2>1 DEF LastRows
  <2>4. IsFiniteSet(found) /\ found \subseteq Nat /\ Cardinality(found) \in Nat
    BY <2>2, <2>3, FS_Subset, FS_CardinalityType
  <2>5. new.rows \subseteq visible /\ \A p \in new.rows : p \in below
    BY <2>3
  <2>6. ASSUME NEW p \in new.rows, NEW z \in below, p <= z PROVE z \in new.rows
    <3>1. p \in LastRows(below, Limit + 1)
      BY <2>1, <2>3
    <3> HIDE DEF below, found
    <3>2. z \in found
      BY <1>2, <2>1, <2>2, <2>6, <3>1, LastRowsEnd
    <3>3. z \in LastRows(found, Limit)
      BY <1>2, <2>1, <2>4, <2>6, <3>2, LastRowsEnd
    <3> QED
      BY <2>1, <3>3
  <2>7. ~new.more => new.rows = below
    <3>1. SUFFICES ASSUME ~new.more PROVE new.rows = below
      OBVIOUS
    <3>2. Cardinality(found) <= Limit
      <4>1. ~(Cardinality(found) > Limit)
        <5> HIDE DEF found
        <5> QED
          BY <1>1, <3>1, Zenon
      <4> QED
        BY <1>2, <2>4, <4>1
    <3> HIDE DEF below, found
    <3>3. found = below
      BY <1>2, <2>1, <2>2, <3>2, ProbeTells
    <3>4. LastRows(found, Limit) = found
      BY <1>2, <2>4, <3>2, FewRows
    <3> QED
      BY <2>1, <3>3, <3>4
  <2>8. CASE c.cursor = 0
    <3>1. below = visible
      BY <2>8
    <3> HIDE DEF below, visible
    <3>2. Latest(new, visible)
      BY <2>6, <2>7, <3>1 DEF Latest
    <3> QED
      BY <1>5, <2>5, <2>8, <3>2 DEF Paged, visible
  <2>9. CASE c.cursor # 0
    <3>1. \A z \in visible : z < c.cursor <=> z \in below
      BY <2>9
    <3>2. \A p \in below : p < c.cursor
      BY <2>9
    <3> HIDE DEF below, visible
    <3>3. Earlier(new, visible)
      BY <2>5, <2>6, <2>7, <3>1, <3>2 DEF Earlier
    <3> QED
      BY <1>5, <2>5, <2>9, <3>3 DEF Paged, visible
  <2> QED
    BY <2>8, <2>9
<1> QED
  BY <1>4, <1>5

-----------------------------------------------------------------------------
(* Answers that reach the panel.                                           *)

\* The last row of a page.
LEMMA LastRow ==
  ASSUME NEW n \in Nat, NEW visible, visible \subseteq 1..n, NEW c, c.rows \subseteq visible, c.cursor \in 0..n
  PROVE  /\ LastSequence(c) \in 0..n
         /\ c.rows = {} => LastSequence(c) = c.cursor
         /\ c.rows # {} => LastSequence(c) \in c.rows /\ \A x \in c.rows : x <= LastSequence(c)
<1>1. CASE c.rows = {}
  BY <1>1 DEF LastSequence
<1>2. CASE c.rows # {}
  <2>1. c.rows \subseteq 0..n
    <3>1. \A x \in 1..n : x \in 0..n
      OBVIOUS
    <3> QED
      BY <3>1
  <2>2. SetMax(c.rows) \in c.rows /\ \A x \in c.rows : x <= SetMax(c.rows)
    BY <1>2, <2>1, MaxIsGreatest
  <2>3. LastSequence(c) = SetMax(c.rows)
    BY <1>2 DEF LastSequence
  <2> QED
    BY <1>2, <2>1, <2>2, <2>3
<1> QED
  BY <1>1, <1>2

\* An answer with the rows behind the cursor continues what is shown.
LEMMA BehindShown ==
  ASSUME NEW n \in Nat, NEW visible, visible \subseteq 1..n,
         NEW b, b.cursor \in 0..n, Stretch(b, visible), b.loaded,
         NEW c, c.cursor = b.cursor, c.rows \subseteq visible, Behind(c, visible),
         NEW new, new.shown = b.shown \cup c.rows, new.cursor = LastSequence(c), new.loaded, new.earlier = b.earlier
  PROVE  Stretch(new, visible)
<1>1. /\ \A z \in visible : z \in Nat /\ 0 < z
      /\ b.shown \subseteq visible /\ b.cursor \in Nat
  BY DEF Stretch
<1>2. /\ c.rows = {} => new.cursor = b.cursor
      /\ c.rows # {} => new.cursor \in c.rows /\ \A x \in c.rows : x <= new.cursor
  <2>1. /\ c.rows = {} => LastSequence(c) = c.cursor
        /\ c.rows # {} => LastSequence(c) \in c.rows /\ \A x \in c.rows : x <= LastSequence(c)
    <3>1. c.cursor \in 0..n
      OBVIOUS
    <3> QED
      BY <3>1, LastRow
  <2> QED
    BY <2>1
<1>3. \A x \in b.shown : x <= b.cursor /\ b.cursor \in b.shown
  BY DEF Stretch
<1>4. \A x \in c.rows : b.cursor < x
  BY DEF Behind
<1>5. \A x \in b.shown : \A z \in visible : x <= z /\ z <= b.cursor => z \in b.shown
  BY <1>3 DEF Stretch
<1>6. \A y \in c.rows : \A z \in visible : b.cursor < z /\ z <= y => z \in c.rows
  BY DEF Behind
<1>7. ASSUME NEW x \in new.shown, NEW y \in new.shown, NEW z \in visible, x <= z, z <= y
      PROVE  z \in new.shown
  <2>1. x \in Nat /\ y \in Nat /\ z \in Nat /\ x \in visible /\ y \in visible
    BY <1>1
  <2>2. CASE z <= b.cursor
    <3>1. x \in b.shown
      BY <1>1, <1>4, <1>7, <2>1, <2>2
    <3> QED
      BY <1>5, <1>7, <2>2, <3>1
  <2>3. CASE b.cursor < z
    <3>1. y \in c.rows
      BY <1>1, <1>3, <1>7, <2>1, <2>3
    <3> QED
      BY <1>6, <1>7, <2>3, <3>1
  <2> QED
    BY <1>1, <2>1, <2>2, <2>3
<1>8. new.shown = {} => new.cursor = 0
  BY <1>2 DEF Stretch
<1>9. ASSUME new.shown # {} PROVE new.cursor \in new.shown /\ \A x \in new.shown : x <= new.cursor
  <2>1. CASE c.rows = {}
    BY <1>2, <1>3, <1>9, <2>1
  <2>2. CASE c.rows # {}
    <3>1. new.cursor \in c.rows /\ \A x \in c.rows : x <= new.cursor
      BY <1>2, <2>2
    <3>2. b.cursor < new.cursor /\ new.cursor \in Nat
      BY <1>1, <1>4, <3>1
    <3>3. ASSUME NEW x \in b.shown PROVE x <= new.cursor
      <4>1. x \in Nat /\ b.cursor \in Nat /\ x <= b.cursor
        BY <1>1, <1>3
      <4> QED
        BY <3>2, <4>1
    <3> QED
      BY <3>1, <3>3
  <2> QED
    BY <2>1, <2>2
<1>10. ASSUME ~new.earlier, NEW p \in visible, p <= new.cursor PROVE p \in new.shown
  <2>1. CASE p <= b.cursor
    BY <1>10, <2>1 DEF Stretch
  <2>2. CASE ~(p <= b.cursor)
    <3>1. c.rows # {}
      BY <1>2, <1>10, <2>2
    <3>2. new.cursor \in c.rows /\ b.cursor < p
      BY <1>1, <1>2, <2>2, <3>1
    <3> QED
      BY <1>6, <1>10, <3>2
  <2> QED
    BY <2>1, <2>2
<1>11. new.shown \subseteq visible
  BY <1>1
<1> QED
  BY <1>7, <1>8, <1>9, <1>10, <1>11 DEF Stretch

\* The first answer shows the latest rows.
LEMMA LatestShown ==
  ASSUME NEW n \in Nat, NEW visible, visible \subseteq 1..n,
         NEW b, Stretch(b, visible), ~b.loaded,
         NEW c, c.cursor = b.cursor, c.rows \subseteq visible, Latest(c, visible),
         NEW new, new.shown = b.shown \cup c.rows, new.cursor = LastSequence(c), new.loaded, new.earlier = c.more
  PROVE  Stretch(new, visible)
<1>1. b.shown = {} /\ c.cursor = 0 /\ new.shown = c.rows
  BY DEF Stretch
<1>2. /\ c.rows = {} => new.cursor = 0
      /\ c.rows # {} => new.cursor \in c.rows /\ \A x \in c.rows : x <= new.cursor
  <2>1. c.cursor \in 0..n
    BY <1>1
  <2>2. /\ c.rows = {} => LastSequence(c) = c.cursor
        /\ c.rows # {} => LastSequence(c) \in c.rows /\ \A x \in c.rows : x <= LastSequence(c)
    BY <2>1, LastRow
  <2> QED
    BY <1>1, <2>2
<1>3. ASSUME ~new.earlier, NEW p \in visible, p <= new.cursor PROVE p \in new.shown
  <2>1. c.rows # {}
    <3>1. p \in Nat /\ 0 < p
      OBVIOUS
    <3> QED
      BY <1>2, <1>3, <3>1
  <2>2. new.cursor \in c.rows /\ ~c.more
    BY <1>2, <1>3, <2>1
  <2> QED
    BY <1>1, <1>3, <2>2 DEF Latest
<1>4. \A x, y \in c.rows : \A z \in visible : x <= z /\ z <= y => z \in c.rows
  BY DEF Latest
<1> QED
  BY <1>1, <1>2, <1>3, <1>4 DEF Stretch

\* Earlier rows continue what is shown upwards.
LEMMA EarlierShown ==
  ASSUME NEW n \in Nat, NEW visible, visible \subseteq 1..n,
         NEW b, Stretch(b, visible),
         NEW c, c.cursor \in b.shown, \A x \in b.shown : c.cursor <= x, c.rows \subseteq visible, Earlier(c, visible),
         NEW new, new.shown = b.shown \cup c.rows, new.cursor = b.cursor, new.loaded = b.loaded, new.earlier = c.more
  PROVE  Stretch(new, visible)
<1>1. /\ \A z \in visible : z \in Nat /\ 0 < z
      /\ b.shown \subseteq visible /\ b.cursor \in b.shown /\ b.loaded
      /\ \A x \in b.shown : x <= b.cursor
  BY DEF Stretch
<1>2. c.cursor \in Nat /\ b.cursor \in Nat /\ c.cursor <= b.cursor
  BY <1>1
<1>3. \A x \in c.rows : x < c.cursor
  BY DEF Earlier
<1>4. \A y \in b.shown : \A z \in visible : c.cursor <= z /\ z <= y => z \in b.shown
  BY DEF Stretch
<1>5. \A x \in c.rows : \A z \in visible : x <= z /\ z < c.cursor => z \in c.rows
  BY DEF Earlier
<1>6. ASSUME NEW x \in new.shown, NEW y \in new.shown, NEW z \in visible, x <= z, z <= y
      PROVE  z \in new.shown
  <2>1. x \in Nat /\ y \in Nat /\ z \in Nat /\ x \in visible /\ y \in visible
    BY <1>1
  <2>2. CASE z < c.cursor
    <3>1. x \in c.rows
      BY <1>2, <1>6, <2>1, <2>2
    <3> QED
      BY <1>5, <1>6, <2>2, <3>1
  <2>3. CASE c.cursor <= z
    <3>1. y \in b.shown
      BY <1>2, <1>3, <1>6, <2>1, <2>3
    <3> QED
      BY <1>4, <1>6, <2>3, <3>1
  <2> QED
    BY <1>2, <2>1, <2>2, <2>3
<1>7. \A x \in new.shown : x <= new.cursor
  <2>1. ASSUME NEW x \in c.rows PROVE x <= b.cursor
    <3>1. x \in Nat /\ x < c.cursor
      BY <1>1, <1>3
    <3> QED
      BY <1>2, <3>1
  <2> QED
    BY <1>1, <2>1
<1>8. ASSUME ~new.earlier, NEW p \in visible, p <= new.cursor PROVE p \in new.shown
  <2>1. CASE p < c.cursor
    BY <1>8, <2>1 DEF Earlier
  <2>2. CASE ~(p < c.cursor)
    <3>1. c.cursor <= p
      BY <1>1, <1>2, <2>2
    <3> QED
      BY <1>1, <1>4, <1>8, <3>1
  <2> QED
    BY <2>1, <2>2
<1>9. new.shown \subseteq visible /\ new.cursor \in new.shown /\ new.loaded
  BY <1>1
<1> QED
  BY <1>6, <1>7, <1>8, <1>9 DEF Stretch

-----------------------------------------------------------------------------
(* Calls and answers in a world that others write.                         *)

\* A call that advances.
LEMMA AdvanceKept ==
  ASSUME NEW n, NEW visible, NEW runs, NEW context, World(n, visible, runs, context),
         NEW cs, NEW b, Kept(cs, b, n, visible, runs, context),
         NEW c \in cs, NEW new \in Call,
         new.kind = c.kind, new.selection = c.selection, new.agent = c.agent, new.cursor = c.cursor,
         new.incremental = c.incremental, new.revision = c.revision,
         new.rows \subseteq 1..n, new.active \in runs \cup {0}, new.context <= context[c.agent],
         new.pc \in {"inspect", "reply"} => Paged(new, visible[c.agent]), Timely(new, b)
  PROVE  Kept((cs \ {c}) \cup {new}, b, n, visible, runs, context)
<1>1. CallKept(c, b, n, visible[c.agent], runs, context[c.agent])
  BY DEF Kept
<1>2. CallFits(new, b, visible[c.agent])
  BY <1>1 DEF CallKept, CallFits, Continues
<1>3. new.cursor \in 0..n
  BY <1>1 DEF CallKept
<1>4. CallKept(new, b, n, visible[new.agent], runs, context[new.agent])
  BY <1>2, <1>3 DEF CallKept
<1>5. \A d \in (cs \ {c}) \cup {new} : CallKept(d, b, n, visible[d.agent], runs, context[d.agent])
  BY <1>4 DEF Kept
<1>6. Alone((cs \ {c}) \cup {new}, b)
  <2>1. SUFFICES ASSUME NEW x \in (cs \ {c}) \cup {new}, NEW y \in (cs \ {c}) \cup {new},
                        x.selection = b.selection, y.selection = b.selection, x.kind = y.kind
                 PROVE  x = y
    BY DEF Alone
  <2>2. \A u, v \in cs : u.selection = b.selection /\ v.selection = b.selection /\ u.kind = v.kind => u = v
    BY DEF Kept, Alone
  <2>3. CASE x = new /\ y \in cs \ {c}
    BY <2>1, <2>2, <2>3
  <2>4. CASE y = new /\ x \in cs \ {c}
    BY <2>1, <2>2, <2>4
  <2>5. CASE x \in cs /\ y \in cs
    BY <2>1, <2>2, <2>5
  <2> QED
    BY <2>3, <2>4, <2>5
<1> QED
  BY <1>5, <1>6 DEF Kept

\* Calls that are gone, and a panel that no longer waits for them.
LEMMA DroppedKept ==
  ASSUME NEW n, NEW visible, NEW runs, NEW context, World(n, visible, runs, context),
         NEW cs, NEW b, Kept(cs, b, n, visible, runs, context),
         NEW rest, rest \subseteq cs, NEW loading \in BOOLEAN, NEW resetting \in Nat, resetting <= context[b.agent],
         \A c \in rest : c.kind = "earlier" /\ c.selection = b.selection => loading,
         NEW new, new = [b EXCEPT !.loading = loading, !.resetting = resetting]
  PROVE  Kept(rest, new, n, visible, runs, context)
<1>1. PanelKept(b, n, visible[b.agent], context[b.agent]) /\ b \in Browser
  BY DEF Kept, PanelKept
<1>2. /\ new \in Browser /\ new.agent = b.agent /\ new.selection = b.selection /\ new.revision = b.revision
      /\ new.loaded = b.loaded /\ new.cursor = b.cursor /\ new.shown = b.shown /\ new.context = b.context
      /\ new.earlier = b.earlier /\ new.loading = loading /\ new.resetting = resetting
  <2> DEFINE one == [b EXCEPT !.loading = loading]
  <2>1. /\ one \in Browser /\ one.agent = b.agent /\ one.selection = b.selection /\ one.revision = b.revision
        /\ one.loaded = b.loaded /\ one.cursor = b.cursor /\ one.shown = b.shown /\ one.context = b.context
        /\ one.earlier = b.earlier /\ one.loading = loading
    BY <1>1 DEF Browser
  <2>2. new = [one EXCEPT !.resetting = resetting]
    BY <1>1 DEF Browser
  <2> HIDE DEF one
  <2>3. /\ new \in Browser /\ new.agent = one.agent /\ new.selection = one.selection /\ new.revision = one.revision
        /\ new.loaded = one.loaded /\ new.cursor = one.cursor /\ new.shown = one.shown /\ new.context = one.context
        /\ new.earlier = one.earlier /\ new.loading = one.loading /\ new.resetting = resetting
    BY <2>1, <2>2 DEF Browser
  <2> QED
    BY <2>1, <2>3
<1>3. Stretch(new, visible[b.agent])
  <2>1. Stretch(b, visible[b.agent])
    BY <1>1 DEF PanelKept
  <2> QED
    BY <1>2, <2>1 DEF Stretch
<1>4. PanelKept(new, n, visible[new.agent], context[new.agent])
  BY <1>1, <1>2, <1>3 DEF PanelKept
<1>5. ASSUME NEW c \in rest PROVE CallKept(c, new, n, visible[c.agent], runs, context[c.agent])
  <2>1. CallKept(c, b, n, visible[c.agent], runs, context[c.agent])
    BY DEF Kept
  <2>2. c.selection = b.selection => Continues(c, new)
    <3>1. SUFFICES ASSUME c.selection = b.selection PROVE Continues(c, new)
      OBVIOUS
    <3>2. Continues(c, b)
      BY <2>1, <3>1 DEF CallKept, CallFits
    <3>3. c.kind = "earlier" => new.loading
      BY <1>2, <3>1
    <3> QED
      BY <1>2, <3>2, <3>3 DEF Continues
  <2>3. CallFits(c, new, visible[c.agent])
    BY <1>2, <2>1, <2>2 DEF CallKept, CallFits
  <2>4. Timely(c, new)
    BY <1>2, <2>1 DEF CallKept, Timely
  <2> QED
    BY <2>1, <2>3, <2>4 DEF CallKept
<1>6. Alone(rest, new)
  BY <1>2 DEF Kept, Alone
<1> QED
  BY <1>4, <1>5, <1>6 DEF Kept

-----------------------------------------------------------------------------
(* The panel moves on: what it does to itself and to the calls.            *)

\* A panel that moved on keeps the calls that still fit it.
LEMMA PanelTurns ==
  ASSUME NEW n, NEW visible, NEW runs, NEW context,
         NEW cs, NEW b, b \in Browser, Kept(cs, b, n, visible, runs, context),
         NEW rest, rest \subseteq cs,
         NEW new, PanelKept(new, n, visible[new.agent], context[new.agent]),
         b.selection <= new.selection, b.revision <= new.revision,
         \A c \in rest : c.selection = new.selection => c.selection = b.selection /\ Continues(c, new) /\ Timely(c, new)
  PROVE  Kept(rest, new, n, visible, runs, context)
<1>1. ASSUME NEW c \in rest PROVE CallKept(c, new, n, visible[c.agent], runs, context[c.agent])
  <2>1. CallKept(c, b, n, visible[c.agent], runs, context[c.agent])
    BY DEF Kept
  <2>2. c \in Call /\ new \in Browser
    BY <2>1 DEF CallKept, PanelKept
  <2>3. c.selection <= new.selection /\ c.revision <= new.revision
    <3>1. c.selection <= b.selection /\ c.revision <= b.revision
      BY <2>1 DEF CallKept, CallFits
    <3>2. /\ c.selection \in Nat /\ b.selection \in Nat /\ new.selection \in Nat
          /\ c.revision \in Nat /\ b.revision \in Nat /\ new.revision \in Nat
      BY <2>2 DEF Call, Browser
    <3> QED
      BY <3>1, <3>2
  <2>4. CallFits(c, new, visible[c.agent])
    BY <2>1, <2>3 DEF CallKept, CallFits
  <2>5. Timely(c, new)
    BY DEF Timely
  <2> QED
    BY <2>1, <2>4, <2>5 DEF CallKept
<1>2. Alone(rest, new)
  <2>1. Alone(cs, b)
    BY DEF Kept
  <2> QED
    BY <2>1 DEF Alone
<1> QED
  BY <1>1, <1>2 DEF Kept

\* Another call of a kind the panel does not wait for.
LEMMA CallAdded ==
  ASSUME NEW n, NEW visible, NEW runs, NEW context,
         NEW cs, NEW b, Kept(cs, b, n, visible, runs, context),
         NEW c, CallKept(c, b, n, visible[c.agent], runs, context[c.agent]),
         \A d \in cs : d.selection = b.selection => d.kind # c.kind
  PROVE  Kept(cs \cup {c}, b, n, visible, runs, context)
<1>1. Alone(cs \cup {c}, b)
  BY DEF Kept, Alone
<1> QED
  BY <1>1 DEF Kept

\* A call that is about to go out fits a panel it continues.
LEMMA AskedFits ==
  ASSUME NEW n, NEW visible, NEW runs, NEW context, World(n, visible, runs, context),
         NEW b, PanelKept(b, n, visible[b.agent], context[b.agent]),
         NEW kind \in {"refresh", "earlier"}, NEW incremental \in BOOLEAN, NEW cursor \in 0..n,
         NEW c, c = [kind |-> kind, selection |-> b.selection, agent |-> b.agent, cursor |-> cursor,
                     incremental |-> incremental, revision |-> b.revision, context |-> 0, rows |-> {},
                     more |-> FALSE, active |-> 0, pc |-> "ensure"],
         Continues(c, b)
  PROVE  CallKept(c, b, n, visible[c.agent], runs, context[c.agent])
<1>1. /\ b \in Browser /\ b.selection \in Nat /\ b.revision \in Nat /\ b.agent \in Agent /\ n \in Nat
      /\ context[b.agent] \in Nat
  BY DEF PanelKept, Browser, World
<1>2. c \in Call
  BY <1>1 DEF Call, CallPC
<1>3. CallFits(c, b, visible[c.agent])
  BY <1>1 DEF CallFits
<1>4. c.context <= context[c.agent] /\ Timely(c, b)
  BY <1>1 DEF Timely
<1> QED
  BY <1>2, <1>3, <1>4 DEF CallKept

\* Polling.
LEMMA RefreshKept ==
  ASSUME NEW n, NEW visible, NEW runs, NEW context, World(n, visible, runs, context),
         NEW cs, NEW b, Kept(cs, b, n, visible, runs, context),
         ~\E c \in cs : c.kind = "refresh" /\ c.selection = b.selection,
         NEW c, c = [kind |-> "refresh", selection |-> b.selection, agent |-> b.agent, cursor |-> b.cursor,
                     incremental |-> b.loaded, revision |-> b.revision, context |-> 0, rows |-> {},
                     more |-> FALSE, active |-> 0, pc |-> "ensure"]
  PROVE  Kept(cs \cup {c}, b, n, visible, runs, context)
<1>1. PanelKept(b, n, visible[b.agent], context[b.agent])
  BY DEF Kept
<1>2. b.loaded \in BOOLEAN /\ b.cursor \in 0..n
  BY <1>1 DEF PanelKept, Browser
<1>3. Continues(c, b)
  BY DEF Continues
<1>4. CallKept(c, b, n, visible[c.agent], runs, context[c.agent])
  BY <1>1, <1>2, <1>3, AskedFits
<1> QED
  BY <1>4, CallAdded

\* An earlier page is asked for.
LEMMA EarlierAsked ==
  ASSUME NEW n, NEW visible, NEW runs, NEW context, World(n, visible, runs, context),
         NEW cs, NEW b, Kept(cs, b, n, visible, runs, context), ~b.loading, b.shown # {},
         NEW new, new = [b EXCEPT !.loading = TRUE],
         NEW c, c = [kind |-> "earlier", selection |-> b.selection, agent |-> b.agent, cursor |-> FirstOf(b.shown),
                     incremental |-> FALSE, revision |-> b.revision, context |-> 0, rows |-> {},
                     more |-> FALSE, active |-> 0, pc |-> "ensure"]
  PROVE  Kept(cs \cup {c}, new, n, visible, runs, context)
<1>1. PanelKept(b, n, visible[b.agent], context[b.agent]) /\ b \in Browser /\ n \in Nat
  BY DEF Kept, PanelKept, World
<1>2. /\ new \in Browser /\ new.agent = b.agent /\ new.selection = b.selection /\ new.revision = b.revision
      /\ new.loaded = b.loaded /\ new.cursor = b.cursor /\ new.shown = b.shown /\ new.context = b.context
      /\ new.earlier = b.earlier /\ new.loading = TRUE /\ new.resetting = b.resetting
  BY <1>1 DEF Browser
<1>3. PanelKept(new, n, visible[new.agent], context[new.agent])
  <2>1. Stretch(b, visible[b.agent])
    BY <1>1 DEF PanelKept
  <2>2. Stretch(new, visible[b.agent])
    BY <1>2, <2>1 DEF Stretch
  <2> QED
    BY <1>1, <1>2, <2>2 DEF PanelKept
<1>4. ASSUME NEW d \in cs, d.selection = b.selection
      PROVE  d.kind = "refresh" /\ Continues(d, b) /\ Timely(d, b)
  <2>1. CallKept(d, b, n, visible[d.agent], runs, context[d.agent])
    BY DEF Kept
  <2>2. Continues(d, b) /\ Timely(d, b) /\ d \in Call
    BY <1>4, <2>1 DEF CallKept, CallFits
  <2>3. d.kind # "earlier"
    BY <2>2 DEF Continues
  <2> QED
    BY <2>2, <2>3 DEF Call
<1>5. \A d \in cs : d.selection = new.selection => d.selection = b.selection /\ Continues(d, new) /\ Timely(d, new)
  BY <1>2, <1>4 DEF Continues, Timely
<1>6. Kept(cs, new, n, visible, runs, context)
  <2>1. b.selection <= new.selection /\ b.revision <= new.revision
    BY <1>1, <1>2 DEF Browser
  <2> QED
    BY <1>1, <1>3, <1>5, <2>1, PanelTurns
<1>7. FirstOf(b.shown) \in b.shown /\ \A x \in b.shown : FirstOf(b.shown) <= x
  <2>1. b.shown \subseteq Nat
    BY <1>1 DEF PanelKept
  <2> QED
    BY <2>1, FirstIsLeast
<1>8. FirstOf(b.shown) \in 0..n
  BY <1>1, <1>7 DEF PanelKept
<1>9. Continues(c, new)
  BY <1>2, <1>7 DEF Continues
<1>10. CallKept(c, new, n, visible[c.agent], runs, context[c.agent])
  BY <1>2, <1>3, <1>8, <1>9, AskedFits
<1> QED
  BY <1>2, <1>4, <1>6, <1>10, CallAdded

\* Another agent is selected.
LEMMA SelectKept ==
  ASSUME NEW n, NEW visible, NEW runs, NEW context, World(n, visible, runs, context),
         NEW cs, NEW b, Kept(cs, b, n, visible, runs, context),
         NEW a \in Agent, NEW new, new = Opened(a, b.selection + 1, b.revision)
  PROVE  Kept(cs, new, n, visible, runs, context)
<1>1. b \in Browser /\ b.selection \in Nat /\ b.revision \in Nat /\ n \in Nat /\ context[a] \in Nat
  BY DEF Kept, PanelKept, Browser, World
<1>2. /\ new \in Browser /\ new.agent = a /\ new.selection = b.selection + 1 /\ new.revision = b.revision
      /\ new.loaded = FALSE /\ new.cursor = 0 /\ new.shown = {} /\ new.context = 0
      /\ new.earlier = FALSE /\ new.loading = FALSE /\ new.resetting = 0
  BY <1>1 DEF Opened, Browser
<1>3. Stretch(new, visible[a])
  BY <1>2 DEF Stretch
<1>4. PanelKept(new, n, visible[new.agent], context[new.agent])
  BY <1>1, <1>2, <1>3 DEF PanelKept
<1>5. \A c \in cs : c.selection # new.selection
  <2>1. \A c \in cs : c.selection <= b.selection /\ c.selection \in Nat
    BY DEF Kept, CallKept, CallFits, Call
  <2> QED
    BY <1>1, <1>2, <2>1
<1> QED
  BY <1>1, <1>2, <1>4, <1>5, PanelTurns

\* New chat is answered: a new revision of the view, with the new context.
LEMMA ResetAnswered ==
  ASSUME NEW n, NEW visible, NEW runs, NEW context, World(n, visible, runs, context),
         NEW cs, NEW b, Kept(cs, b, n, visible, runs, context),
         NEW new, new = [b EXCEPT !.resetting = 0, !.context = b.resetting, !.revision = @ + 1]
  PROVE  Kept(cs, new, n, visible, runs, context)
<1>1. PanelKept(b, n, visible[b.agent], context[b.agent]) /\ b \in Browser
  BY DEF Kept, PanelKept
<1>2. b.resetting \in Nat /\ b.context \in Nat /\ b.revision \in Nat /\ context[b.agent] \in Nat /\ b.selection \in Nat
  BY <1>1 DEF Browser, World
<1>3. /\ new \in Browser /\ new.agent = b.agent /\ new.selection = b.selection /\ new.revision = b.revision + 1
      /\ new.loaded = b.loaded /\ new.cursor = b.cursor /\ new.shown = b.shown /\ new.context = b.resetting
      /\ new.earlier = b.earlier /\ new.loading = b.loading /\ new.resetting = 0
  <2> DEFINE one == [b EXCEPT !.resetting = 0]
             two == [one EXCEPT !.context = b.resetting]
             three == [two EXCEPT !.revision = b.revision + 1]
  <2>1. /\ one \in Browser /\ one.agent = b.agent /\ one.selection = b.selection /\ one.revision = b.revision
        /\ one.loaded = b.loaded /\ one.cursor = b.cursor /\ one.shown = b.shown
        /\ one.earlier = b.earlier /\ one.loading = b.loading /\ one.resetting = 0
    BY <1>1 DEF Browser
  <2>2. new = three
    BY <1>1 DEF Browser
  <2> HIDE DEF one
  <2>3. /\ two \in Browser /\ two.agent = one.agent /\ two.selection = one.selection /\ two.revision = one.revision
        /\ two.loaded = one.loaded /\ two.cursor = one.cursor /\ two.shown = one.shown /\ two.context = b.resetting
        /\ two.earlier = one.earlier /\ two.loading = one.loading /\ two.resetting = one.resetting
    BY <1>2, <2>1 DEF Browser
  <2> HIDE DEF two
  <2>4. /\ three \in Browser /\ three.agent = two.agent /\ three.selection = two.selection /\ three.revision = b.revision + 1
        /\ three.loaded = two.loaded /\ three.cursor = two.cursor /\ three.shown = two.shown /\ three.context = two.context
        /\ three.earlier = two.earlier /\ three.loading = two.loading /\ three.resetting = two.resetting
    BY <1>2, <2>3 DEF Browser
  <2> HIDE DEF three
  <2> QED
    BY <2>1, <2>2, <2>3, <2>4
<1>4. PanelKept(new, n, visible[new.agent], context[new.agent])
  <2>1. Stretch(b, visible[b.agent])
    BY <1>1 DEF PanelKept
  <2>2. Stretch(new, visible[b.agent])
    BY <1>3, <2>1 DEF Stretch
  <2> QED
    BY <1>1, <1>2, <1>3, <2>2 DEF PanelKept
<1>5. ASSUME NEW d \in cs, d.selection = new.selection
      PROVE  d.selection = b.selection /\ Continues(d, new) /\ Timely(d, new)
  <2>1. CallKept(d, b, n, visible[d.agent], runs, context[d.agent])
    BY DEF Kept
  <2>2. Continues(d, b) /\ d \in Call /\ d.revision <= b.revision
    BY <1>3, <1>5, <2>1 DEF CallKept, CallFits
  <2>3. d.revision # new.revision
    BY <1>2, <1>3, <2>2 DEF Call
  <2>4. Continues(d, new)
    BY <1>3, <2>2 DEF Continues
  <2> QED
    BY <1>3, <1>5, <2>3, <2>4 DEF Timely
<1>6. b.selection <= new.selection /\ b.revision <= new.revision
  BY <1>2, <1>3
<1> QED
  BY <1>1, <1>4, <1>5, <1>6, PanelTurns

\* The panel with the answer to a poll.
Answered(b, c) ==
  [b EXCEPT !.shown = @ \cup c.rows, !.cursor = LastSequence(c),
            !.loaded = TRUE, !.earlier = IF c.incremental THEN @ ELSE c.more,
            !.known = c.context, !.active = c.active,
            !.context = IF c.context # b.known \/ c.active # b.active THEN c.context ELSE @]

\* What it sets.
AnswerSets(new, b, c) ==
  /\ new \in Browser /\ new.agent = b.agent /\ new.selection = b.selection /\ new.revision = b.revision
  /\ new.loaded = TRUE /\ new.cursor = LastSequence(c) /\ new.shown = b.shown \cup c.rows
  /\ new.context = (IF c.context # b.known \/ c.active # b.active THEN c.context ELSE b.context)
  /\ new.earlier = (IF c.incremental THEN b.earlier ELSE c.more) /\ new.loading = b.loading /\ new.resetting = b.resetting

\* The fields an answer sets.
LEMMA AnswerShown ==
  ASSUME NEW b \in Browser, NEW c \in Call, LastSequence(c) \in Nat,
         NEW new, new = Answered(b, c)
  PROVE  AnswerSets(new, b, c)
<1>f. /\ b.shown \cup c.rows \in SUBSET Nat /\ c.context \in Nat /\ c.active \in Nat
      /\ b.context \in Nat /\ b.earlier \in BOOLEAN /\ c.more \in BOOLEAN
  BY DEF Browser, Call
<1>b. PICK shown \in SUBSET Nat : shown = b.shown \cup c.rows
  BY <1>f
<1>c. PICK cursor \in Nat : cursor = LastSequence(c)
  OBVIOUS
<1>d. PICK known \in Nat : known = c.context
  BY <1>f
<1>e. PICK active \in Nat : active = c.active
  BY <1>f
<1>g. PICK ctx \in Nat : ctx = IF c.context # b.known \/ c.active # b.active THEN c.context ELSE b.context
  BY <1>f
<1>h. PICK earlier \in BOOLEAN : earlier = IF c.incremental THEN b.earlier ELSE c.more
  BY <1>f
<1> DEFINE one == [b EXCEPT !.shown = shown]
           two == [one EXCEPT !.cursor = cursor]
           three == [two EXCEPT !.loaded = TRUE]
           four == [three EXCEPT !.earlier = earlier]
           five == [four EXCEPT !.known = known]
           six == [five EXCEPT !.active = active]
           seven == [six EXCEPT !.context = ctx]
<1>0. new = seven
  <2>1. new = [b EXCEPT !.shown = shown, !.cursor = cursor, !.loaded = TRUE, !.earlier = earlier,
                        !.known = known, !.active = active, !.context = ctx]
    BY <1>b, <1>c, <1>d, <1>e, <1>g, <1>h DEF Answered
  <2> QED
    BY <2>1 DEF Browser
<1>1. /\ one \in Browser /\ one.agent = b.agent /\ one.selection = b.selection /\ one.revision = b.revision
      /\ one.shown = shown /\ one.loading = b.loading /\ one.resetting = b.resetting
  BY DEF Browser
<1> HIDE DEF one
<1>2. /\ two \in Browser /\ two.agent = one.agent /\ two.selection = one.selection /\ two.revision = one.revision
      /\ two.shown = one.shown /\ two.cursor = cursor /\ two.loading = one.loading /\ two.resetting = one.resetting
  BY <1>1 DEF Browser
<1> HIDE DEF two
<1>3. /\ three \in Browser /\ three.agent = two.agent /\ three.selection = two.selection /\ three.revision = two.revision
      /\ three.shown = two.shown /\ three.cursor = two.cursor /\ three.loaded = TRUE
      /\ three.loading = two.loading /\ three.resetting = two.resetting
  BY <1>2 DEF Browser
<1> HIDE DEF three
<1>4. /\ four \in Browser /\ four.agent = three.agent /\ four.selection = three.selection /\ four.revision = three.revision
      /\ four.shown = three.shown /\ four.cursor = three.cursor /\ four.loaded = three.loaded
      /\ four.earlier = earlier /\ four.loading = three.loading /\ four.resetting = three.resetting
  BY <1>3 DEF Browser
<1> HIDE DEF four
<1>5. /\ five \in Browser /\ five.agent = four.agent /\ five.selection = four.selection /\ five.revision = four.revision
      /\ five.shown = four.shown /\ five.cursor = four.cursor /\ five.loaded = four.loaded
      /\ five.earlier = four.earlier /\ five.loading = four.loading /\ five.resetting = four.resetting
  BY <1>4 DEF Browser
<1> HIDE DEF five
<1>6. /\ six \in Browser /\ six.agent = five.agent /\ six.selection = five.selection /\ six.revision = five.revision
      /\ six.shown = five.shown /\ six.cursor = five.cursor /\ six.loaded = five.loaded
      /\ six.earlier = five.earlier /\ six.loading = five.loading /\ six.resetting = five.resetting
  BY <1>5 DEF Browser
<1> HIDE DEF six
<1>7. /\ seven \in Browser /\ seven.agent = six.agent /\ seven.selection = six.selection /\ seven.revision = six.revision
      /\ seven.shown = six.shown /\ seven.cursor = six.cursor /\ seven.loaded = six.loaded /\ seven.context = ctx
      /\ seven.earlier = six.earlier /\ seven.loading = six.loading /\ seven.resetting = six.resetting
  BY <1>6 DEF Browser
<1> HIDE DEF seven
<1>8. /\ seven \in Browser /\ seven.agent = b.agent /\ seven.selection = b.selection /\ seven.revision = b.revision
      /\ seven.loaded = TRUE /\ seven.cursor = cursor /\ seven.shown = shown /\ seven.context = ctx
      /\ seven.earlier = earlier /\ seven.loading = b.loading /\ seven.resetting = b.resetting
  BY <1>1, <1>2, <1>3, <1>4, <1>5, <1>6, <1>7
<1> QED
  BY <1>b, <1>c, <1>g, <1>h, <1>0, <1>8 DEF AnswerSets

\* The rows of a poll's answer continue those that are shown.
LEMMA AnswerFits ==
  ASSUME NEW n, NEW visible, NEW runs, NEW context, World(n, visible, runs, context),
         NEW cs, NEW b, Kept(cs, b, n, visible, runs, context),
         NEW c \in cs, c.kind = "refresh", c.pc = "reply", c.selection = b.selection, c.revision = b.revision,
         NEW new, AnswerSets(new, b, c)
  PROVE  Kept(cs \ {c}, new, n, visible, runs, context) /\ b.context <= new.context
<1>0. /\ new \in Browser /\ new.agent = b.agent /\ new.selection = b.selection /\ new.revision = b.revision
      /\ new.loaded = TRUE /\ new.cursor = LastSequence(c) /\ new.shown = b.shown \cup c.rows
      /\ new.context = (IF c.context # b.known \/ c.active # b.active THEN c.context ELSE b.context)
      /\ new.earlier = (IF c.incremental THEN b.earlier ELSE c.more) /\ new.loading = b.loading /\ new.resetting = b.resetting
  BY DEF AnswerSets
<1>1. /\ PanelKept(b, n, visible[b.agent], context[b.agent]) /\ b \in Browser
      /\ CallKept(c, b, n, visible[c.agent], runs, context[c.agent]) /\ c \in Call /\ n \in Nat
  BY <1>0 DEF Kept, PanelKept, CallKept, World
<1>2. Continues(c, b) /\ Paged(c, visible[c.agent]) /\ c.agent = b.agent
  BY <1>0, <1>1 DEF CallKept, CallFits, Continues
<1>3. /\ c.rows \subseteq visible[b.agent] /\ visible[b.agent] \subseteq 1..n /\ c.cursor = b.cursor
      /\ b.cursor \in 0..n /\ c.cursor \in 0..n
      /\ c.incremental = b.loaded /\ c.incremental \in BOOLEAN /\ c.more \in BOOLEAN
      /\ Stretch(b, visible[b.agent])
  BY <1>0, <1>1, <1>2 DEF Paged, Continues, World, Browser, Call, PanelKept
<1>4. LastSequence(c) \in 0..n
  BY <1>0, <1>1, <1>3, LastRow
<1>5. /\ c.context \in Nat /\ b.context \in Nat /\ context[b.agent] \in Nat /\ c.active \in Nat
      /\ b.earlier \in BOOLEAN /\ b.shown \cup c.rows \in SUBSET Nat /\ LastSequence(c) \in Nat
      /\ b.context <= c.context /\ c.context <= context[b.agent] /\ b.context <= context[b.agent]
  BY <1>0, <1>1, <1>2, <1>4 DEF World, Browser, Call, CallKept, Timely, PanelKept
<1>6. new.context \in Nat /\ b.context <= new.context /\ new.context <= context[b.agent]
  BY <1>0, <1>3, <1>5
<1>9. Stretch(new, visible[b.agent])
  <2>1. CASE b.loaded
    <3>1. Behind(c, visible[b.agent]) /\ new.earlier = b.earlier
      BY <1>0, <1>2, <1>3, <2>1 DEF Paged
    <3> QED
      BY <1>0, <1>1, <1>3, <2>1, <3>1, BehindShown
  <2>2. CASE ~b.loaded
    <3>1. c.cursor = 0
      BY <1>0, <1>3, <2>2 DEF Stretch
    <3>2. Latest(c, visible[b.agent]) /\ new.earlier = c.more
      BY <1>0, <1>2, <1>3, <2>2, <3>1 DEF Paged
    <3> QED
      BY <1>0, <1>1, <1>3, <2>2, <3>2, LatestShown
  <2> QED
    BY <1>0, <2>1, <2>2
<1>10. PanelKept(new, n, visible[new.agent], context[new.agent])
  <2>1. b.resetting <= context[b.agent] /\ new.shown \subseteq 1..n
    BY <1>0, <1>1, <1>3 DEF PanelKept
  <2> QED
    BY <1>0, <1>4, <1>6, <1>9, <2>1 DEF PanelKept
<1>11. ASSUME NEW d \in cs \ {c}, d.selection = new.selection
       PROVE  d.selection = b.selection /\ Continues(d, new) /\ Timely(d, new)
  <2>1. d.kind = "earlier" /\ Continues(d, b)
    <3>1. d.kind # "refresh"
      BY <1>0, <1>11 DEF Kept, Alone
    <3>2. CallKept(d, b, n, visible[d.agent], runs, context[d.agent])
      BY <1>0 DEF Kept
    <3> QED
      BY <1>0, <1>11, <3>1, <3>2 DEF CallKept, CallFits, Call
  <2>2. d.cursor \in b.shown /\ \A x \in b.shown : d.cursor <= x
    BY <1>0, <2>1 DEF Continues
  <2>3. \A x \in c.rows : d.cursor <= x
    <3>1. b.loaded /\ d.cursor <= b.cursor
      BY <1>0, <1>3, <2>2 DEF Stretch
    <3>2. \A x \in c.rows : b.cursor < x
      BY <1>0, <1>2, <1>3, <3>1 DEF Paged, Behind
    <3>3. d.cursor \in Nat /\ b.cursor \in Nat /\ \A x \in c.rows : x \in Nat
      BY <1>0, <1>1, <1>3, <2>2 DEF PanelKept
    <3> QED
      BY <1>0, <3>1, <3>2, <3>3
  <2>4. Continues(d, new)
    BY <1>0, <2>1, <2>2, <2>3 DEF Continues
  <2> QED
    BY <1>0, <1>11, <2>1, <2>4 DEF Timely
<1>12. b.selection <= new.selection /\ b.revision <= new.revision
  BY <1>0, <1>1 DEF Browser
<1>13. Kept(cs \ {c}, new, n, visible, runs, context)
  BY <1>0, <1>1, <1>10, <1>11, <1>12, PanelTurns
<1> QED
  BY <1>0, <1>6, <1>13

\* The answer to a poll arrives.
LEMMA AnswerKept ==
  ASSUME NEW n, NEW visible, NEW runs, NEW context, World(n, visible, runs, context),
         NEW cs, NEW b, Kept(cs, b, n, visible, runs, context),
         NEW c \in cs, c.kind = "refresh", c.pc = "reply", c.selection = b.selection, c.revision = b.revision,
         NEW new, new = Answered(b, c)
  PROVE  Kept(cs \ {c}, new, n, visible, runs, context) /\ b.context <= new.context
<1>1. b \in Browser /\ c \in Call /\ LastSequence(c) \in Nat
  <2>1. /\ b \in Browser /\ CallKept(c, b, n, visible[c.agent], runs, context[c.agent]) /\ c \in Call /\ n \in Nat
    BY DEF Kept, PanelKept, CallKept, World
  <2>2. c.rows \subseteq visible[c.agent] /\ visible[c.agent] \subseteq 1..n /\ c.cursor \in 0..n
    BY <2>1 DEF CallKept, CallFits, Paged, World, Call
  <2> QED
    BY <2>1, <2>2, LastRow
<1>2. AnswerSets(new, b, c)
  BY <1>1, AnswerShown
<1> QED
  BY <1>2, AnswerFits

\* The panel with an earlier page, and what the page sets.
Earlied(b, c) == [b EXCEPT !.shown = @ \cup c.rows, !.earlier = c.more, !.loading = FALSE]

EarlierSets(new, b, c) ==
  /\ new \in Browser /\ new.agent = b.agent /\ new.selection = b.selection /\ new.revision = b.revision
  /\ new.loaded = b.loaded /\ new.cursor = b.cursor /\ new.shown = b.shown \cup c.rows
  /\ new.context = b.context /\ new.earlier = c.more /\ new.loading = FALSE /\ new.resetting = b.resetting

\* An earlier page sets these fields and no others.
LEMMA EarlierSet ==
  ASSUME NEW b \in Browser, NEW c \in Call, NEW new, new = Earlied(b, c)
  PROVE  EarlierSets(new, b, c)
<1>1. b.shown \cup c.rows \in SUBSET Nat /\ c.more \in BOOLEAN
  BY DEF Browser, Call
<1>2. PICK shown \in SUBSET Nat : shown = b.shown \cup c.rows
  BY <1>1
<1>3. PICK more \in BOOLEAN : more = c.more
  BY <1>1
<1> DEFINE one == [b EXCEPT !.shown = shown]
           two == [one EXCEPT !.earlier = more]
           three == [two EXCEPT !.loading = FALSE]
<1>4. new = three
  <2>1. new = [b EXCEPT !.shown = shown, !.earlier = more, !.loading = FALSE]
    BY <1>2, <1>3 DEF Earlied
  <2> QED
    BY <2>1 DEF Browser
<1>5. /\ one \in Browser /\ one.agent = b.agent /\ one.selection = b.selection /\ one.revision = b.revision
      /\ one.loaded = b.loaded /\ one.cursor = b.cursor /\ one.shown = shown
      /\ one.context = b.context /\ one.resetting = b.resetting
  BY DEF Browser
<1> HIDE DEF one
<1>6. /\ two \in Browser /\ two.agent = one.agent /\ two.selection = one.selection /\ two.revision = one.revision
      /\ two.loaded = one.loaded /\ two.cursor = one.cursor /\ two.shown = one.shown /\ two.earlier = more
      /\ two.context = one.context /\ two.resetting = one.resetting
  BY <1>5 DEF Browser
<1> HIDE DEF two
<1>7. /\ three \in Browser /\ three.agent = two.agent /\ three.selection = two.selection /\ three.revision = two.revision
      /\ three.loaded = two.loaded /\ three.cursor = two.cursor /\ three.shown = two.shown /\ three.earlier = two.earlier
      /\ three.context = two.context /\ three.resetting = two.resetting /\ three.loading = FALSE
  BY <1>6 DEF Browser
<1> HIDE DEF three
<1> QED
  BY <1>2, <1>3, <1>4, <1>5, <1>6, <1>7 DEF EarlierSets

\* An earlier page arrives.
LEMMA EarlierKept ==
  ASSUME NEW n, NEW visible, NEW runs, NEW context, World(n, visible, runs, context),
         NEW cs, NEW b, Kept(cs, b, n, visible, runs, context),
         NEW c \in cs, c.kind = "earlier", c.pc = "reply", c.selection = b.selection,
         NEW new, new = Earlied(b, c)
  PROVE  Kept(cs \ {c}, new, n, visible, runs, context)
<1>1. /\ PanelKept(b, n, visible[b.agent], context[b.agent]) /\ b \in Browser
      /\ CallKept(c, b, n, visible[c.agent], runs, context[c.agent]) /\ c \in Call /\ n \in Nat
  BY DEF Kept, PanelKept, CallKept, World
<1>2. EarlierSets(new, b, c)
  BY <1>1, EarlierSet
<1>3. /\ new \in Browser /\ new.agent = b.agent /\ new.selection = b.selection /\ new.revision = b.revision
      /\ new.loaded = b.loaded /\ new.cursor = b.cursor /\ new.shown = b.shown \cup c.rows
      /\ new.context = b.context /\ new.earlier = c.more /\ new.loading = FALSE /\ new.resetting = b.resetting
  BY <1>2 DEF EarlierSets
<1>4. Continues(c, b) /\ Paged(c, visible[c.agent]) /\ c.agent = b.agent
  BY <1>1 DEF CallKept, CallFits, Continues
<1>5. /\ c.rows \subseteq visible[b.agent] /\ visible[b.agent] \subseteq 1..n /\ b.shown \subseteq 1..n
      /\ ~c.incremental /\ c.cursor \in b.shown /\ \A x \in b.shown : c.cursor <= x
      /\ Stretch(b, visible[b.agent])
  BY <1>1, <1>4 DEF Paged, Continues, World, Browser, PanelKept
<1>6. c.cursor # 0
  BY <1>1, <1>5
<1>7. Earlier(c, visible[b.agent])
  BY <1>4, <1>5, <1>6 DEF Paged
<1>8. Stretch(new, visible[b.agent])
  BY <1>1, <1>3, <1>5, <1>7, EarlierShown
<1>9. PanelKept(new, n, visible[new.agent], context[new.agent])
  <2>1. new.shown \subseteq 1..n
    BY <1>3, <1>5
  <2> QED
    BY <1>1, <1>3, <1>8, <2>1 DEF PanelKept
<1>10. ASSUME NEW d \in cs \ {c}, d.selection = new.selection
       PROVE  d.selection = b.selection /\ Continues(d, new) /\ Timely(d, new)
  <2>1. d.kind = "refresh" /\ Continues(d, b) /\ Timely(d, b)
    <3>1. d.kind # "earlier"
      BY <1>3, <1>10 DEF Kept, Alone
    <3>2. CallKept(d, b, n, visible[d.agent], runs, context[d.agent])
      BY DEF Kept
    <3> QED
      BY <1>3, <1>10, <3>1, <3>2 DEF CallKept, CallFits, Call
  <2>2. Continues(d, new) /\ Timely(d, new)
    BY <1>3, <2>1 DEF Continues, Timely
  <2> QED
    BY <1>3, <1>10, <2>2
<1>11. b.selection <= new.selection /\ b.revision <= new.revision
  BY <1>1, <1>3 DEF Browser
<1> QED
  BY <1>1, <1>9, <1>10, <1>11, PanelTurns

\* An answer that no longer counts.
LEMMA IgnoredKept ==
  ASSUME NEW n, NEW visible, NEW runs, NEW context,
         NEW cs, NEW b, Kept(cs, b, n, visible, runs, context), NEW rest, rest \subseteq cs
  PROVE  Kept(rest, b, n, visible, runs, context)
BY DEF Kept, Alone

\* The panel asks for New chat.
LEMMA ResetAsked ==
  ASSUME NEW n, NEW visible, NEW runs, NEW context, World(n, visible, runs, context),
         NEW cs, NEW b, Kept(cs, b, n, visible, runs, context),
         NEW ctx \in Nat, ctx <= context[b.agent], NEW new, new = [b EXCEPT !.resetting = ctx]
  PROVE  Kept(cs, new, n, visible, runs, context)
<1>1. PanelKept(b, n, visible[b.agent], context[b.agent]) /\ b \in Browser
  BY DEF Kept, PanelKept
<1>2. /\ new \in Browser /\ new.agent = b.agent /\ new.selection = b.selection /\ new.revision = b.revision
      /\ new.loaded = b.loaded /\ new.cursor = b.cursor /\ new.shown = b.shown /\ new.context = b.context
      /\ new.earlier = b.earlier /\ new.loading = b.loading /\ new.resetting = ctx
  BY <1>1 DEF Browser
<1>3. PanelKept(new, n, visible[new.agent], context[new.agent])
  <2>1. Stretch(b, visible[b.agent])
    BY <1>1 DEF PanelKept
  <2>2. Stretch(new, visible[b.agent])
    BY <1>2, <2>1 DEF Stretch
  <2> QED
    BY <1>1, <1>2, <2>2 DEF PanelKept
<1>4. ASSUME NEW d \in cs, d.selection = new.selection
      PROVE  d.selection = b.selection /\ Continues(d, new) /\ Timely(d, new)
  <2>1. CallKept(d, b, n, visible[d.agent], runs, context[d.agent])
    BY DEF Kept
  <2>2. Continues(d, b) /\ Timely(d, b)
    BY <1>2, <1>4, <2>1 DEF CallKept, CallFits
  <2> QED
    BY <1>2, <1>4, <2>2 DEF Continues, Timely
<1>5. b.selection <= new.selection /\ b.revision <= new.revision
  BY <1>1, <1>2 DEF Browser
<1> QED
  BY <1>1, <1>3, <1>4, <1>5, PanelTurns

\* The world goes on under the panel.
LEMMA WorldGrows ==
  ASSUME NEW n, NEW visible, NEW runs, NEW context, World(n, visible, runs, context),
         NEW m, NEW seen, NEW ids, NEW ctx, World(m, seen, ids, ctx),
         n <= m, \A a \in Agent : Grown(visible[a], seen[a], n), runs \subseteq ids,
         \A a \in Agent : context[a] <= ctx[a],
         NEW cs, NEW b, Kept(cs, b, n, visible, runs, context)
  PROVE  Kept(cs, b, m, seen, ids, ctx)
<1>1. PanelKept(b, n, visible[b.agent], context[b.agent]) /\ b \in Browser /\ b.agent \in Agent /\ n \in Nat /\ m \in Nat
  BY DEF Kept, PanelKept, Browser, World
<1>2. PanelKept(b, m, seen[b.agent], ctx[b.agent])
  <2>1. Stretch(b, seen[b.agent])
    BY <1>1, StretchStays DEF PanelKept
  <2>2. b.shown \subseteq 1..m /\ b.cursor \in 0..m
    BY <1>1 DEF PanelKept
  <2>3. b.context <= ctx[b.agent] /\ b.resetting <= ctx[b.agent]
    <3>1. /\ b.context \in Nat /\ b.resetting \in Nat /\ context[b.agent] \in Nat /\ ctx[b.agent] \in Nat
          /\ context[b.agent] <= ctx[b.agent]
      BY <1>1 DEF Browser, World
    <3> QED
      BY <1>1, <3>1 DEF PanelKept
  <2> QED
    BY <1>1, <2>1, <2>2, <2>3 DEF PanelKept
<1>3. ASSUME NEW c \in cs PROVE CallKept(c, b, m, seen[c.agent], ids, ctx[c.agent])
  <2>1. CallKept(c, b, n, visible[c.agent], runs, context[c.agent]) /\ c \in Call /\ c.agent \in Agent
    BY DEF Kept, CallKept, Call
  <2>2. CallFits(c, b, seen[c.agent])
    BY <1>1, <2>1, FitsStays DEF CallKept
  <2>3. c.rows \subseteq 1..m /\ c.cursor \in 0..m /\ c.active \in ids \cup {0} /\ Timely(c, b)
    BY <1>1, <2>1 DEF CallKept
  <2>4. c.context <= ctx[c.agent]
    <3>1. /\ c.context \in Nat /\ context[c.agent] \in Nat /\ ctx[c.agent] \in Nat
          /\ context[c.agent] <= ctx[c.agent]
      BY <2>1 DEF Call, World
    <3> QED
      BY <2>1, <3>1 DEF CallKept
  <2> QED
    BY <2>1, <2>2, <2>3, <2>4 DEF CallKept
<1> QED
  BY <1>2, <1>3 DEF Kept

-----------------------------------------------------------------------------
(* The steps of the program, as the panel and its calls see them.          *)

\* Contexts only grow.
LEMMA ConvMoves ==
  ASSUME Typed, Step
  PROVE  conv' \in [Agent -> Nat] /\ \A a \in Agent : conv[a] <= conv'[a]
<1>1. conv \in [Agent -> Nat] /\ \A t \in TaskId : task[t].target \in Agent
  BY Rows DEF Typed, TypeOK, Task
<1>2. \A a \in Agent : Ensured(a) \in [Agent -> Nat] /\ \A k \in Agent : conv[k] <= Ensured(a)[k]
  BY <1>1 DEF Ensured
<1>3. \/ conv' = conv
      \/ \E a \in Agent : conv' = Ensured(a)
      \/ \E a \in Agent : conv' = [conv EXCEPT ![a] = @ + 1]
  <2>1. CASE \E a \in Agent, source \in bound.source : CreateRun(a, source)
    BY <2>1 DEF CreateRun
  <2>2. CASE \E t \in TaskId : StartCollaboration(t)
    BY <1>1, <2>2 DEF StartCollaboration
  <2>3. CASE \E r \in RunId : RunStep(r)
    BY <2>3 DEF RunStep, WorkerAppends, WorkerFinishes, StoreFails, CancelRelay, RelayRun, RelayPolls,
       AppendWorkerEvent, StopRun, RelayFinishes
  <2>4. CASE \/ ReconcileCollaborationTasks \/ SyncCollaborationTimeline
             \/ \E a \in Agent : SelectAgent(a)
             \/ \E a, b \in Agent : EnqueueTask(a, b)
             \/ ReceiveReset
    BY <2>4 DEF ReconcileCollaborationTasks, SyncCollaborationTimeline, SelectAgent, ReceiveReset, EnqueueTask
  <2>5. CASE \E a \in Agent : OtherResets(a)
    BY <2>5 DEF OtherResets, ResetAgentConversation
  <2>6. CASE BrowserResets
    BY <2>6 DEF BrowserResets, ResetAgentConversation, Typed, TypeOK, Browser
  <2>7. CASE \E c \in calls : HandlerEnsures(c)
    BY <2>7 DEF HandlerEnsures, Typed, TypeOK, Call
  <2>8. CASE \E c \in calls : HandlerSyncs(c) \/ HandlerQueries(c) \/ HandlerInspects(c)
    BY <2>8 DEF HandlerSyncs, HandlerQueries, HandlerInspects
  <2>9. CASE Refresh \/ Receive \/ LoadEarlier \/ RequestFails \/ Restart
    BY <2>9 DEF Refresh, Receive, ReceiveRefresh, ReceiveEarlier, LoadEarlier, RequestFails, Restart
  <2>10. CASE UNCHANGED vars
    BY <2>10 DEF vars
  <2> QED
    BY <2>1, <2>2, <2>3, <2>4, <2>5, <2>6, <2>7, <2>8, <2>9, <2>10 DEF Step, Next, RelayStep, RunStep, HandlerStep
<1> QED
  BY <1>1, <1>2, <1>3

\* The world is what its name says, before and after a step.
LEMMA WorldIs ==
  ASSUME Typed
  PROVE  World(Len(timeline), Seen, RunId, conv)
<1>1. Len(timeline) \in Nat /\ RunId \subseteq Nat /\ conv \in [Agent -> Nat]
  BY Rows DEF Typed, TypeOK
<1>2. \A a \in Agent : Visible(a) \subseteq 1..Len(timeline)
  BY Rows DEF Visible, Typed
<1> QED
  BY <1>1, <1>2 DEF World, Seen

\* A step makes a world that has grown, and the panel fits it as it is.
LEMMA WorldMoves ==
  ASSUME Typed, RelayInv, StoryInv, Watched, Step
  PROVE  /\ World(Len(timeline'), Seen', RunId', conv')
         /\ Kept(calls, browser, Len(timeline'), Seen', RunId', conv')
         /\ Len(timeline') \in Nat /\ Position' = 1..Len(timeline')
<1>1. RunsGrow /\ TimelineGrows
  BY RunsMove, StoryKept
<1>2. conv' \in [Agent -> Nat] /\ \A a \in Agent : conv[a] <= conv'[a]
  BY ConvMoves
<1>3. Position' = 1..Len(timeline') /\ Len(timeline') \in Nat
  BY <1>1, PositionsGrow
<1>4. Position = 1..Len(timeline) /\ Len(timeline) \in Nat /\ Len(timeline) <= Len(timeline')
  <2>1. Position = 1..Len(timeline) /\ Len(timeline) \in Nat
    BY Rows DEF Typed
  <2>2. Position \subseteq Position'
    BY <1>1 DEF TimelineGrows
  <2>3. CASE Len(timeline) = 0
    BY <1>3, <2>1, <2>3
  <2>4. CASE Len(timeline) # 0
    BY <1>3, <2>1, <2>2, <2>4
  <2> QED
    BY <2>1, <2>3, <2>4
<1>5. RunId' \subseteq Nat /\ RunId \subseteq RunId'
  <2>1. run' \in Seq(Run)
    BY <1>1 DEF RunsGrow
  <2>2. RunId' = 1..Len(run') /\ Len(run') \in Nat
    BY <2>1 DEF RunId
  <2> QED
    BY <1>1, <2>2 DEF RunsGrow
<1>6. \A a \in Agent : Grown(Visible(a), Visible(a)', Len(timeline))
  BY <1>1, VisibleGrows
<1>7. Seen \in [Agent -> SUBSET (1..Len(timeline))] /\ \A a \in Agent : Seen[a] = Visible(a)
  BY WorldIs DEF World, Seen
<1>8. Seen' \in [Agent -> SUBSET (1..Len(timeline'))] /\ \A a \in Agent : Seen'[a] = Visible(a)'
  <2>1. \A a \in Agent : Visible(a)' \subseteq 1..Len(timeline')
    BY <1>3 DEF Visible
  <2> QED
    BY <2>1 DEF Seen
<1>9. World(Len(timeline), Seen, RunId, conv)
  BY WorldIs
<1>10. World(Len(timeline'), Seen', RunId', conv')
  BY <1>2, <1>3, <1>5, <1>8 DEF World
<1>11. \A a \in Agent : Grown(Seen[a], Seen'[a], Len(timeline))
  BY <1>6, <1>7, <1>8
<1>12. Kept(calls, browser, Len(timeline'), Seen', RunId', conv')
  <2>1. Kept(calls, browser, Len(timeline), Seen, RunId, conv)
    BY DEF Watched
  <2> QED
    BY <1>2, <1>4, <1>5, <1>9, <1>10, <1>11, <2>1, WorldGrows
<1> QED
  BY <1>3, <1>10, <1>12

\* The world after a step, with the calls and the panel of before.
Around(n, visible, runs, context) ==
  /\ Typed /\ World(n, visible, runs, context) /\ Kept(calls, browser, n, visible, runs, context)
  /\ n = Len(timeline') /\ visible = Seen' /\ runs = RunId' /\ context = conv' /\ Position' = 1..n

\* The context and the tasks are brought up to date: the call learns the context.
LEMMA EnsuresKept ==
  ASSUME NEW n, NEW visible, NEW runs, NEW context, Around(n, visible, runs, context),
         NEW c \in calls, HandlerEnsures(c)
  PROVE  Kept(calls', browser', n, visible, runs, context)
<1>1. /\ World(n, visible, runs, context) /\ Kept(calls, browser, n, visible, runs, context) /\ context = conv'
      /\ c \in Call /\ CallKept(c, browser, n, visible[c.agent], runs, context[c.agent])
  BY DEF Around, Kept, CallKept
<1>2. PICK ctx : ctx = context[c.agent]
  OBVIOUS
<1>3. PICK new : new = [c EXCEPT !.context = ctx, !.pc = "sync"]
  OBVIOUS
<1>4. browser' = browser /\ calls' = (calls \ {c}) \cup {new}
  BY <1>1, <1>2, <1>3 DEF HandlerEnsures, Advance
<1>5. ctx \in Nat
  BY <1>1, <1>2 DEF World, Call
<1>6. /\ new \in Call /\ new.kind = c.kind /\ new.selection = c.selection /\ new.agent = c.agent
      /\ new.cursor = c.cursor /\ new.incremental = c.incremental /\ new.revision = c.revision
      /\ new.rows = c.rows /\ new.active = c.active /\ new.context = ctx /\ new.pc = "sync"
  BY <1>1, <1>3, <1>5 DEF Call, CallPC
<1>7. Timely(new, browser)
  <2>1. SUFFICES ASSUME new.selection = browser.selection PROVE browser.context <= ctx
    BY <1>6 DEF Timely
  <2>2. c.agent = browser.agent
    BY <1>1, <1>6, <2>1 DEF CallKept, CallFits, Continues
  <2> QED
    BY <1>1, <1>2, <2>2 DEF Kept, PanelKept
<1>8. new.rows \subseteq 1..n /\ new.active \in runs \cup {0} /\ new.context <= context[c.agent]
  BY <1>1, <1>2, <1>5, <1>6 DEF CallKept
<1>9. new.pc \in {"inspect", "reply"} => Paged(new, visible[c.agent])
  BY <1>6
<1>10. Kept((calls \ {c}) \cup {new}, browser, n, visible, runs, context)
  BY <1>1, <1>6, <1>7, <1>8, <1>9, AdvanceKept
<1> QED
  BY <1>4, <1>10

\* The timeline is brought up to date.
LEMMA SyncsKept ==
  ASSUME NEW n, NEW visible, NEW runs, NEW context, Around(n, visible, runs, context),
         NEW c \in calls, HandlerSyncs(c)
  PROVE  Kept(calls', browser', n, visible, runs, context)
<1>1. /\ World(n, visible, runs, context) /\ Kept(calls, browser, n, visible, runs, context)
      /\ c \in Call /\ CallKept(c, browser, n, visible[c.agent], runs, context[c.agent])
  BY DEF Around, Kept, CallKept
<1>2. PICK new : new = [c EXCEPT !.pc = "query"]
  OBVIOUS
<1>3. browser' = browser /\ calls' = (calls \ {c}) \cup {new} /\ c.pc = "sync"
  BY <1>2 DEF HandlerSyncs, Advance
<1>4. /\ new \in Call /\ new.kind = c.kind /\ new.selection = c.selection /\ new.agent = c.agent
      /\ new.cursor = c.cursor /\ new.incremental = c.incremental /\ new.revision = c.revision
      /\ new.rows = c.rows /\ new.active = c.active /\ new.context = c.context /\ new.pc = "query"
  BY <1>1, <1>2 DEF Call, CallPC
<1>5. Timely(new, browser)
  BY <1>1, <1>3, <1>4 DEF CallKept, Timely
<1>6. new.rows \subseteq 1..n /\ new.active \in runs \cup {0} /\ new.context <= context[c.agent]
  BY <1>1, <1>4 DEF CallKept
<1>7. new.pc \in {"inspect", "reply"} => Paged(new, visible[c.agent])
  BY <1>4
<1>8. Kept((calls \ {c}) \cup {new}, browser, n, visible, runs, context)
  BY <1>1, <1>4, <1>5, <1>6, <1>7, AdvanceKept
<1> QED
  BY <1>3, <1>8

\* The page is read.
LEMMA QueriesKept ==
  ASSUME NEW n, NEW visible, NEW runs, NEW context, Around(n, visible, runs, context),
         NEW c \in calls, HandlerQueries(c)
  PROVE  Kept(calls', browser', n, visible, runs, context)
<1>1. /\ World(n, visible, runs, context) /\ Kept(calls, browser, n, visible, runs, context) /\ TypeOK
      /\ c \in Call /\ CallKept(c, browser, n, visible[c.agent], runs, context[c.agent])
  BY DEF Around, Kept, CallKept, Typed
<1>2. PICK page : page = Page(c)
  OBVIOUS
<1>3. PICK new : new = [c EXCEPT !.rows = page.rows, !.more = page.more, !.pc = "inspect"]
  OBVIOUS
<1>4. browser' = browser /\ calls' = (calls \ {c}) \cup {new} /\ c.pc = "query"
  BY <1>2, <1>3 DEF HandlerQueries, Advance
<1>5. Visible(c.agent) = visible[c.agent] /\ visible[c.agent] \subseteq 1..n /\ n \in Nat
  <2>1. timeline' = timeline /\ run' = run
    BY DEF HandlerQueries
  <2>2. Visible(c.agent)' = Visible(c.agent)
    BY <2>1 DEF Visible, Position, Scheduled
  <2>3. c.agent \in Agent
    BY <1>1 DEF Call
  <2>4. Seen'[c.agent] = Visible(c.agent)'
    BY <2>3 DEF Seen
  <2>5. visible = Seen'
    BY DEF Around
  <2> QED
    BY <1>1, <2>2, <2>3, <2>4, <2>5 DEF World
<1>6. page.rows \subseteq visible[c.agent] /\ page.more \in BOOLEAN
  BY <1>2, <1>5 DEF Page, AgentTimeline, FirstRows, LastRows
<1>7. /\ new \in Call /\ new.kind = c.kind /\ new.selection = c.selection /\ new.agent = c.agent
      /\ new.cursor = c.cursor /\ new.incremental = c.incremental /\ new.revision = c.revision
      /\ new.rows = page.rows /\ new.more = page.more /\ new.active = c.active /\ new.context = c.context
      /\ new.pc = "inspect"
  <2>1. page.rows \in SUBSET Nat
    BY <1>5, <1>6
  <2> DEFINE one == [c EXCEPT !.rows = page.rows]
             two == [one EXCEPT !.more = page.more]
             three == [two EXCEPT !.pc = "inspect"]
  <2>2. new = three
    BY <1>1, <1>3 DEF Call
  <2>3. /\ one \in Call /\ one.kind = c.kind /\ one.selection = c.selection /\ one.agent = c.agent
        /\ one.cursor = c.cursor /\ one.incremental = c.incremental /\ one.revision = c.revision
        /\ one.rows = page.rows /\ one.active = c.active /\ one.context = c.context
    BY <1>1, <2>1 DEF Call
  <2> HIDE DEF one
  <2>4. /\ two \in Call /\ two.kind = one.kind /\ two.selection = one.selection /\ two.agent = one.agent
        /\ two.cursor = one.cursor /\ two.incremental = one.incremental /\ two.revision = one.revision
        /\ two.rows = one.rows /\ two.active = one.active /\ two.context = one.context /\ two.more = page.more
    BY <1>6, <2>3 DEF Call
  <2> HIDE DEF two
  <2>5. /\ three \in Call /\ three.kind = two.kind /\ three.selection = two.selection /\ three.agent = two.agent
        /\ three.cursor = two.cursor /\ three.incremental = two.incremental /\ three.revision = two.revision
        /\ three.rows = two.rows /\ three.active = two.active /\ three.context = two.context /\ three.more = two.more
        /\ three.pc = "inspect"
    BY <2>4 DEF Call, CallPC
  <2> HIDE DEF three
  <2> QED
    BY <2>2, <2>3, <2>4, <2>5
<1>8. Timely(new, browser)
  BY <1>1, <1>4, <1>7 DEF CallKept, Timely
<1>9. new.rows \subseteq 1..n /\ new.active \in runs \cup {0} /\ new.context <= context[c.agent]
  BY <1>1, <1>5, <1>6, <1>7 DEF CallKept
<1>10. Paged(new, visible[c.agent])
  <2>1. c.cursor \in Nat
    BY <1>1 DEF Call
  <2> QED
    BY <1>1, <1>2, <1>5, <1>7, <2>1, PageFits
<1>11. Kept((calls \ {c}) \cup {new}, browser, n, visible, runs, context)
  BY <1>1, <1>7, <1>8, <1>9, <1>10, AdvanceKept
<1> QED
  BY <1>4, <1>11

\* The active run is looked up.
LEMMA InspectsKept ==
  ASSUME NEW n, NEW visible, NEW runs, NEW context, Around(n, visible, runs, context),
         NEW c \in calls, HandlerInspects(c)
  PROVE  Kept(calls', browser', n, visible, runs, context)
<1>1. /\ World(n, visible, runs, context) /\ Kept(calls, browser, n, visible, runs, context)
      /\ c \in Call /\ CallKept(c, browser, n, visible[c.agent], runs, context[c.agent])
      /\ runs = RunId' /\ runs \subseteq Nat
  BY DEF Around, Kept, CallKept, World
<1>2. PICK active : active = (IF Scheduled(ActiveRun(c.agent)) THEN 0 ELSE ActiveRun(c.agent))
  OBVIOUS
<1>3. active \in runs \cup {0} /\ active \in Nat
  <2>1. RunId' = RunId
    BY DEF HandlerInspects, RunId
  <2>2. ActiveRun(c.agent) \in RunId \cup {0}
    BY ActiveRunIs
  <2> QED
    BY <1>1, <1>2, <2>1, <2>2
<1>4. PICK new : new = [c EXCEPT !.active = active, !.pc = "reply"]
  OBVIOUS
<1>5. browser' = browser /\ calls' = (calls \ {c}) \cup {new} /\ c.pc = "inspect"
  BY <1>2, <1>4 DEF HandlerInspects, Advance
<1>6. /\ new \in Call /\ new.kind = c.kind /\ new.selection = c.selection /\ new.agent = c.agent
      /\ new.cursor = c.cursor /\ new.incremental = c.incremental /\ new.revision = c.revision
      /\ new.rows = c.rows /\ new.more = c.more /\ new.active = active /\ new.context = c.context
      /\ new.pc = "reply"
  BY <1>1, <1>3, <1>4 DEF Call, CallPC
<1>7. Timely(new, browser)
  BY <1>1, <1>5, <1>6 DEF CallKept, Timely
<1>8. new.rows \subseteq 1..n /\ new.active \in runs \cup {0} /\ new.context <= context[c.agent]
  BY <1>1, <1>3, <1>6 DEF CallKept
<1>9. Paged(new, visible[c.agent])
  <2>1. Paged(c, visible[c.agent])
    BY <1>1, <1>5 DEF CallKept, CallFits
  <2> QED
    BY <1>6, <2>1 DEF Paged, Behind, Latest, Earlier
<1>10. Kept((calls \ {c}) \cup {new}, browser, n, visible, runs, context)
  BY <1>1, <1>6, <1>7, <1>8, <1>9, AdvanceKept
<1> QED
  BY <1>5, <1>10

\* Requests fail.
LEMMA FailedKept ==
  ASSUME NEW n, NEW visible, NEW runs, NEW context, Around(n, visible, runs, context),
         NEW failed \in SUBSET calls, NEW reset \in BOOLEAN, Failed(failed, reset)
  PROVE  Kept(calls', browser', n, visible, runs, context)
<1>1. /\ World(n, visible, runs, context) /\ Kept(calls, browser, n, visible, runs, context)
      /\ browser \in Browser /\ PanelKept(browser, n, visible[browser.agent], context[browser.agent])
  BY DEF Around, Kept, PanelKept
<1>2. PICK gone \in BOOLEAN : gone <=> \E c \in failed : c.kind = "earlier" /\ Current(c)
  OBVIOUS
<1>3. PICK loading \in BOOLEAN : loading = (browser.loading /\ ~\E c \in failed : c.kind = "earlier" /\ Current(c))
  OBVIOUS
<1>4. PICK resetting : resetting = IF reset THEN 0 ELSE browser.resetting
  OBVIOUS
<1>5. resetting \in Nat /\ resetting <= context[browser.agent]
  <2>1. browser.resetting \in Nat /\ browser.resetting <= context[browser.agent] /\ context[browser.agent] \in Nat
    BY <1>1 DEF PanelKept, Browser, World
  <2> QED
    BY <1>4, <2>1
<1>6. calls' = calls \ failed /\ browser' = [browser EXCEPT !.loading = loading, !.resetting = resetting]
  BY <1>3, <1>4 DEF Failed
<1>7. ASSUME NEW c \in calls \ failed, c.kind = "earlier", c.selection = browser.selection PROVE loading
  <2>1. CallKept(c, browser, n, visible[c.agent], runs, context[c.agent])
    BY <1>1 DEF Kept
  <2>2. browser.loading
    BY <1>7, <2>1 DEF CallKept, CallFits, Continues
  <2>3. ~\E d \in failed : d.kind = "earlier" /\ Current(d)
    <3>1. SUFFICES ASSUME NEW d \in failed, d.kind = "earlier", d.selection = browser.selection PROVE FALSE
      BY DEF Current
    <3>2. Alone(calls, browser) /\ d \in calls
      BY <1>1 DEF Kept
    <3>3. c = d
      BY <1>7, <3>1, <3>2 DEF Alone
    <3> QED
      BY <1>7, <3>3
  <2> QED
    BY <1>3, <2>2, <2>3
<1>8. Kept(calls \ failed, browser', n, visible, runs, context)
  BY <1>1, <1>5, <1>6, <1>7, DroppedKept
<1> QED
  BY <1>6, <1>8

\* What the panel does keeps it and its calls.
LEMMA PanelMoves ==
  ASSUME NEW n, NEW visible, NEW runs, NEW context, Around(n, visible, runs, context),
         \/ Refresh \/ Receive \/ LoadEarlier \/ RequestFails \/ Restart
         \/ (\E a \in Agent : SelectAgent(a)) \/ BrowserResets \/ ReceiveReset
  PROVE  Kept(calls', browser', n, visible, runs, context)
<1>1. /\ World(n, visible, runs, context) /\ Kept(calls, browser, n, visible, runs, context)
      /\ browser \in Browser /\ PanelKept(browser, n, visible[browser.agent], context[browser.agent])
  BY DEF Around, Kept, PanelKept
<1>2. CASE Refresh
  <2>1. PICK c : c = Requested("refresh", browser.loaded, browser.cursor)
    OBVIOUS
  <2>2. browser' = browser /\ calls' = calls \cup {c}
        /\ ~\E d \in calls : d.kind = "refresh" /\ d.selection = browser.selection
    BY <1>2, <2>1 DEF Refresh, Current
  <2>3. Kept(calls \cup {c}, browser, n, visible, runs, context)
    BY <1>1, <2>1, <2>2, RefreshKept DEF Requested
  <2> QED
    BY <2>2, <2>3
<1>3. CASE \E c \in calls : ReceiveRefresh(c)
  <2>1. PICK c \in calls : ReceiveRefresh(c)
    BY <1>3
  <2>2. calls' = calls \ {c} /\ c.kind = "refresh" /\ c.pc = "reply"
    BY <2>1 DEF ReceiveRefresh
  <2>3. CASE Fresh(c)
    <3>1. browser' = Answered(browser, c)
      BY <2>1, <2>3 DEF ReceiveRefresh, Answered
    <3>2. c.selection = browser.selection /\ c.revision = browser.revision
      BY <2>3 DEF Fresh, Current
    <3> QED
      BY <1>1, <2>2, <3>1, <3>2, AnswerKept
  <2>4. CASE ~Fresh(c)
    <3>1. browser' = browser
      BY <2>1, <2>4 DEF ReceiveRefresh
    <3> QED
      BY <1>1, <2>2, <3>1, IgnoredKept
  <2> QED
    BY <2>3, <2>4
<1>4. CASE \E c \in calls : ReceiveEarlier(c)
  <2>1. PICK c \in calls : ReceiveEarlier(c)
    BY <1>4
  <2>2. calls' = calls \ {c} /\ c.kind = "earlier" /\ c.pc = "reply"
    BY <2>1 DEF ReceiveEarlier
  <2>3. CASE Current(c)
    <3>1. browser' = Earlied(browser, c)
      BY <2>1, <2>3 DEF ReceiveEarlier, Earlied
    <3>2. c.selection = browser.selection
      BY <2>3 DEF Current
    <3> QED
      BY <1>1, <2>2, <3>1, <3>2, EarlierKept
  <2>4. CASE ~Current(c)
    <3>1. browser' = browser
      BY <2>1, <2>4 DEF ReceiveEarlier
    <3> QED
      BY <1>1, <2>2, <3>1, IgnoredKept
  <2> QED
    BY <2>3, <2>4
<1>5. CASE LoadEarlier
  <2>1. PICK c : c = Requested("earlier", FALSE, FirstOf(browser.shown))
    OBVIOUS
  <2>2. PICK new : new = [browser EXCEPT !.loading = TRUE]
    OBVIOUS
  <2>3. browser' = new /\ calls' = calls \cup {c} /\ ~browser.loading /\ browser.shown # {}
    BY <1>5, <2>1, <2>2 DEF LoadEarlier
  <2>4. Kept(calls \cup {c}, new, n, visible, runs, context)
    BY <1>1, <2>1, <2>2, <2>3, EarlierAsked DEF Requested
  <2> QED
    BY <2>3, <2>4
<1>6. CASE RequestFails
  <2>1. CASE \E c \in calls : Failed({c}, FALSE)
    <3>1. PICK c \in calls : Failed({c}, FALSE)
      BY <2>1
    <3>2. {c} \in SUBSET calls
      OBVIOUS
    <3> QED
      BY <3>1, <3>2, FailedKept
  <2>2. CASE Failed({}, TRUE)
    <3>1. {} \in SUBSET calls
      OBVIOUS
    <3> QED
      BY <2>2, <3>1, FailedKept
  <2> QED
    BY <1>6, <2>1, <2>2 DEF RequestFails
<1>7. CASE Restart
  <2>1. calls \in SUBSET calls /\ Failed(calls, TRUE)
    BY <1>7 DEF Restart
  <2> QED
    BY <2>1, FailedKept
<1>8. CASE \E a \in Agent : SelectAgent(a)
  <2>1. PICK a \in Agent : SelectAgent(a)
    BY <1>8
  <2>2. calls' = calls /\ browser' = Opened(a, browser.selection + 1, browser.revision)
    BY <2>1 DEF SelectAgent
  <2> QED
    BY <1>1, <2>2, SelectKept
<1>9. CASE BrowserResets
  <2>1. PICK ctx : ctx = context[browser.agent]
    OBVIOUS
  <2>2. ctx \in Nat /\ ctx <= context[browser.agent]
    BY <1>1, <2>1 DEF World, Browser
  <2>3. calls' = calls /\ browser' = [browser EXCEPT !.resetting = ctx]
    BY <1>9, <2>1 DEF BrowserResets, Around
  <2> QED
    BY <1>1, <2>2, <2>3, ResetAsked
<1>10. CASE ReceiveReset
  <2>1. calls' = calls
        /\ browser' = [browser EXCEPT !.resetting = 0, !.context = browser.resetting, !.revision = @ + 1]
    BY <1>10 DEF ReceiveReset
  <2> QED
    BY <1>1, <2>1, ResetAnswered
<1> QED
  BY <1>2, <1>3, <1>4, <1>5, <1>6, <1>7, <1>8, <1>9, <1>10 DEF Receive

\* Everything else leaves the panel and its calls alone.
LEMMA WatchedKept ==
  ASSUME Inv, Step
  PROVE  Watched'
<1>1. PICK n : n = Len(timeline')
  OBVIOUS
<1>2. PICK visible : visible = Seen'
  OBVIOUS
<1>3. PICK runs : runs = RunId'
  OBVIOUS
<1>4. PICK context : context = conv'
  OBVIOUS
<1>5. Around(n, visible, runs, context)
  BY <1>1, <1>2, <1>3, <1>4, WorldMoves DEF Around, Inv
<1>6. Kept(calls, browser, n, visible, runs, context)
  BY <1>5 DEF Around
<1>7. SUFFICES Kept(calls', browser', n, visible, runs, context)
  BY <1>1, <1>2, <1>3, <1>4 DEF Watched
<1>8. CASE HandlerStep
  BY <1>5, <1>8, EnsuresKept, SyncsKept, QueriesKept, InspectsKept DEF HandlerStep
<1>9. CASE \/ Refresh \/ Receive \/ LoadEarlier \/ RequestFails \/ Restart
           \/ (\E a \in Agent : SelectAgent(a)) \/ BrowserResets \/ ReceiveReset
  BY <1>5, <1>9, PanelMoves, Zenon
<1>10. CASE \/ \E a \in Agent, source \in bound.source : CreateRun(a, source)
            \/ \E t \in TaskId : StartCollaboration(t)
            \/ \E a, b \in Agent : EnqueueTask(a, b)
  BY <1>6, <1>10 DEF CreateRun, StartCollaboration, EnqueueTask
<1>11. CASE \E r \in RunId : RunStep(r)
  BY <1>6, <1>11 DEF RunStep, WorkerAppends, WorkerFinishes, StoreFails, CancelRelay, RelayRun, RelayPolls,
     AppendWorkerEvent, StopRun, RelayFinishes
<1>12. CASE \/ ReconcileCollaborationTasks \/ SyncCollaborationTimeline \/ \E a \in Agent : OtherResets(a)
  BY <1>6, <1>12 DEF ReconcileCollaborationTasks, SyncCollaborationTimeline, OtherResets
<1>13. CASE UNCHANGED vars
  BY <1>6, <1>13 DEF vars
<1> QED
  BY <1>8, <1>9, <1>10, <1>11, <1>12, <1>13 DEF Step, Next, RelayStep, RunStep

\* Everything refers to what exists after a step as well.
LEMMA TypedKept ==
  ASSUME Inv, Step
  PROVE  Typed'
<1>1. Typed /\ RelayInv /\ StoryInv
  BY DEF Inv
<1>2. /\ RunsGrow /\ TasksGrow /\ TimelineGrows /\ RowsRefer' /\ Watched' /\ bound' = bound
      /\ RunTables' /\ conv' \in [Agent -> Nat]
      /\ \A t \in TaskId' : /\ task'[t].run \in RunId' \cup {0} /\ task'[t].senderRun \in RunId' \cup {0}
                            /\ TaskRefers(t)'
      /\ \A r \in RunId' : /\ events'[r] \subseteq outbox'[r].log
                           /\ relay'[r].batch \subseteq outbox'[r].log
                           /\ outbox'[r].final \subseteq outbox'[r].log
                           /\ outbox'[r].log \subseteq 1..bound'.event
  BY <1>1, RunsMove, TasksMove, StoryKept, WatchedKept, BoundStays, RelayKept, ConvMoves
<1>3. UsedTyped'
  <2>1. used \in [reset : Nat, select : Nat, fault : Nat, crash : Nat]
    BY <1>1 DEF Typed, UsedTyped
  <2>2. \/ used' = used \/ used' = [used EXCEPT !.fault = @ + 1] \/ used' = [used EXCEPT !.reset = @ + 1]
        \/ used' = [used EXCEPT !.select = @ + 1] \/ used' = [used EXCEPT !.crash = @ + 1]
    <3>1. CASE \/ \E a \in Agent, source \in bound.source : CreateRun(a, source)
               \/ \E t \in TaskId : StartCollaboration(t)
               \/ \E a, b \in Agent : EnqueueTask(a, b)
               \/ ReconcileCollaborationTasks \/ SyncCollaborationTimeline
      BY <3>1 DEF CreateRun, StartCollaboration, EnqueueTask, ReconcileCollaborationTasks, SyncCollaborationTimeline
    <3>2. CASE \E r \in RunId : WorkerAppends(r) \/ WorkerFinishes(r) \/ StopRun(r) \/ CancelRelay(r)
      BY <3>2 DEF WorkerAppends, WorkerFinishes, StopRun, CancelRelay
    <3>6. CASE \E r \in RunId : \/ StoreFails(r) \/ RelayRun(r) \/ RelayPolls(r) \/ AppendWorkerEvent(r)
                                \/ RelayFinishes(r)
      BY <3>6 DEF StoreFails, RelayRun, RelayPolls, AppendWorkerEvent, RelayFinishes
    <3>3. CASE \E a \in Agent : OtherResets(a) \/ SelectAgent(a)
      BY <3>3 DEF OtherResets, SelectAgent
    <3>7. CASE BrowserResets \/ ReceiveReset \/ RequestFails \/ Restart
      BY <3>7 DEF BrowserResets, ReceiveReset, RequestFails, Restart
    <3>4. CASE HandlerStep \/ Refresh \/ Receive \/ LoadEarlier
      BY <3>4, HandlerWrites, PanelWrites
    <3>5. CASE UNCHANGED vars
      BY <3>5 DEF vars
    <3> QED
      BY <3>1, <3>2, <3>3, <3>4, <3>5, <3>6, <3>7, Zenon DEF Step, Next, RelayStep, RunStep
  <2>3. CASE used' = used \/ used' = [used EXCEPT !.fault = @ + 1] \/ used' = [used EXCEPT !.reset = @ + 1]
    BY <2>1, <2>3 DEF UsedTyped
  <2>4. CASE used' = [used EXCEPT !.select = @ + 1] \/ used' = [used EXCEPT !.crash = @ + 1]
    BY <2>1, <2>4 DEF UsedTyped
  <2> QED
    BY <2>2, <2>3, <2>4
<1>4. /\ calls' \subseteq Call
      /\ \A c \in calls' : /\ c.rows \subseteq Position' /\ c.active \in RunId' \cup {0}
                           /\ c.cursor \in Position' \cup {0}
      /\ browser' \in Browser /\ browser'.shown \subseteq Position' /\ browser'.cursor \in Position' \cup {0}
  <2>1. Kept(calls', browser', Len(timeline'), Seen', RunId', conv')
    BY <1>2 DEF Watched
  <2>2. Position' = 1..Len(timeline') /\ Len(timeline') \in Nat
    BY <1>2, PositionsGrow
  <2>3. 0..Len(timeline') = Position' \cup {0}
    BY <2>2
  <2>4. PanelKept(browser', Len(timeline'), Seen'[browser'.agent], conv'[browser'.agent])
        /\ \A c \in calls' : CallKept(c, browser', Len(timeline'), Seen'[c.agent], RunId', conv'[c.agent])
    BY <2>1 DEF Kept
  <2>5. /\ calls' \subseteq Call
        /\ \A c \in calls' : /\ c.rows \subseteq 1..Len(timeline') /\ c.active \in RunId' \cup {0}
                             /\ c.cursor \in 0..Len(timeline')
    BY <2>4 DEF CallKept
  <2>6. browser' \in Browser /\ browser'.shown \subseteq 1..Len(timeline') /\ browser'.cursor \in 0..Len(timeline')
    BY <2>4 DEF PanelKept
  <2> QED
    BY <2>2, <2>3, <2>5, <2>6
<1>5. TypeOK'
  <2>1. bound' \in Scenario
    BY <1>1, <1>2 DEF Typed, TypeOK
  <2>2. run' \in Seq(Run) /\ task' \in Seq(Task) /\ timeline' \in Seq(Row)
    BY <1>2 DEF RunsGrow, TasksGrow, TimelineGrows
  <2>3. /\ outbox' \in [RunId' -> Outbox] /\ events' \in [RunId' -> SUBSET (1..bound'.event)]
        /\ relay' \in [RunId' -> Relay]
    BY <1>2 DEF RunTables
  <2> QED
    BY <1>2, <1>4, <2>1, <2>2, <2>3 DEF TypeOK
<1> QED
  BY <1>2, <1>3, <1>4, <1>5 DEF Typed, RowsRefer

\* The invariant is inductive.
LEMMA InvKept ==
  ASSUME Inv, Step
  PROVE  Inv'
<1>1. Typed /\ RelayInv /\ StoryInv
  BY DEF Inv
<1>2. RelayInv' /\ StoryInv'
  BY <1>1, RelayKept, StoryKept
<1> QED
  BY <1>2, TypedKept, WatchedKept DEF Inv

-----------------------------------------------------------------------------
(* The promises.                                                           *)

\* At first there is nothing but a panel that is open with one agent.
LEMMA InvBegins ==
  ASSUME Init
  PROVE  Inv
<1>1. /\ run = <<>> /\ outbox = <<>> /\ events = <<>> /\ relay = <<>> /\ task = <<>> /\ timeline = <<>>
      /\ calls = {} /\ conv = [a \in Agent |-> 0] /\ bound \in Scenario
      /\ used = [reset |-> 0, select |-> 0, fault |-> 0, crash |-> 0]
  BY DEF Init
<1>2. RunId = {} /\ TaskId = {} /\ Position = {} /\ Len(timeline) = 0
  BY <1>1 DEF RunId, TaskId, Position
<1>3. PICK a \in Agent : browser = Opened(a, 0, 0)
  BY TimelineAssumption DEF Init
<1>4. /\ browser \in Browser /\ browser.agent = a /\ browser.selection = 0 /\ browser.revision = 0
      /\ browser.loaded = FALSE /\ browser.cursor = 0 /\ browser.shown = {} /\ browser.context = 0
      /\ browser.earlier = FALSE /\ browser.loading = FALSE /\ browser.resetting = 0
  BY <1>3 DEF Opened, Browser
<1>5. Typed
  <2>1. conv \in [Agent -> Nat] /\ UsedTyped
    BY <1>1 DEF UsedTyped
  <2>2. run \in Seq(Run) /\ task \in Seq(Task) /\ timeline \in Seq(Row)
    BY <1>1
  <2>3. /\ outbox \in [RunId -> Outbox] /\ events \in [RunId -> SUBSET (1..bound.event)]
        /\ relay \in [RunId -> Relay]
    BY <1>1, <1>2
  <2>4. TypeOK
    BY <1>1, <1>2, <1>4, <2>1, <2>2, <2>3 DEF TypeOK
  <2> QED
    BY <1>1, <1>2, <2>1, <2>4 DEF Typed
<1>6. RelayInv
  BY <1>2 DEF RelayInv
<1>7. StoryInv
  BY <1>2 DEF StoryInv, StoriesInOrder, RunStoryInOrder, TaskStoryInOrder, StatusHasReceipt
<1>8. Watched
  <2>1. Seen[a] = {} /\ conv[a] = 0
    BY <1>1, <1>2 DEF Seen, Visible
  <2>2. Stretch(browser, Seen[a])
    BY <1>4, <2>1 DEF Stretch
  <2>3. PanelKept(browser, Len(timeline), Seen[browser.agent], conv[browser.agent])
    BY <1>2, <1>4, <2>1, <2>2 DEF PanelKept
  <2> QED
    BY <1>1, <2>3 DEF Watched, Kept, Alone
<1> QED
  BY <1>5, <1>6, <1>7, <1>8 DEF Inv

\* The invariant holds in every behaviour, whatever agents, pages and bounds there are.
THEOREM Invariant == Spec => []Inv
<1>1. Init => Inv
  BY InvBegins
<1>2. Inv /\ [Next]_vars => Inv'
  BY InvKept DEF Step
<1> QED
  BY <1>1, <1>2, PTL DEF Spec

\* Every reference in the tables, in requests and on the screen points at a row that
\* exists, and nobody runs ahead of what was written.
THEOREM TypeCorrect == Spec => []TypeOK
<1>1. Inv => TypeOK
  BY DEF Inv, Typed
<1> QED
  BY <1>1, Invariant, PTL

\* The story of every run and of every task is told once and in order, whatever relays,
\* restarts, failing transactions and projections do in between.
THEOREM StoriesToldInOrder == Spec => []StoriesInOrder
<1>1. Inv => StoriesInOrder
  BY DEF Inv, StoryInv
<1> QED
  BY <1>1, Invariant, PTL

\* A run recorded as completed has everything the worker wrote before its turn ended.
THEOREM FinishedRunsComplete == Spec => []FinishedRunIsComplete
<1>1. Inv => FinishedRunIsComplete
  BY DEF Inv, RelayInv, Relayed, Copied, FinishedRunIsComplete
<1> QED
  BY <1>1, Invariant, PTL

\* A panel that offers no earlier messages hides none.
THEOREM NothingHidden == Spec => []NoHiddenHistory
<1>1. Inv => NoHiddenHistory
  <2>1. SUFFICES ASSUME Inv PROVE NoHiddenHistory
    OBVIOUS
  <2>2. browser \in Browser /\ Stretch(browser, Seen[browser.agent])
    BY <2>1 DEF Inv, Watched, Kept, PanelKept
  <2>3. Seen[browser.agent] = Visible(browser.agent)
    BY <2>2 DEF Seen, Browser
  <2> QED
    BY <2>2, <2>3 DEF Stretch, NoHiddenHistory
<1> QED
  BY <1>1, Invariant, PTL

\* What a step does to the screen: nothing; or rows are added while the tables stand still;
\* or another agent is selected.
LEMMA ScreenMoves ==
  ASSUME Inv, Step
  PROVE  \/ /\ browser'.agent = browser.agent /\ browser'.selection = browser.selection
            /\ browser'.shown = browser.shown /\ browser'.context = browser.context
         \/ /\ browser'.agent = browser.agent /\ browser'.selection = browser.selection
            /\ browser'.revision = browser.revision + 1 /\ browser'.shown = browser.shown
         \/ /\ browser'.agent = browser.agent /\ browser'.selection = browser.selection
            /\ browser.shown \subseteq browser'.shown /\ browser'.context >= browser.context
            /\ UNCHANGED <<run, timeline>>
         \/ /\ browser'.selection = browser.selection + 1 /\ browser'.shown = {}
<1>1. /\ Typed /\ browser \in Browser /\ World(Len(timeline), Seen, RunId, conv)
      /\ Kept(calls, browser, Len(timeline), Seen, RunId, conv)
  BY WorldIs DEF Inv, Watched, Typed, TypeOK
<1>2. CASE browser' = browser
  BY <1>2
<1>3. CASE \E c \in calls : ReceiveRefresh(c) /\ Fresh(c)
  <2>1. PICK c \in calls : ReceiveRefresh(c) /\ Fresh(c)
    BY <1>3
  <2>2. /\ c.kind = "refresh" /\ c.pc = "reply" /\ c.selection = browser.selection /\ c.revision = browser.revision
        /\ browser' = Answered(browser, c) /\ UNCHANGED <<run, timeline>>
    BY <2>1 DEF ReceiveRefresh, Answered, Fresh, Current
  <2>3. PICK new : new = Answered(browser, c)
    OBVIOUS
  <2>4. Kept(calls \ {c}, new, Len(timeline), Seen, RunId, conv) /\ browser.context <= new.context
    BY <1>1, <2>2, <2>3, AnswerKept
  <2>5. /\ new.agent = browser.agent /\ new.selection = browser.selection
        /\ new.shown = browser.shown \cup c.rows
    BY <1>1, <2>3 DEF Answered, Browser
  <2>6. new.context \in Nat /\ browser.context \in Nat
    BY <1>1, <2>4 DEF Kept, PanelKept, Browser
  <2>7. browser.shown \subseteq new.shown
    BY <2>5
  <2>8. new.context >= browser.context
    BY <2>4, <2>6
  <2> QED
    BY <2>2, <2>3, <2>5, <2>7, <2>8
<1>4. CASE \E c \in calls : ReceiveEarlier(c) /\ Current(c)
  <2>1. PICK c \in calls : ReceiveEarlier(c) /\ Current(c)
    BY <1>4
  <2>2. browser' = Earlied(browser, c) /\ UNCHANGED <<run, timeline>>
    BY <2>1 DEF ReceiveEarlier, Earlied
  <2>3. c \in Call
    BY <1>1 DEF Typed, TypeOK
  <2>4. PICK new : new = Earlied(browser, c)
    OBVIOUS
  <2>5. EarlierSets(new, browser, c)
    BY <1>1, <2>3, <2>4, EarlierSet
  <2>6. /\ new.agent = browser.agent /\ new.selection = browser.selection
        /\ browser.shown \subseteq new.shown /\ new.context = browser.context
    BY <2>5 DEF EarlierSets
  <2>7. browser.context >= browser.context
    BY <1>1 DEF Browser
  <2> QED
    BY <2>2, <2>4, <2>6, <2>7
<1>5. CASE \/ \E loading : browser' = [browser EXCEPT !.loading = loading]
           \/ \E loading, resetting : browser' = [browser EXCEPT !.loading = loading, !.resetting = resetting]
           \/ \E resetting : browser' = [browser EXCEPT !.resetting = resetting]
  BY <1>1, <1>5 DEF Browser
<1>6. CASE ReceiveReset
  BY <1>1, <1>6 DEF ReceiveReset, Browser
<1>7. CASE \E a \in Agent : SelectAgent(a)
  BY <1>7 DEF SelectAgent, Opened
<1>8. CASE Receive
  BY <1>2, <1>3, <1>4, <1>8 DEF Receive, ReceiveRefresh, ReceiveEarlier
<1>9. CASE LoadEarlier \/ BrowserResets
  BY <1>5, <1>9 DEF LoadEarlier, BrowserResets
<1>10. CASE RequestFails \/ Restart
  <2>1. \A failed, reset : Failed(failed, reset) =>
           \E loading, resetting : browser' = [browser EXCEPT !.loading = loading, !.resetting = resetting]
    BY DEF Failed
  <2>2. \E failed, reset : Failed(failed, reset)
    <3>1. CASE RequestFails
      BY <3>1 DEF RequestFails
    <3>2. CASE Restart
      BY <3>2 DEF Restart
    <3> QED
      BY <1>10, <3>1, <3>2
  <2> QED
    BY <1>5, <2>1, <2>2
<1>11. CASE HandlerStep \/ Refresh
  <2>1. browser' = browser
    BY <1>11, HandlerWrites, Zenon DEF Refresh
  <2> QED
    BY <1>2, <2>1
<1>12. CASE \/ \E a \in Agent, source \in bound.source : CreateRun(a, source)
            \/ \E t \in TaskId : StartCollaboration(t)
            \/ \E a, b \in Agent : EnqueueTask(a, b)
  BY <1>2, <1>12 DEF CreateRun, StartCollaboration, EnqueueTask
<1>13. CASE \E r \in RunId : RunStep(r)
  BY <1>2, <1>13 DEF RunStep, WorkerAppends, WorkerFinishes, StoreFails, CancelRelay, RelayRun, RelayPolls,
     AppendWorkerEvent, StopRun, RelayFinishes
<1>14. CASE \/ ReconcileCollaborationTasks \/ SyncCollaborationTimeline \/ \E a \in Agent : OtherResets(a)
  BY <1>2, <1>14 DEF ReconcileCollaborationTasks, SyncCollaborationTimeline, OtherResets
<1>15. CASE UNCHANGED vars
  BY <1>2, <1>15 DEF vars
<1> QED
  BY <1>6, <1>7, <1>8, <1>9, <1>10, <1>11, <1>12, <1>13, <1>14, <1>15 DEF Step, Next, RelayStep, RunStep

\* The context named with the next message is never an older one again because an answer
\* begun before New chat arrives late: such an answer has an older revision, and one that
\* counts was begun behind the context the panel has.
THEOREM ContextNotRestored == Spec => ContextIsNeverRestored
<1>1. ASSUME Inv, [Next]_vars
      PROVE  browser'.selection = browser.selection /\ browser'.revision = browser.revision
               => browser'.context >= browser.context
  <2>1. Step
    BY <1>1 DEF Step
  <2>2. browser.context \in Nat /\ browser.revision \in Nat /\ browser.selection \in Nat
    BY <1>1 DEF Inv, Typed, TypeOK, Browser
  <2> QED
    BY <1>1, <2>1, <2>2, ScreenMoves
<1>2. Inv /\ [Next]_vars =>
        [browser'.selection = browser.selection /\ browser'.revision = browser.revision
           => browser'.context >= browser.context]_vars
  BY <1>1
<1> QED
  BY <1>2, Invariant, PTL DEF Spec, ContextIsNeverRestored

\* What the panel shows is an unbroken stretch of the agent's rows, which are only added
\* behind all others: the panel implements Feed.
THEOREM PanelIsFeed == Spec => FeedSpec
<1>1. Init => Feed!Init
  <2>1. SUFFICES ASSUME Init PROVE Feed!Init
    OBVIOUS
  <2>2. Visible(browser.agent) = {}
    BY <2>1 DEF Init, Visible, Position
  <2>3. browser.shown = {} /\ browser.selection = 0
    BY <2>1 DEF Init, Opened
  <2> QED
    BY <2>2, <2>3 DEF Feed!Init
<1>2. Inv /\ Inv' /\ [Next]_vars
        => [Feed!Next]_<<Visible(browser.agent), browser.shown, browser.selection>>
  <2>1. SUFFICES ASSUME Inv, Inv', [Next]_vars
                 PROVE  \/ Feed!Append \/ Feed!Show \/ Feed!Select
                        \/ UNCHANGED <<Visible(browser.agent), browser.shown, browser.selection>>
    BY DEF Feed!Next
  <2>2. Step /\ RunsGrow /\ TimelineGrows /\ Typed
    BY <2>1, RunsMove, StoryKept DEF Inv, Step
  <2>3. PICK a : a = browser.agent
    OBVIOUS
  <2>4. Grown(Visible(a), Visible(a)', Len(timeline)) /\ Len(timeline) \in Nat
    BY <2>2, VisibleGrows, Rows DEF Typed
  <2>5. CASE browser'.agent = browser.agent /\ browser'.selection = browser.selection /\ browser'.shown = browser.shown
    <3>1. Visible(browser.agent)' = Visible(a)'
      BY <2>3, <2>5 DEF Visible
    <3>2. Visible(a) \subseteq Visible(a)' /\ \A z \in Visible(a)' \ Visible(a) : \A old \in Visible(a) : old < z
      BY <2>4 DEF Grown
    <3>3. Visible(a) = Visible(browser.agent)
      BY <2>3
    <3> QED
      BY <2>5, <3>1, <3>2, <3>3 DEF Feed!Append
  <2>6. CASE /\ browser'.agent = browser.agent /\ browser'.selection = browser.selection
             /\ browser.shown \subseteq browser'.shown /\ UNCHANGED <<run, timeline>>
    <3>1. Visible(browser.agent)' = Visible(browser.agent)
      BY <2>6 DEF Visible, Position, Scheduled
    <3>2. Stretch(browser', Seen'[browser'.agent]) /\ browser' \in Browser
      BY <2>1 DEF Inv, Watched, Kept, PanelKept
    <3>3. Seen'[browser'.agent] = Visible(browser.agent)'
      BY <3>2 DEF Seen, Browser
    <3> QED
      BY <2>6, <3>1, <3>2, <3>3 DEF Stretch, Feed!Show, Feed!Unbroken
  <2>7. CASE browser'.selection = browser.selection + 1 /\ browser'.shown = {}
    <3>1. Visible(browser.agent)' \subseteq Nat
      <4>1. Position' \subseteq Nat
        BY <2>2, PositionsGrow
      <4> QED
        BY <4>1 DEF Visible
    <3> QED
      BY <2>7, <3>1 DEF Feed!Select
  <2> QED
    BY <2>1, <2>2, <2>5, <2>6, <2>7, ScreenMoves
<1> QED
  BY <1>1, <1>2, Invariant, PTL DEF Spec, FeedSpec, Feed!Spec
=============================================================================
