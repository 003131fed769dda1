----------------------- MODULE StoreTransactionsProofs -----------------------
(***************************************************************************)
(* What the transactions of StoreTransactions keep true for any requests,  *)
(* replicas, pools, images and faults: connections go back clean, numbers  *)
(* ascend with ids, creates do not collide, scripts are committed once and *)
(* an image as a whole.                                                    *)
(*                                                                         *)
(* The inductive invariant TransactionsInv says of the table that below    *)
(* every row there are, without a gap, rows that are committed or of the   *)
(* same transaction (RowsOK): that is why a create, which reads committed  *)
(* rows only, and a script, which inserts beside the lock, place their     *)
(* rows at the top.  It says of every actor at work what its locals are    *)
(* worth (CreatorOK, RunnerOK) whatever the others do meanwhile.           *)
(***************************************************************************)
EXTENDS StoreTransactions, TLAPS, NaturalsInduction, WellFoundedInduction

Place == Statements \cup {"new", "commit", "release", "end"}

Locals == [at : Place, conn : Conn \cup {None}, no : Nat \cup {None}, id : Nat \cup {None},
           err : {"none", "create", "seed"}]

RowSet == [id : Nat, no : Nat \ {0}, owner : Creator \cup Runner \cup {None},
           by : {"create", "seed"}, deleted : BOOLEAN]

VersionRow == [v : Version, owner : Runner \cup {None}]

RunnerLocals == [at : {"new", "script", "commit", "end", "failed"}, todo : SUBSET Version,
                 seeds : Seq(Nat \ {0}), done : SUBSET Version]

TypeInv ==
    /\ rows \in SUBSET RowSet
    /\ nextId \in Nat
    /\ lock \in Creator \cup {None}
    /\ txn \in [Conn -> {"idle", "open", "aborted"}]
    /\ req \in [Request -> Locals]
    /\ versions \in SUBSET VersionRow
    /\ mig \in [Runner -> RunnerLocals]
    /\ ran \in [Version -> Nat]

\* A request has a connection while it is served, or has lost it to a cancellation, and
\* it has it for itself; a connection nobody has is idle.
Held(l) == (l.at = "new" => l.conn = None) /\ (l.at \notin {"new", "end"} => l.conn # None)

PoolInv ==
    /\ \A r \in Request : Held(req[r])
    /\ \A r, q \in Request : r # q /\ req[r].conn # None => req[r].conn # req[q].conn
    /\ \A c \in Conn : (\A r \in Request : req[r].conn # c) => txn[c] = "idle"

\* Transaction t of the rows R can see number k.
PlacedIn(R, k, t) == \E y \in R : y.no = k /\ y.owner \in {None, t}

\* The table: no gap below a row, one row per number, ids in the order of the numbers.
RowsOK(R) ==
    /\ \A x \in R : \A k \in 1..(x.no - 1) : PlacedIn(R, k, x.owner)
    /\ \A x, y \in R : x.no = y.no => x = y
    /\ \A x, y \in R : x.no < y.no => x.id < y.id

\* An uncommitted row of a create belongs to the one that has the lock.
OwnersInv ==
    \A x \in rows :
        /\ x.id < nextId
        /\ x.owner \in Creator => lock = x.owner /\ req[x.owner].at \in {"commit", "release"}
        /\ x.by = "create" => x.owner \in Creator \cup {None}

\* Create r with locals l: from the read on it has the lock; the number it has read is
\* above every number of a create, and all numbers below it are committed, with smaller
\* ids than the one it has drawn.
CreatorOK(r, l, R, n, lk) ==
    /\ l.at \in {"new", "end", "lock"} => lk # r
    /\ l.at \in {"read", "insert", "place", "commit"} => lk = r
    /\ l.at \in {"insert", "place"} =>
         /\ l.no \in Nat \ {0}
         /\ \A k \in 1..(l.no - 1) : PlacedIn(R, k, None)
         /\ \A x \in R : x.by = "create" => x.no < l.no
    /\ l.at = "place" =>
         /\ l.id \in Nat /\ l.id < n
         /\ \A x \in R : x.no < l.no => x.id < l.id
    /\ l.err # "create"

\* The numbers of script v are among the rows R that t can see.
SeededIn(R, v, t) == \A i \in 1..Len(Seeds[v]) : PlacedIn(R, Seeds[v][i], t)

\* What is left of script v: the numbers s, with nothing missing below them.
SeedingOK(R, v, s, t) ==
    /\ \A i \in 1..Len(s) : \A k \in 1..(s[i] - 1) :
         PlacedIn(R, k, t) \/ \E j \in 1..(i - 1) : s[j] = k
    /\ \A i \in 1..Len(Seeds[v]) :
         PlacedIn(R, Seeds[v][i], t) \/ \E j \in 1..Len(s) : s[j] = Seeds[v][i]

\* Runner m with locals l: what is neither to do nor done was applied before.
RunnerOK(m, l, R, applied) ==
    /\ l.at \in {"new", "end", "failed"} => l.done = {}
    /\ l.at \in {"script", "commit"} =>
         /\ Scripts[m] \subseteq l.todo \cup l.done \cup applied
         /\ l.todo \cup l.done \subseteq Scripts[m]
         /\ \A v \in l.done : SeededIn(R, v, m)
    /\ l.at = "commit" => l.todo = {}
    /\ l.at = "script" => l.todo # {} /\ SeedingOK(R, First(l.todo), l.seeds, m)

\* schema_versions: one row per version, owned by the runner that has done the script;
\* what is applied is an image, ran once, with its targets committed.
VersionsInv ==
    /\ \A x, y \in versions : x.v = y.v => x = y
    /\ \A m \in Runner : \A v \in Version :
         v \in mig[m].done <=> [v |-> v, owner |-> m] \in versions
    /\ \A v \in Version : ran[v] = IF v \in Applied THEN 1 ELSE 0
    /\ \A v \in Applied : \A w \in 1..v : w \in Applied
    /\ \A v \in Applied : SeededIn(rows, v, None)

TransactionsInv ==
    /\ TypeInv
    /\ PoolInv
    /\ RowsOK(rows)
    /\ OwnersInv
    /\ \A r \in Creator : CreatorOK(r, req[r], rows, nextId, lock)
    /\ \A m \in Runner : RunnerOK(m, mig[m], rows, Applied)
    /\ VersionsInv

-----------------------------------------------------------------------------
(***************************************************************************)
(* Constants, and the choices of the code that need a least or a largest   *)
(* element.                                                                *)
(***************************************************************************)
LEMMA Constants ==
    /\ None \notin Nat /\ None \notin Request /\ None \notin Runner /\ None \notin Conn
    /\ None \notin Creator /\ Creator \subseteq Request
    /\ Request \cap Runner = {} /\ Creator \cap Runner = {} /\ Creator \cap Deleter = {}
    /\ Len(Seeds) \in Nat /\ Version = 1..Len(Seeds)
  BY TransactionsAssumption, ImagesAssumption DEF Request, Conn, Version

\* An image is all scripts up to one.
LEMMA ImageIsPrefix ==
    ASSUME NEW m \in Runner
    PROVE  /\ Scripts[m] \subseteq Version
           /\ \A v \in Scripts[m] : \A w \in 1..v : w \in Scripts[m]
<1>1. PICK n \in 0..Len(Seeds) : Scripts[m] = 1..n BY ImagesAssumption
<1> QED BY <1>1, Constants

LEMMA SeedsType ==
    ASSUME NEW v \in Version
    PROVE  /\ Seeds[v] \in Seq(Nat \ {0}) /\ Len(Seeds[v]) \in Nat
           /\ \A i \in 1..Len(Seeds[v]) : Seeds[v][i] \in Nat \ {0}
<1>1. Seeds[v] \in Seq(Nat \ {0}) BY ImagesAssumption DEF Version
<1> HIDE DEF Version
<1> QED BY <1>1

LEMMA LeastExists ==
    ASSUME NEW S \in SUBSET Nat, S # {}
    PROVE  \E x \in S : \A y \in S : x <= y
<1>1. IsWellFoundedOn(OpToRel(<, Nat), Nat) BY NatLessThanWellFounded
<1>2. \E x \in S : \A y \in S : ~(<<y, x>> \in OpToRel(<, Nat)) BY <1>1, WFMin
<1>3. PICK x \in S : \A y \in S : ~(<<y, x>> \in OpToRel(<, Nat)) BY <1>2
<1>4. \A y \in S : ~(y < x)
  <2> SUFFICES ASSUME NEW y \in S, y < x PROVE FALSE OBVIOUS
  <2>1. y \in Nat /\ x \in Nat OBVIOUS
  <2>2. <<y, x>> \in OpToRel(<, Nat) BY <2>1, Zenon DEF OpToRel
  <2> QED BY <1>3, <2>2
<1> QED BY <1>4

LEMMA LargestExists ==
    ASSUME NEW S \in SUBSET Nat, S # {}, NEW b \in Nat, \A x \in S : x <= b
    PROVE  \E x \in S : \A y \in S : y <= x
<1> DEFINE T == {b - x : x \in S}
<1>1. T \in SUBSET Nat OBVIOUS
<1>2. T # {} OBVIOUS
<1> HIDE DEF T
<1>3. PICK z \in T : \A y \in T : z <= y BY <1>1, <1>2, LeastExists
<1> USE DEF T
<1>4. PICK x \in S : z = b - x OBVIOUS
<1>5. \A y \in S : b - x <= b - y BY <1>3, <1>4
<1> QED BY <1>5

\* The script the loop of migrate is at.
LEMMA FirstIsLeast ==
    ASSUME NEW T \in SUBSET Version, T # {}
    PROVE  First(T) \in T /\ \A w \in T : First(T) <= w
<1>1. T \in SUBSET Nat BY Constants
<1>2. \E v \in T : \A w \in T : v <= w BY <1>1, LeastExists
<1> QED BY <1>2 DEF First

\* MAX(version), with 0 for an empty table.
LEMMA CurrentIsLargest ==
    ASSUME TypeInv
    PROVE  /\ Current \in Nat
           /\ Applied \in SUBSET Version
           /\ Applied # {} => Current \in Applied
           /\ \A v \in Applied : v <= Current
<1>1. Applied \in SUBSET Version BY DEF TypeInv, Applied, VersionRow
<1>2. CASE Applied = {} BY <1>2 DEF Current
<1>3. CASE Applied # {}
  <2>1. Applied \in SUBSET Nat /\ \A v \in Applied : v <= Len(Seeds) BY <1>1, Constants
  <2>2. \E v \in Applied : \A w \in Applied : w <= v
    BY <1>3, <2>1, Constants, LargestExists
  <2> QED BY <1>1, <1>3, <2>1, <2>2 DEF Current
<1> QED BY <1>2, <1>3

\* ORDER BY id DESC LIMIT 1 finds a row of the largest id.
LEMMA LatestIsCommitted ==
    ASSUME TypeInv, OwnersInv, Committed # {}
    PROVE  Latest \in Committed /\ \A y \in Committed : y.id <= Latest.id
<1> DEFINE S == {x.id : x \in Committed}
<1>1. Committed \subseteq RowSet /\ \A x \in Committed : x.id \in Nat /\ x.id < nextId
  BY DEF Committed, TypeInv, OwnersInv, RowSet
<1>2. S \in SUBSET Nat /\ S # {} /\ \A i \in S : i <= nextId BY <1>1 DEF TypeInv
<1>3. nextId \in Nat BY DEF TypeInv
<1> HIDE DEF S
<1>4. PICK i \in S : \A j \in S : j <= i BY <1>2, <1>3, LargestExists
<1>5. \E x \in Committed : \A y \in Committed : y.id <= x.id BY <1>4 DEF S
<1> QED BY <1>5 DEF Latest

-----------------------------------------------------------------------------
(***************************************************************************)
(* What the end of a transaction does to the table.                        *)
(***************************************************************************)
Transaction == Creator \cup Runner \cup {None}

\* The rows R2 are left of R when t ends, well or not: nobody else's are touched.
Settled(R, R2, t) ==
    /\ R2 \in SUBSET RowSet
    /\ \A x \in R2 : \E y \in R :
         /\ y.no = x.no /\ y.id = x.id /\ y.by = x.by
         /\ x.owner = y.owner \/ (y.owner = t /\ x.owner = None)
    /\ \A k \in Nat, s \in Transaction : s # t /\ PlacedIn(R, k, s) => PlacedIn(R2, k, s)
    /\ RowsOK(R2)

LEMMA RowFields ==
    ASSUME NEW x \in RowSet
    PROVE  /\ x.id \in Nat /\ x.no \in Nat \ {0} /\ x.owner \in Transaction
           /\ x.by \in {"create", "seed"} /\ x.deleted \in BOOLEAN
  BY DEF RowSet, Transaction

LEMMA SameIsSettled ==
    ASSUME TypeInv, RowsOK(rows), NEW t
    PROVE  Settled(rows, rows, t)
  BY DEF Settled, TypeInv

LEMMA RollbackSettles ==
    ASSUME TypeInv, RowsOK(rows), NEW t, t # None
    PROVE  Settled(rows, RollbackRows(t), t) /\ \A x \in RollbackRows(t) : x.owner # t
<1> DEFINE R2 == RollbackRows(t)
<1>1. R2 \subseteq rows /\ rows \subseteq RowSet /\ \A x \in rows : x \in R2 <=> x.owner # t
  BY DEF RollbackRows, TypeInv
<1> HIDE DEF R2
<1>2. \A k, s : s # t /\ PlacedIn(rows, k, s) => PlacedIn(R2, k, s)
  BY <1>1 DEF PlacedIn
<1>3. RowsOK(R2)
  <2>1. \A x \in R2 : \A k \in 1..(x.no - 1) : PlacedIn(R2, k, x.owner)
    BY <1>1, <1>2 DEF RowsOK
  <2>2. \A x, y \in R2 : x.no = y.no => x = y BY <1>1 DEF RowsOK
  <2>3. \A x, y \in R2 : x.no < y.no => x.id < y.id BY <1>1 DEF RowsOK
  <2> QED BY <2>1, <2>2, <2>3 DEF RowsOK
<1>4. Settled(rows, R2, t) BY <1>1, <1>2, <1>3 DEF Settled
<1> QED BY <1>1, <1>4 DEF R2

\* A row with its owner set aside, or deleted.
LEMMA RowUpdates ==
    ASSUME NEW x \in RowSet
    PROVE  /\ [x EXCEPT !.owner = None] \in RowSet
           /\ [x EXCEPT !.owner = None].owner = None
           /\ [x EXCEPT !.owner = None].no = x.no
           /\ [x EXCEPT !.owner = None].id = x.id
           /\ [x EXCEPT !.owner = None].by = x.by
           /\ [x EXCEPT !.deleted = TRUE] \in RowSet
           /\ [x EXCEPT !.deleted = TRUE].owner = x.owner
           /\ [x EXCEPT !.deleted = TRUE].no = x.no
           /\ [x EXCEPT !.deleted = TRUE].id = x.id
           /\ [x EXCEPT !.deleted = TRUE].by = x.by
  BY DEF RowSet

LEMMA CommitSettles ==
    ASSUME TypeInv, RowsOK(rows), NEW t, t # None
    PROVE  /\ Settled(rows, CommitRows(t), t) /\ \A x \in CommitRows(t) : x.owner # t
           /\ \A k \in Nat : PlacedIn(rows, k, t) => PlacedIn(CommitRows(t), k, None)
<1> DEFINE F(x) == IF x.owner = t THEN [x EXCEPT !.owner = None] ELSE x
           R2 == CommitRows(t)
<1>1. rows \subseteq RowSet BY DEF TypeInv
<1>2. \A x \in rows : /\ F(x) \in RowSet /\ F(x).no = x.no /\ F(x).id = x.id /\ F(x).by = x.by
                      /\ F(x).owner = IF x.owner = t THEN None ELSE x.owner
  BY <1>1, RowUpdates
<1>3. R2 = {F(x) : x \in rows} BY DEF CommitRows
<1> HIDE DEF F, R2
<1>4. \A x \in rows : F(x) \in R2 BY <1>3
<1>5. \A y \in R2 : \E x \in rows : y = F(x) BY <1>3
<1>6. \A k, s : s # t /\ PlacedIn(rows, k, s) => PlacedIn(R2, k, s)
  BY <1>2, <1>4 DEF PlacedIn
<1>7. \A k : PlacedIn(rows, k, t) => PlacedIn(R2, k, None)
  BY <1>2, <1>4 DEF PlacedIn
<1>8. \A y \in R2 : \A k \in 1..(y.no - 1) : PlacedIn(R2, k, y.owner)
  <2> SUFFICES ASSUME NEW y \in R2, NEW k \in 1..(y.no - 1) PROVE PlacedIn(R2, k, y.owner)
    OBVIOUS
  <2>1. PICK x \in rows : y = F(x) BY <1>5
  <2>2. PlacedIn(rows, k, x.owner) BY <1>2, <2>1 DEF RowsOK
  <2>3. CASE x.owner = t BY <1>2, <1>7, <2>1, <2>2, <2>3
  <2>4. CASE x.owner # t BY <1>2, <1>6, <2>1, <2>2, <2>4
  <2> QED BY <2>3, <2>4
<1>9. \A y, z \in R2 : y.no = z.no => y = z BY <1>2, <1>5 DEF RowsOK
<1>10. \A y, z \in R2 : y.no < z.no => y.id < z.id BY <1>2, <1>5 DEF RowsOK
<1>11. RowsOK(R2) BY <1>8, <1>9, <1>10 DEF RowsOK
<1>12. \A y \in R2 : \E x \in rows :
         /\ x.no = y.no /\ x.id = y.id /\ x.by = y.by
         /\ y.owner = x.owner \/ (x.owner = t /\ y.owner = None)
  BY <1>2, <1>5
<1>13. R2 \in SUBSET RowSet BY <1>2, <1>5
<1>14. Settled(rows, R2, t) BY <1>6, <1>11, <1>12, <1>13 DEF Settled
<1>15. \A y \in R2 : y.owner # t BY <1>2, <1>5
<1> QED BY <1>7, <1>14, <1>15 DEF R2

LEMMA DeleteSettles ==
    ASSUME TypeInv, RowsOK(rows), NEW id, NEW t, t \notin Transaction
    PROVE  Settled(rows, DeleteRow(id), t) /\ \A x \in DeleteRow(id) : x.owner # t
<1> DEFINE F(x) == IF x.id = id THEN [x EXCEPT !.deleted = TRUE] ELSE x
           R2 == DeleteRow(id)
<1>1. rows \subseteq RowSet BY DEF TypeInv
<1>2. \A x \in rows : /\ F(x) \in RowSet /\ F(x).no = x.no /\ F(x).id = x.id /\ F(x).by = x.by
                      /\ F(x).owner = x.owner
  BY <1>1, RowUpdates
<1>3. R2 = {F(x) : x \in rows} BY DEF DeleteRow
<1> HIDE DEF F, R2
<1>4. \A x \in rows : F(x) \in R2 BY <1>3
<1>5. \A y \in R2 : \E x \in rows : y = F(x) BY <1>3
<1>6. \A k, s : PlacedIn(rows, k, s) => PlacedIn(R2, k, s) BY <1>2, <1>4 DEF PlacedIn
<1>7. \A y \in R2 : \A k \in 1..(y.no - 1) : PlacedIn(R2, k, y.owner)
  BY <1>2, <1>5, <1>6 DEF RowsOK
<1>8. \A y, z \in R2 : y.no = z.no => y = z BY <1>2, <1>5 DEF RowsOK
<1>9. \A y, z \in R2 : y.no < z.no => y.id < z.id BY <1>2, <1>5 DEF RowsOK
<1>10. RowsOK(R2) BY <1>7, <1>8, <1>9 DEF RowsOK
<1>11. \A y \in R2 : \E x \in rows :
         x.no = y.no /\ x.id = y.id /\ x.by = y.by /\ y.owner = x.owner
  BY <1>2, <1>5
<1>12. R2 \in SUBSET RowSet BY <1>2, <1>5
<1>13. Settled(rows, R2, t) BY <1>6, <1>10, <1>11, <1>12 DEF Settled
<1>14. \A y \in R2 : y.owner # t BY <1>12, RowFields
<1> QED BY <1>13, <1>14 DEF R2

\* A row of t whose number is free and has nothing missing below it goes on top.
LEMMA RowOnTop ==
    ASSUME TypeInv, RowsOK(rows), OwnersInv, NEW x \in RowSet, Taken(x.no) = {},
           \A k \in 1..(x.no - 1) : PlacedIn(rows, k, x.owner),
           \A y \in rows : y.no < x.no => y.id < x.id
    PROVE  /\ RowsOK(rows \cup {x}) /\ rows \cup {x} \in SUBSET RowSet
           /\ \A y \in rows : y.no < x.no
<1> DEFINE R2 == rows \cup {x}
<1>1. rows \subseteq RowSet /\ \A y \in rows : y.no \in Nat /\ y.no # x.no
  BY RowFields DEF TypeInv, Taken
<1>2. x.no \in Nat \ {0} BY RowFields
<1>3. \A y \in rows : y.no < x.no
  <2> SUFFICES ASSUME NEW y \in rows, ~(y.no < x.no) PROVE FALSE OBVIOUS
  <2>1. x.no \in 1..(y.no - 1) BY <1>1, <1>2
  <2>2. PlacedIn(rows, x.no, y.owner) BY <2>1 DEF RowsOK
  <2> QED BY <1>1, <2>2 DEF PlacedIn
<1>4. \A k, s : PlacedIn(rows, k, s) => PlacedIn(R2, k, s) BY DEF PlacedIn
<1> HIDE DEF R2
<1>5. \A y \in R2 : y \in rows \/ y = x BY DEF R2
<1>6. \A y \in R2 : \A k \in 1..(y.no - 1) : PlacedIn(R2, k, y.owner)
  BY <1>4, <1>5 DEF RowsOK
<1>7. \A y, z \in R2 : y.no = z.no => y = z BY <1>1, <1>5 DEF RowsOK
<1>8. \A y, z \in R2 : y.no < z.no => y.id < z.id BY <1>1, <1>2, <1>3, <1>5 DEF RowsOK
<1>9. RowsOK(R2) BY <1>6, <1>7, <1>8 DEF RowsOK
<1> QED BY <1>1, <1>3, <1>9 DEF R2

-----------------------------------------------------------------------------
(***************************************************************************)
(* What the locals of an actor are worth does not depend on the others.    *)
(***************************************************************************)
LEMMA LocalFields ==
    ASSUME NEW l \in Locals
    PROVE  /\ l.at \in Place /\ l.conn \in Conn \cup {None} /\ l.no \in Nat \cup {None}
           /\ l.id \in Nat \cup {None} /\ l.err \in {"none", "create", "seed"}
  BY DEF Locals

LEMMA RunnerFields ==
    ASSUME NEW l \in RunnerLocals
    PROVE  /\ l.at \in {"new", "script", "commit", "end", "failed"} /\ l.todo \in SUBSET Version
           /\ l.seeds \in Seq(Nat \ {0}) /\ l.done \in SUBSET Version
  BY DEF RunnerLocals

\* Create r beside the end of transaction t.
LEMMA CreatorKeeps ==
    ASSUME NEW R, NEW R2, NEW t, Settled(R, R2, t), t # None, NEW r \in Creator, NEW l \in Locals,
           NEW n \in Nat, NEW n2 \in Nat, n <= n2, NEW lk, NEW lk2, lk = r <=> lk2 = r,
           CreatorOK(r, l, R, n, lk)
    PROVE  CreatorOK(r, l, R2, n2, lk2)
<1>1. l.at \in {"new", "end", "lock"} => lk2 # r BY DEF CreatorOK
<1>2. l.at \in {"read", "insert", "place", "commit"} => lk2 = r BY DEF CreatorOK
<1>3. ASSUME l.at \in {"insert", "place"}
      PROVE  /\ l.no \in Nat \ {0}
             /\ \A k \in 1..(l.no - 1) : PlacedIn(R2, k, None)
             /\ \A x \in R2 : x.by = "create" => x.no < l.no
  <2>1. l.no \in Nat \ {0} BY <1>3 DEF CreatorOK
  <2>2. \A k \in 1..(l.no - 1) : PlacedIn(R, k, None) BY <1>3 DEF CreatorOK
  <2>3. \A k \in 1..(l.no - 1) : PlacedIn(R2, k, None)
    BY <2>1, <2>2 DEF Settled, Transaction
  <2>4. \A x \in R2 : x.by = "create" => x.no < l.no
    BY <1>3 DEF CreatorOK, Settled
  <2> QED BY <2>1, <2>3, <2>4
<1>4. ASSUME l.at = "place"
      PROVE  l.id \in Nat /\ l.id < n2 /\ \A x \in R2 : x.no < l.no => x.id < l.id
  <2>1. l.id \in Nat /\ l.id < n BY <1>4 DEF CreatorOK
  <2>2. \A x \in R2 : x.no < l.no => x.id < l.id BY <1>4 DEF CreatorOK, Settled
  <2> QED BY <2>1, <2>2
<1>5. l.err # "create" BY DEF CreatorOK
<1> QED BY <1>1, <1>2, <1>3, <1>4, <1>5 DEF CreatorOK

\* Create r beside a new row: it is not of a create, or r has not read yet.
LEMMA CreatorBeside ==
    ASSUME NEW R \in SUBSET RowSet, NEW x \in RowSet, \A y \in R : y.no # x.no,
           NEW r \in Creator, NEW l \in Locals, NEW n \in Nat, NEW n2 \in Nat, n <= n2, NEW lk,
           x.by = "create" => lk # r,
           CreatorOK(r, l, R, n, lk)
    PROVE  CreatorOK(r, l, R \cup {x}, n2, lk)
<1>1. x.no \in Nat \ {0} /\ x.by \in {"create", "seed"} BY RowFields
<1>2. \A k, s : PlacedIn(R, k, s) => PlacedIn(R \cup {x}, k, s) BY DEF PlacedIn
<1>3. ASSUME l.at \in {"insert", "place"}
      PROVE  /\ l.no \in Nat \ {0}
             /\ \A k \in 1..(l.no - 1) : PlacedIn(R \cup {x}, k, None)
             /\ \A y \in R \cup {x} : y.by = "create" => y.no < l.no
             /\ ~(x.no < l.no)
  <2>1. l.no \in Nat \ {0} /\ lk = r BY <1>3 DEF CreatorOK
  <2>2. \A k \in 1..(l.no - 1) : PlacedIn(R, k, None) BY <1>3 DEF CreatorOK
  <2>3. \A y \in R \cup {x} : y.by = "create" => y.no < l.no BY <1>3, <2>1 DEF CreatorOK
  <2>4. ~(x.no < l.no)
    <3> SUFFICES ASSUME x.no < l.no PROVE FALSE OBVIOUS
    <3>1. x.no \in 1..(l.no - 1) BY <1>1, <2>1
    <3> QED BY <2>2, <3>1 DEF PlacedIn
  <2> QED BY <1>2, <2>1, <2>2, <2>3, <2>4
<1>4. ASSUME l.at = "place"
      PROVE  l.id \in Nat /\ l.id < n2 /\ \A y \in R \cup {x} : y.no < l.no => y.id < l.id
  BY <1>3, <1>4 DEF CreatorOK
<1>5. /\ l.at \in {"new", "end", "lock"} => lk # r
      /\ l.at \in {"read", "insert", "place", "commit"} => lk = r
      /\ l.err # "create"
  BY DEF CreatorOK
<1> QED BY <1>3, <1>4, <1>5 DEF CreatorOK

LEMMA SeedsStay ==
    ASSUME NEW R, NEW R2, NEW s,
           \A k \in Nat : PlacedIn(R, k, s) => PlacedIn(R2, k, s)
    PROVE  /\ \A v \in Version : SeededIn(R, v, s) => SeededIn(R2, v, s)
           /\ \A v \in Version, q \in Seq(Nat \ {0}) : SeedingOK(R, v, q, s) => SeedingOK(R2, v, q, s)
<1>1. ASSUME NEW v \in Version, SeededIn(R, v, s) PROVE SeededIn(R2, v, s)
  BY <1>1, SeedsType DEF SeededIn
<1>2. ASSUME NEW v \in Version, NEW q \in Seq(Nat \ {0}), SeedingOK(R, v, q, s)
      PROVE  SeedingOK(R2, v, q, s)
  <2>1. \A i \in 1..Len(q) : q[i] \in Nat OBVIOUS
  <2>2. \A i \in 1..Len(q) : \A k \in 1..(q[i] - 1) :
          PlacedIn(R2, k, s) \/ \E j \in 1..(i - 1) : q[j] = k
    BY <1>2, <2>1 DEF SeedingOK
  <2>3. \A i \in 1..Len(Seeds[v]) :
          PlacedIn(R2, Seeds[v][i], s) \/ \E j \in 1..Len(q) : q[j] = Seeds[v][i]
    BY <1>2, SeedsType DEF SeedingOK
  <2> QED BY <2>2, <2>3 DEF SeedingOK
<1> QED BY <1>1, <1>2

\* Runner m beside a step that takes nothing from what it sees.
LEMMA RunnerKeeps ==
    ASSUME NEW R, NEW R2, NEW m \in Runner, NEW l \in RunnerLocals,
           \A k \in Nat : PlacedIn(R, k, m) => PlacedIn(R2, k, m),
           NEW a, NEW a2, a \subseteq a2,
           RunnerOK(m, l, R, a)
    PROVE  RunnerOK(m, l, R2, a2)
<1>1. /\ l.todo \in SUBSET Version /\ l.done \in SUBSET Version /\ l.seeds \in Seq(Nat \ {0})
  BY RunnerFields
<1>2. \A v \in Version : SeededIn(R, v, m) => SeededIn(R2, v, m) BY SeedsStay
<1>3. \A v \in Version, q \in Seq(Nat \ {0}) : SeedingOK(R, v, q, m) => SeedingOK(R2, v, q, m)
  BY SeedsStay
<1>4. l.at \in {"new", "end", "failed"} => l.done = {} BY DEF RunnerOK
<1>5. l.at \in {"script", "commit"} =>
         /\ Scripts[m] \subseteq l.todo \cup l.done \cup a2
         /\ l.todo \cup l.done \subseteq Scripts[m]
         /\ \A v \in l.done : SeededIn(R2, v, m)
  BY <1>1, <1>2 DEF RunnerOK
<1>6. l.at = "commit" => l.todo = {} BY DEF RunnerOK
<1>7. ASSUME l.at = "script" PROVE l.todo # {} /\ SeedingOK(R2, First(l.todo), l.seeds, m)
  <2>1. l.todo # {} /\ SeedingOK(R, First(l.todo), l.seeds, m) BY <1>7 DEF RunnerOK
  <2>2. First(l.todo) \in Version BY <1>1, <2>1, FirstIsLeast
  <2> QED BY <1>1, <1>3, <2>1, <2>2
<1> QED BY <1>4, <1>5, <1>6, <1>7 DEF RunnerOK

-----------------------------------------------------------------------------
(***************************************************************************)
(* Steps of a request.                                                     *)
(***************************************************************************)
\* What a step of request r leaves to everybody else.
LEMMA ServedBeside ==
    ASSUME TransactionsInv, NEW r \in Request, Settled(rows, rows', r),
           nextId' \in Nat, nextId <= nextId',
           \A q \in Creator : q # r => req'[q] = req[q] /\ (lock = q <=> lock' = q),
           \A x \in rows' : x.owner = r => lock' = r /\ req'[r].at \in {"commit", "release"},
           UNCHANGED <<versions, mig, ran>>
    PROVE  /\ \A q \in Creator : q # r => CreatorOK(q, req'[q], rows', nextId', lock')
           /\ \A m \in Runner : RunnerOK(m, mig'[m], rows', Applied')
           /\ VersionsInv' /\ OwnersInv' /\ RowsOK(rows')
<1>1. r # None /\ r \notin Runner /\ None \in Transaction /\ Runner \subseteq Transaction
      /\ Creator \subseteq Request /\ Creator \cap Runner = {}
  BY Constants DEF Transaction
<1>2. \A q \in Creator : q # r => CreatorOK(q, req'[q], rows', nextId', lock')
  <2> SUFFICES ASSUME NEW q \in Creator, q # r PROVE CreatorOK(q, req'[q], rows', nextId', lock')
    OBVIOUS
  <2>1. req[q] \in Locals /\ req'[q] = req[q] /\ nextId \in Nat BY <1>1 DEF TransactionsInv, TypeInv
  <2>2. CreatorOK(q, req[q], rows, nextId, lock) BY DEF TransactionsInv
  <2>3. lock = q <=> lock' = q OBVIOUS
  <2>4. CreatorOK(q, req[q], rows', nextId', lock')
    BY <1>1, <2>1, <2>2, <2>3, CreatorKeeps
  <2> QED BY <2>1, <2>4
<1>3. Applied' = Applied BY DEF Applied
<1>4. \A s \in Runner \cup {None} : \A k \in Nat : PlacedIn(rows, k, s) => PlacedIn(rows', k, s)
  BY <1>1 DEF Settled
<1>5. \A m \in Runner : RunnerOK(m, mig'[m], rows', Applied')
  <2> SUFFICES ASSUME NEW m \in Runner PROVE RunnerOK(m, mig[m], rows', Applied)
    BY <1>3
  <2>1. mig[m] \in RunnerLocals /\ RunnerOK(m, mig[m], rows, Applied)
    BY DEF TransactionsInv, TypeInv
  <2>2. \A k \in Nat : PlacedIn(rows, k, m) => PlacedIn(rows', k, m) BY <1>4
  <2>3. Applied \subseteq Applied OBVIOUS
  <2> QED BY <2>1, <2>2, <2>3, RunnerKeeps
<1>6. VersionsInv'
  <2>1. \A k \in Nat : PlacedIn(rows, k, None) => PlacedIn(rows', k, None) BY <1>4
  <2>2. \A v \in Version : SeededIn(rows, v, None) => SeededIn(rows', v, None) BY <2>1, SeedsStay
  <2>3. Applied \in SUBSET Version BY CurrentIsLargest DEF TransactionsInv
  <2>4. \A v \in Applied : SeededIn(rows', v, None) BY <2>2, <2>3 DEF TransactionsInv, VersionsInv
  <2> QED BY <1>3, <2>4 DEF TransactionsInv, VersionsInv
<1>7. OwnersInv'
  <2> SUFFICES ASSUME NEW x \in rows'
               PROVE  /\ x.id < nextId'
                      /\ x.owner \in Creator => lock' = x.owner /\ req'[x.owner].at \in {"commit", "release"}
                      /\ x.by = "create" => x.owner \in Creator \cup {None}
    BY DEF OwnersInv
  <2>1. PICK y \in rows : /\ y.no = x.no /\ y.id = x.id /\ y.by = x.by
                          /\ x.owner = y.owner \/ (y.owner = r /\ x.owner = None)
    BY DEF Settled
  <2>2. /\ y.id < nextId
        /\ y.owner \in Creator => lock = y.owner /\ req[y.owner].at \in {"commit", "release"}
        /\ y.by = "create" => y.owner \in Creator \cup {None}
    BY DEF TransactionsInv, OwnersInv
  <2>3. y.id \in Nat /\ nextId \in Nat BY RowFields DEF TransactionsInv, TypeInv
  <2>4. x.id < nextId' BY <2>1, <2>2, <2>3
  <2>5. ASSUME x.owner \in Creator PROVE lock' = x.owner /\ req'[x.owner].at \in {"commit", "release"}
    <3>1. CASE x.owner = r BY <3>1
    <3>2. CASE x.owner # r
      <4>1. y.owner = x.owner BY <1>1, <2>1, <2>5, Constants
      <4> QED BY <2>2, <2>5, <3>2, <4>1
    <3> QED BY <3>1, <3>2
  <2> QED BY <2>1, <2>2, <2>4, <2>5
<1>8. RowsOK(rows') BY DEF Settled
<1> QED BY <1>2, <1>5, <1>6, <1>7, <1>8

\* A request that has its connection and keeps it.
LEMMA PoolStep ==
    ASSUME TransactionsInv, NEW r \in Request,
           \A q \in Request : q # r => req'[q] = req[q],
           req'[r].conn = req[r].conn,
           req[r].at \notin {"new", "end"}, req'[r].at \notin {"new", "end"},
           \A c \in Conn : c # req[r].conn => txn'[c] = txn[c]
    PROVE  PoolInv'
<1>1. \A q \in Request : req'[q].conn = req[q].conn OBVIOUS
<1>2. req[r].conn # None BY DEF TransactionsInv, PoolInv, Held
<1>3. \A q \in Request : Held(req'[q])
  BY <1>1, <1>2 DEF TransactionsInv, PoolInv, Held
<1>4. \A p, q \in Request : p # q /\ req'[p].conn # None => req'[p].conn # req'[q].conn
  BY <1>1 DEF TransactionsInv, PoolInv
<1>5. \A c \in Conn : (\A q \in Request : req'[q].conn # c) => txn'[c] = "idle"
  BY <1>1 DEF TransactionsInv, PoolInv
<1> QED BY <1>3, <1>4, <1>5 DEF PoolInv

\* A step of a request between the acquisition of the connection and its release.
LEMMA ServeStep ==
    ASSUME TransactionsInv, NEW r \in Request, Settled(rows, rows', r),
           nextId' \in Nat, nextId <= nextId',
           req' \in [Request -> Locals], \A q \in Request : q # r => req'[q] = req[q],
           req'[r].conn = req[r].conn,
           req[r].at \notin {"new", "end"}, req'[r].at \notin {"new", "end"},
           txn' \in [Conn -> {"idle", "open", "aborted"}],
           \A c \in Conn : c # req[r].conn => txn'[c] = txn[c],
           lock' \in Creator \cup {None},
           \A q \in Creator : q # r => (lock = q <=> lock' = q),
           \A x \in rows' : x.owner = r => lock' = r /\ req'[r].at \in {"commit", "release"},
           r \in Creator => CreatorOK(r, req'[r], rows', nextId', lock'),
           UNCHANGED <<versions, mig, ran>>
    PROVE  TransactionsInv'
<1>1. Creator \subseteq Request BY Constants
<1>2. PoolInv' BY PoolStep
<1>3. TypeInv' BY DEF TransactionsInv, TypeInv, Settled
<1>4. \A q \in Creator : q # r => req'[q] = req[q] /\ (lock = q <=> lock' = q) BY <1>1
<1>5. /\ \A q \in Creator : q # r => CreatorOK(q, req'[q], rows', nextId', lock')
      /\ \A m \in Runner : RunnerOK(m, mig'[m], rows', Applied')
      /\ VersionsInv' /\ OwnersInv' /\ RowsOK(rows')
  BY <1>4, ServedBeside
<1>6. \A q \in Creator : CreatorOK(q, req'[q], rows', nextId', lock') BY <1>5
<1> QED BY <1>2, <1>3, <1>5, <1>6 DEF TransactionsInv

\* Where a statement takes the connection of r.
LEMMA ExecuteFacts ==
    ASSUME TypeInv, PoolInv, NEW r \in Request, req[r].at \notin {"new", "end"},
           NEW z \in {"idle", "open", "aborted"}, txn' = [txn EXCEPT ![req[r].conn] = z]
    PROVE  /\ txn' \in [Conn -> {"idle", "open", "aborted"}]
           /\ \A c \in Conn : c # req[r].conn => txn'[c] = txn[c]
           /\ req[r].conn \in Conn /\ txn'[req[r].conn] = z
<1>1. req[r].conn \in Conn BY LocalFields DEF TypeInv, PoolInv, Held
<1> QED BY <1>1 DEF TypeInv

LEMMA GoToFacts ==
    ASSUME TypeInv, NEW r \in Request, NEW pc \in Place, GoTo(r, pc)
    PROVE  /\ req' \in [Request -> Locals]
           /\ \A q \in Request : q # r => req'[q] = req[q]
           /\ req'[r].at = pc /\ req'[r].conn = req[r].conn /\ req'[r].no = req[r].no
           /\ req'[r].id = req[r].id /\ req'[r].err = req[r].err
  BY DEF GoTo, TypeInv, Locals

\* Nobody's lock but r's own is given up.
LEMMA UnlockFacts ==
    ASSUME TypeInv, NEW r \in Request
    PROVE  /\ Unlock(r) \in Creator \cup {None}
           /\ Unlock(r) # r
           /\ \A q \in Creator : q # r => (lock = q <=> Unlock(r) = q)
  BY Constants DEF Unlock, TypeInv

LEMMA OwnRow ==
    ASSUME TransactionsInv, NEW r \in Request, NEW x \in rows, x.owner = r
    PROVE  r \in Creator /\ lock = r /\ req[r].at \in {"commit", "release"}
<1>1. x.owner \in Transaction BY RowFields DEF TransactionsInv, TypeInv
<1>2. r \in Creator BY <1>1, Constants DEF Transaction
<1> QED BY <1>2 DEF TransactionsInv, OwnersInv

\* The steps of a request that leave the rows as they are, before its insert.
LEMMA ReadStep ==
    ASSUME TransactionsInv, NEW r \in Request, UNCHANGED <<rows, versions, mig, ran>>,
           nextId' \in Nat, nextId <= nextId',
           req' \in [Request -> Locals], \A q \in Request : q # r => req'[q] = req[q],
           req'[r].conn = req[r].conn,
           req[r].at \in {"lock", "read", "insert", "place", "statement"},
           req'[r].at \notin {"new", "end"},
           NEW z \in {"idle", "open", "aborted"}, txn' = [txn EXCEPT ![req[r].conn] = z],
           lock' \in Creator \cup {None},
           \A q \in Creator : q # r => (lock = q <=> lock' = q),
           r \in Creator => CreatorOK(r, req'[r], rows', nextId', lock')
    PROVE  TransactionsInv'
<1>1. Settled(rows, rows', r) BY SameIsSettled DEF TransactionsInv
<1>2. req[r].at \notin {"new", "end"} OBVIOUS
<1>3. TypeInv /\ PoolInv BY DEF TransactionsInv
<1>4. /\ txn' \in [Conn -> {"idle", "open", "aborted"}]
      /\ \A c \in Conn : c # req[r].conn => txn'[c] = txn[c]
  BY <1>2, <1>3, ExecuteFacts
<1>5. \A x \in rows' : x.owner # r BY OwnRow
<1> QED BY <1>1, <1>2, <1>4, <1>5, ServeStep

LEMMA LockKeeps ==
    ASSUME TransactionsInv, NEW r \in Creator, Lock(r)
    PROVE  TransactionsInv'
<1>1. r \in Request /\ r # None BY Constants
<1>2. TypeInv BY DEF TransactionsInv
<1>3. /\ req[r].at = "lock" /\ lock = None /\ lock' = r /\ GoTo(r, "read")
      /\ txn' = [txn EXCEPT ![req[r].conn] = "open"]
      /\ UNCHANGED <<rows, nextId, versions, mig, ran>>
  BY DEF Lock, Execute, At
<1>4. /\ req' \in [Request -> Locals] /\ \A q \in Request : q # r => req'[q] = req[q]
      /\ req'[r].at = "read" /\ req'[r].conn = req[r].conn /\ req'[r].err = req[r].err
  <2>1. "read" \in Place BY DEF Place, Statements
  <2> QED BY <1>1, <1>2, <1>3, <2>1, GoToFacts
<1>5. CreatorOK(r, req'[r], rows', nextId', lock')
  BY <1>3, <1>4 DEF CreatorOK, TransactionsInv
<1>6. nextId' \in Nat /\ nextId <= nextId' BY <1>2, <1>3 DEF TypeInv
<1>7. \A q \in Creator : q # r => (lock = q <=> lock' = q) BY <1>3, Constants
<1> QED BY <1>1, <1>3, <1>4, <1>5, <1>6, <1>7, ReadStep

\* The number a create takes: nothing is missing below it, and it is above every row of
\* a create.
LEMMA ReadNumber ==
    ASSUME TransactionsInv, NEW r \in Creator, req[r].at = "read"
    PROVE  LET no == IF Committed = {} THEN 1 ELSE Latest.no + 1
           IN  /\ no \in Nat \ {0}
               /\ \A k \in 1..(no - 1) : PlacedIn(rows, k, None)
               /\ \A x \in rows : x.by = "create" => x.no < no
<1>1. lock = r BY DEF TransactionsInv, CreatorOK
<1>2. \A x \in rows : x \in RowSet /\ x.id \in Nat /\ x.no \in Nat \ {0}
  BY RowFields DEF TransactionsInv, TypeInv
<1>3. \A x \in rows : x.by = "create" => x \in Committed
  <2> SUFFICES ASSUME NEW x \in rows, x.by = "create", x.owner # None PROVE FALSE
    BY DEF Committed
  <2>1. x.owner \in Creator /\ lock = x.owner /\ req[x.owner].at \in {"commit", "release"}
    BY DEF TransactionsInv, OwnersInv
  <2> QED BY <1>1, <2>1
<1>4. CASE Committed = {} BY <1>3, <1>4
<1>5. CASE Committed # {}
  <2>1. Latest \in Committed /\ \A y \in Committed : y.id <= Latest.id
    BY <1>5, LatestIsCommitted DEF TransactionsInv
  <2>2. Latest \in rows /\ Latest.owner = None /\ Committed \subseteq rows
    BY <2>1 DEF Committed
  <2>3. Latest.no \in Nat \ {0} /\ Latest.id \in Nat BY <1>2, <2>2
  <2>4. \A y \in Committed : y.no <= Latest.no
    <3> SUFFICES ASSUME NEW y \in Committed, ~(y.no <= Latest.no) PROVE FALSE OBVIOUS
    <3>1. y \in rows /\ y.no \in Nat /\ y.id \in Nat BY <1>2, <2>2
    <3>2. Latest.no < y.no BY <2>3, <3>1
    <3>3. Latest.id < y.id BY <2>2, <3>1, <3>2 DEF TransactionsInv, RowsOK
    <3> QED BY <2>1, <2>3, <3>1, <3>3
  <2>5. \A k \in 1..(Latest.no - 1) : PlacedIn(rows, k, None)
    BY <2>2 DEF TransactionsInv, RowsOK
  <2>6. PlacedIn(rows, Latest.no, None) BY <2>2 DEF PlacedIn
  <2>7. \A k \in 1..Latest.no : PlacedIn(rows, k, None)
    <3> SUFFICES ASSUME NEW k \in 1..Latest.no PROVE PlacedIn(rows, k, None) OBVIOUS
    <3>1. k = Latest.no \/ k \in 1..(Latest.no - 1) BY <2>3
    <3> QED BY <2>5, <2>6, <3>1
  <2>8. \A x \in rows : x.by = "create" => x.no < Latest.no + 1 BY <1>2, <1>3, <2>3, <2>4
  <2> QED BY <1>5, <2>3, <2>7, <2>8
<1> QED BY <1>4, <1>5

LEMMA ReadKeeps ==
    ASSUME TransactionsInv, NEW r \in Creator, ReadLatest(r)
    PROVE  TransactionsInv'
<1>1. r \in Request /\ r # None BY Constants
<1>2. TypeInv BY DEF TransactionsInv
<1>3. PICK no : no = IF Committed = {} THEN 1 ELSE Latest.no + 1 OBVIOUS
<1>4. /\ req[r].at = "read" /\ req' = [req EXCEPT ![r].at = "insert", ![r].no = no]
      /\ txn' = [txn EXCEPT ![req[r].conn] = "open"]
      /\ UNCHANGED <<rows, nextId, lock, versions, mig, ran>>
  BY <1>3 DEF ReadLatest, Execute, At
<1>5. /\ no \in Nat \ {0}
      /\ \A k \in 1..(no - 1) : PlacedIn(rows, k, None)
      /\ \A x \in rows : x.by = "create" => x.no < no
  BY <1>3, <1>4, ReadNumber
<1>6. /\ req' \in [Request -> Locals] /\ \A q \in Request : q # r => req'[q] = req[q]
      /\ req'[r].at = "insert" /\ req'[r].conn = req[r].conn /\ req'[r].err = req[r].err
      /\ req'[r].no = no
  BY <1>1, <1>2, <1>4, <1>5 DEF TypeInv, Locals, Place, Statements
<1>7. CreatorOK(r, req'[r], rows', nextId', lock')
  BY <1>4, <1>5, <1>6 DEF CreatorOK, TransactionsInv
<1>8. nextId' \in Nat /\ nextId <= nextId' /\ lock' \in Creator \cup {None} BY <1>2, <1>4 DEF TypeInv
<1>9. \A q \in Creator : q # r => (lock = q <=> lock' = q) BY <1>4
<1> QED BY <1>1, <1>4, <1>6, <1>7, <1>8, <1>9, ReadStep

LEMMA DrawIdKeeps ==
    ASSUME TransactionsInv, NEW r \in Creator, DrawId(r)
    PROVE  TransactionsInv'
<1>1. r \in Request /\ r # None BY Constants
<1>2. TypeInv BY DEF TransactionsInv
<1>3. /\ req[r].at = "insert" /\ req' = [req EXCEPT ![r].at = "place", ![r].id = nextId]
      /\ txn' = [txn EXCEPT ![req[r].conn] = "open"] /\ nextId' = nextId + 1
      /\ UNCHANGED <<rows, lock, versions, mig, ran>>
  BY DEF DrawId, Execute, At
<1>4. nextId \in Nat /\ nextId' \in Nat /\ nextId < nextId' /\ nextId <= nextId'
      /\ lock' \in Creator \cup {None}
  BY <1>2, <1>3 DEF TypeInv
<1>5. /\ req' \in [Request -> Locals] /\ \A q \in Request : q # r => req'[q] = req[q]
      /\ req'[r].at = "place" /\ req'[r].conn = req[r].conn /\ req'[r].err = req[r].err
      /\ req'[r].no = req[r].no /\ req'[r].id = nextId
  BY <1>1, <1>2, <1>3, <1>4 DEF TypeInv, Locals, Place, Statements
<1>6. \A x \in rows' : x.id < nextId BY <1>3 DEF TransactionsInv, OwnersInv
<1>7. CreatorOK(r, req[r], rows, nextId, lock) BY DEF TransactionsInv
<1>8. CreatorOK(r, req'[r], rows', nextId', lock')
  BY <1>3, <1>4, <1>5, <1>6, <1>7 DEF CreatorOK
<1>9. \A q \in Creator : q # r => (lock = q <=> lock' = q) BY <1>3
<1> QED BY <1>1, <1>3, <1>4, <1>5, <1>8, <1>9, ReadStep

LEMMA DeleteKeeps ==
    ASSUME TransactionsInv, NEW r \in Deleter, Delete(r)
    PROVE  TransactionsInv'
<1>1. r \in Request /\ r \notin Creator BY Constants DEF Request
<1>2. TypeInv BY DEF TransactionsInv
<1>3. PICK id \in {x.id : x \in Committed} \cup {None} :
        req' = [req EXCEPT ![r].at = "commit", ![r].id = id]
  BY DEF Delete
<1>4. id \in Nat \cup {None} BY <1>2, RowFields DEF Committed, TypeInv
<1>5. /\ req[r].at = "statement" /\ txn' = [txn EXCEPT ![req[r].conn] = "open"]
      /\ UNCHANGED <<rows, nextId, lock, versions, mig, ran>>
  BY DEF Delete, Execute, At
<1>6. /\ req' \in [Request -> Locals] /\ \A q \in Request : q # r => req'[q] = req[q]
      /\ req'[r].at = "commit" /\ req'[r].conn = req[r].conn
  BY <1>1, <1>2, <1>3, <1>4 DEF TypeInv, Locals, Place, Statements
<1>7. nextId' \in Nat /\ nextId <= nextId' /\ lock' \in Creator \cup {None} BY <1>2, <1>5 DEF TypeInv
<1>8. \A q \in Creator : q # r => (lock = q <=> lock' = q) BY <1>5
<1> QED BY <1>1, <1>5, <1>6, <1>7, <1>8, ReadStep

\* An error: what r has done is undone, and a create learns who had its number.
LEMMA RaiseKeeps ==
    ASSUME TransactionsInv, NEW r \in Request, NEW err \in {"none", "seed"}, Raise(r, err),
           req[r].at \in Statements
    PROVE  TransactionsInv'
<1>1. r # None /\ req[r].at \notin {"new", "end"} BY Constants DEF Statements
<1>2. TypeInv /\ PoolInv /\ RowsOK(rows) BY DEF TransactionsInv
<1>3. /\ rows' = RollbackRows(r) /\ lock' = Unlock(r)
      /\ txn' = [txn EXCEPT ![req[r].conn] = "aborted"]
      /\ req' = [req EXCEPT ![r].at = "release", ![r].err = err]
      /\ UNCHANGED <<nextId, versions, mig, ran>>
  BY DEF Raise
<1>4. /\ req' \in [Request -> Locals] /\ \A q \in Request : q # r => req'[q] = req[q]
      /\ req'[r].at = "release" /\ req'[r].conn = req[r].conn /\ req'[r].err = err
  BY <1>2, <1>3 DEF TypeInv, Locals, Place, Statements
<1>5. Settled(rows, rows', r) /\ \A x \in rows' : x.owner # r
  BY <1>1, <1>2, <1>3, RollbackSettles
<1>6. /\ txn' \in [Conn -> {"idle", "open", "aborted"}]
      /\ \A c \in Conn : c # req[r].conn => txn'[c] = txn[c]
  BY <1>1, <1>2, <1>3, ExecuteFacts
<1>7. /\ lock' \in Creator \cup {None}
      /\ \A q \in Creator : q # r => (lock = q <=> lock' = q)
  BY <1>2, <1>3, UnlockFacts
<1>8. CreatorOK(r, req'[r], rows', nextId', lock') BY <1>4 DEF CreatorOK
<1>9. nextId' \in Nat /\ nextId <= nextId' BY <1>2, <1>3 DEF TypeInv
<1> QED BY <1>1, <1>3, <1>4, <1>5, <1>6, <1>7, <1>8, <1>9, ServeStep

LEMMA InsertClashesKeeps ==
    ASSUME TransactionsInv, NEW r \in Creator, InsertClashes(r)
    PROVE  TransactionsInv'
<1>1. r \in Request BY Constants
<1>2. req[r].at = "place" /\ "place" \in Statements BY DEF InsertClashes, At, Statements
<1>3. PICK x \in Committed : x.no = req[r].no /\ Raise(r, x.by) BY DEF InsertClashes
<1>4. x \in rows BY DEF Committed
<1>5. x.by \in {"create", "seed"} /\ x.no \in Nat BY <1>4, RowFields DEF TransactionsInv, TypeInv
<1>6. x.by = "create" => x.no < req[r].no
  BY <1>2, <1>4 DEF TransactionsInv, CreatorOK
<1>7. x.by \in {"none", "seed"} BY <1>3, <1>5, <1>6
<1> QED BY <1>1, <1>2, <1>3, <1>7, RaiseKeeps

LEMMA StatementFailsKeeps ==
    ASSUME TransactionsInv, NEW r \in Request, StatementFails(r)
    PROVE  TransactionsInv'
<1>1. req[r].at \in Statements /\ Raise(r, "none") BY DEF StatementFails
<1> QED BY <1>1, RaiseKeeps

\* A cancelled request keeps what it has until its connection is released.
LEMMA CancelKeeps ==
    ASSUME TransactionsInv, NEW r \in Request, Cancel(r)
    PROVE  TransactionsInv'
<1>1. TypeInv /\ PoolInv /\ RowsOK(rows) BY DEF TransactionsInv
<1>2. /\ req[r].at \in Statements \cup {"commit"} /\ GoTo(r, "release")
      /\ UNCHANGED <<rows, nextId, lock, txn, versions, mig, ran>>
  BY DEF Cancel
<1>3. req[r].at \notin {"new", "end"} BY <1>2 DEF Statements
<1>4. /\ req' \in [Request -> Locals] /\ \A q \in Request : q # r => req'[q] = req[q]
      /\ req'[r].at = "release" /\ req'[r].conn = req[r].conn /\ req'[r].err = req[r].err
  <2>1. "release" \in Place BY DEF Place
  <2> QED BY <1>1, <1>2, <2>1, GoToFacts
<1>5. Settled(rows, rows', r) BY <1>1, <1>2, SameIsSettled
<1>6. \A x \in rows' : x.owner = r => lock' = r /\ req'[r].at \in {"commit", "release"}
  BY <1>2, <1>4, OwnRow
<1>7. r \in Creator => CreatorOK(r, req'[r], rows', nextId', lock')
  BY <1>4 DEF CreatorOK, TransactionsInv
<1>8. nextId' \in Nat /\ nextId <= nextId' /\ lock' \in Creator \cup {None}
      /\ txn' \in [Conn -> {"idle", "open", "aborted"}]
  BY <1>1, <1>2 DEF TypeInv
<1>9. /\ \A q \in Creator : q # r => (lock = q <=> lock' = q)
      /\ \A c \in Conn : c # req[r].conn => txn'[c] = txn[c]
  BY <1>2
<1>10. req'[r].at \notin {"new", "end"} BY <1>4
<1> QED BY <1>2, <1>3, <1>4, <1>5, <1>6, <1>7, <1>8, <1>9, <1>10, ServeStep

LEMMA CommitKeeps ==
    ASSUME TransactionsInv, NEW r \in Request, Commit(r)
    PROVE  TransactionsInv'
<1>1. TypeInv /\ PoolInv /\ RowsOK(rows) BY DEF TransactionsInv
<1>2. /\ req[r].at = "commit" /\ GoTo(r, "release")
      /\ rows' = IF r \in Creator THEN CommitRows(r) ELSE DeleteRow(req[r].id)
      /\ lock' = Unlock(r) /\ txn' = [txn EXCEPT ![req[r].conn] = "idle"]
      /\ UNCHANGED <<nextId, versions, mig, ran>>
  BY DEF Commit, At
<1>3. req[r].at \notin {"new", "end"} BY <1>2
<1>4. /\ req' \in [Request -> Locals] /\ \A q \in Request : q # r => req'[q] = req[q]
      /\ req'[r].at = "release" /\ req'[r].conn = req[r].conn /\ req'[r].err = req[r].err
  <2>1. "release" \in Place BY DEF Place
  <2> QED BY <1>1, <1>2, <2>1, GoToFacts
<1>5. Settled(rows, rows', r) /\ \A x \in rows' : x.owner # r
  <2>1. CASE r \in Creator
    <3>1. r # None /\ rows' = CommitRows(r) BY <1>2, <2>1, Constants
    <3> QED BY <1>1, <3>1, CommitSettles
  <2>2. CASE r \notin Creator
    <3>1. r \notin Transaction /\ rows' = DeleteRow(req[r].id)
      BY <1>2, <2>2, Constants DEF Transaction
    <3> QED BY <1>1, <3>1, DeleteSettles
  <2> QED BY <2>1, <2>2
<1>6. r \in Creator => CreatorOK(r, req'[r], rows', nextId', lock')
  BY <1>4 DEF CreatorOK, TransactionsInv
<1>7. /\ lock' \in Creator \cup {None}
      /\ \A q \in Creator : q # r => (lock = q <=> lock' = q)
  BY <1>1, <1>2, UnlockFacts
<1>8. /\ txn' \in [Conn -> {"idle", "open", "aborted"}]
      /\ \A c \in Conn : c # req[r].conn => txn'[c] = txn[c]
  BY <1>1, <1>2, <1>3, ExecuteFacts
<1>9. nextId' \in Nat /\ nextId <= nextId' BY <1>1, <1>2 DEF TypeInv
<1>10. req'[r].at \notin {"new", "end"} BY <1>4
<1> QED BY <1>2, <1>3, <1>4, <1>5, <1>6, <1>7, <1>8, <1>9, <1>10, ServeStep

\* The end of a request: its connection goes back clean.
\* The rollback, whether the connection goes back or is lost.
LEMMA RollbackStep ==
    ASSUME TransactionsInv, NEW r \in Request, Rollback(r), NEW l \in Locals,
           req' = [req EXCEPT ![r] = l],
           l.at = "end", l.conn \in {None, req[r].conn}, l.err = req[r].err
    PROVE  TransactionsInv'
<1>1. TypeInv /\ PoolInv /\ RowsOK(rows) BY DEF TransactionsInv
<1>2. /\ req[r].at = "release" /\ rows' = RollbackRows(r) /\ lock' = Unlock(r)
      /\ txn' = [txn EXCEPT ![req[r].conn] = "idle"]
      /\ UNCHANGED <<nextId, versions, mig, ran>>
  BY DEF Rollback, At
<1>3. r # None /\ Creator \subseteq Request BY Constants
<1>4. /\ req' \in [Request -> Locals] /\ \A q \in Request : q # r => req'[q] = req[q]
      /\ req'[r].at = "end" /\ req'[r].conn \in {None, req[r].conn} /\ req'[r].err = req[r].err
  BY <1>1 DEF TypeInv
<1>5. Settled(rows, rows', r) /\ \A x \in rows' : x.owner # r
  BY <1>1, <1>2, <1>3, RollbackSettles
<1>6. /\ txn' \in [Conn -> {"idle", "open", "aborted"}]
      /\ \A c \in Conn : c # req[r].conn => txn'[c] = txn[c]
      /\ req[r].conn \in Conn /\ txn'[req[r].conn] = "idle"
  BY <1>1, <1>2, ExecuteFacts
<1>7. /\ lock' \in Creator \cup {None} /\ lock' # r
      /\ \A q \in Creator : q # r => (lock = q <=> lock' = q)
  BY <1>1, <1>2, UnlockFacts
<1>8. nextId' \in Nat /\ nextId <= nextId' BY <1>1, <1>2 DEF TypeInv
<1>9. r \in Creator => CreatorOK(r, req'[r], rows', nextId', lock')
  BY <1>4, <1>7 DEF CreatorOK, TransactionsInv
<1>10. PoolInv'
  <2>1. \A q \in Request : Held(req'[q])
    BY <1>1, <1>4 DEF PoolInv, Held
  <2>2. \A p, q \in Request : p # q /\ req'[p].conn # None => req'[p].conn # req'[q].conn
    BY <1>1, <1>4 DEF PoolInv
  <2>3. \A d \in Conn : (\A q \in Request : req'[q].conn # d) => txn'[d] = "idle"
    BY <1>1, <1>4, <1>6 DEF PoolInv
  <2> QED BY <2>1, <2>2, <2>3 DEF PoolInv
<1>11. TypeInv' BY <1>1, <1>2, <1>4, <1>5, <1>6, <1>7 DEF TypeInv, Settled
<1>12. \A q \in Creator : q # r => req'[q] = req[q] /\ (lock = q <=> lock' = q)
  BY <1>3, <1>4, <1>7
<1>13. /\ \A q \in Creator : q # r => CreatorOK(q, req'[q], rows', nextId', lock')
       /\ \A m \in Runner : RunnerOK(m, mig'[m], rows', Applied')
       /\ VersionsInv' /\ OwnersInv' /\ RowsOK(rows')
  BY <1>2, <1>5, <1>8, <1>12, ServedBeside
<1>14. \A q \in Creator : CreatorOK(q, req'[q], rows', nextId', lock') BY <1>9, <1>13
<1> QED BY <1>10, <1>11, <1>13, <1>14 DEF TransactionsInv

LEMMA ReleaseKeeps ==
    ASSUME TransactionsInv, NEW r \in Request, Release(r)
    PROVE  TransactionsInv'
<1>1. req[r].err \in {"none", "create", "seed"} BY DEF TransactionsInv, TypeInv, Locals
<1>2. PICK l : l = [Done EXCEPT !.err = req[r].err] OBVIOUS
<1>3. l \in Locals /\ l.at = "end" /\ l.conn = None /\ l.err = req[r].err
  BY <1>1, <1>2 DEF Done, Locals, Place
<1>4. Rollback(r) /\ req' = [req EXCEPT ![r] = l] BY <1>2 DEF Release
<1> QED BY <1>3, <1>4, RollbackStep

LEMMA CancelReleaseKeeps ==
    ASSUME TransactionsInv, NEW r \in Request, CancelRelease(r)
    PROVE  TransactionsInv'
<1>1. req[r].err \in {"none", "create", "seed"} /\ req[r].conn \in Conn \cup {None}
  BY DEF TransactionsInv, TypeInv, Locals
<1>2. PICK l : l = [Done EXCEPT !.conn = req[r].conn, !.err = req[r].err] OBVIOUS
<1>3. l \in Locals /\ l.at = "end" /\ l.conn = req[r].conn /\ l.err = req[r].err
  BY <1>1, <1>2 DEF Done, Locals, Place
<1>4. Rollback(r) /\ req' = [req EXCEPT ![r] = l] BY <1>2 DEF CancelRelease
<1> QED BY <1>3, <1>4, RollbackStep

\* A request that is not yet served: it has no row and no lock.
LEMMA AcquireStep ==
    ASSUME TransactionsInv, NEW r \in Request, req[r].at = "new",
           UNCHANGED <<rows, nextId, lock, txn, versions, mig, ran>>,
           req' \in [Request -> Locals], \A q \in Request : q # r => req'[q] = req[q],
           req'[r].at \in {"lock", "statement", "end"}, req'[r].err = req[r].err, PoolInv'
    PROVE  TransactionsInv'
<1>1. TypeInv /\ RowsOK(rows) BY DEF TransactionsInv
<1>2. Settled(rows, rows', r) BY <1>1, SameIsSettled
<1>3. \A x \in rows' : x.owner # r BY OwnRow
<1>4. \A q \in Creator : q # r => req'[q] = req[q] /\ (lock = q <=> lock' = q) BY Constants
<1>5. nextId' \in Nat /\ nextId <= nextId' BY <1>1 DEF TypeInv
<1>6. /\ \A q \in Creator : q # r => CreatorOK(q, req'[q], rows', nextId', lock')
      /\ \A m \in Runner : RunnerOK(m, mig'[m], rows', Applied')
      /\ VersionsInv' /\ OwnersInv' /\ RowsOK(rows')
  BY <1>2, <1>3, <1>4, <1>5, ServedBeside
<1>7. r \in Creator => CreatorOK(r, req'[r], rows', nextId', lock')
  BY DEF CreatorOK, TransactionsInv
<1>8. \A q \in Creator : CreatorOK(q, req'[q], rows', nextId', lock') BY <1>6, <1>7
<1>9. TypeInv' BY <1>1 DEF TypeInv
<1> QED BY <1>6, <1>8, <1>9 DEF TransactionsInv

LEMMA AcquireKeeps ==
    ASSUME TransactionsInv, NEW r \in Request, Acquire(r)
    PROVE  TransactionsInv'
<1>1. TypeInv /\ PoolInv BY DEF TransactionsInv
<1>2. PICK c : c = CHOOSE d \in Free(Home[r]) : TRUE OBVIOUS
<1>3. c \in Conn /\ \A q \in Request : req[q].conn # c BY <1>2 DEF Acquire, Free
<1>4. PICK pc \in {"lock", "statement"} : req' = [req EXCEPT ![r].at = pc, ![r].conn = c]
  BY <1>2 DEF Acquire
<1>5. /\ req[r].at = "new" /\ UNCHANGED <<rows, nextId, lock, txn, versions, mig, ran>>
  BY DEF Acquire, At
<1>6. /\ req' \in [Request -> Locals] /\ \A q \in Request : q # r => req'[q] = req[q]
      /\ req'[r].at = pc /\ req'[r].conn = c /\ req'[r].err = req[r].err
  BY <1>1, <1>3, <1>4 DEF TypeInv, Locals, Place, Statements
<1>7. PoolInv'
  <2>1. c # None BY <1>3, Constants
  <2>2. \A q \in Request : Held(req'[q])
    BY <1>1, <1>6, <2>1 DEF PoolInv, Held
  <2>3. \A p, q \in Request : p # q /\ req'[p].conn # None => req'[p].conn # req'[q].conn
    BY <1>1, <1>3, <1>6 DEF PoolInv
  <2>4. req[r].conn = None BY <1>1, <1>5 DEF PoolInv, Held
  <2>5. \A d \in Conn : (\A q \in Request : req'[q].conn # d) => txn'[d] = "idle"
    BY <1>1, <1>5, <1>6, <2>4, Constants DEF PoolInv
  <2> QED BY <2>2, <2>3, <2>5 DEF PoolInv
<1>8. req'[r].at \in {"lock", "statement", "end"} BY <1>6
<1> QED BY <1>5, <1>6, <1>7, <1>8, AcquireStep

LEMMA AcquireTimeoutKeeps ==
    ASSUME TransactionsInv, NEW r \in Request, AcquireTimeout(r)
    PROVE  TransactionsInv'
<1>1. TypeInv /\ PoolInv BY DEF TransactionsInv
<1>2. /\ req[r].at = "new" /\ GoTo(r, "end")
      /\ UNCHANGED <<rows, nextId, lock, txn, versions, mig, ran>>
  BY DEF AcquireTimeout, At
<1>3. /\ req' \in [Request -> Locals] /\ \A q \in Request : q # r => req'[q] = req[q]
      /\ req'[r].at = "end" /\ req'[r].conn = req[r].conn /\ req'[r].err = req[r].err
  <2>1. "end" \in Place BY DEF Place
  <2> QED BY <1>1, <1>2, <2>1, GoToFacts
<1>4. PoolInv'
  <2>1. \A q \in Request : req'[q].conn = req[q].conn BY <1>3
  <2>2. \A q \in Request : Held(req'[q])
    BY <1>1, <1>2, <1>3 DEF PoolInv, Held
  <2> QED BY <1>1, <1>2, <2>1, <2>2 DEF PoolInv
<1>5. req'[r].at \in {"lock", "statement", "end"} BY <1>3
<1> QED BY <1>2, <1>3, <1>4, <1>5, AcquireStep

\* A new row, beside everybody but its owner.
LEMMA AddedBeside ==
    ASSUME TransactionsInv, NEW x \in RowSet, Taken(x.no) = {}, rows' = rows \cup {x},
           nextId' \in Nat, nextId <= nextId', lock' = lock, x.by = "create" => lock = x.owner
    PROVE  /\ \A q \in Creator : q # x.owner => CreatorOK(q, req[q], rows', nextId', lock')
           /\ \A m \in Runner : RunnerOK(m, mig[m], rows', Applied)
           /\ \A v \in Applied : SeededIn(rows', v, None)
           /\ \A k \in Nat : \A s : PlacedIn(rows, k, s) => PlacedIn(rows', k, s)
<1>1. \A k \in Nat : \A s : PlacedIn(rows, k, s) => PlacedIn(rows', k, s) BY DEF PlacedIn
<1>2. rows \in SUBSET RowSet /\ nextId \in Nat BY DEF TransactionsInv, TypeInv
<1>3. \A y \in rows : y.no # x.no BY DEF Taken
<1>4. \A q \in Creator : q # x.owner => CreatorOK(q, req[q], rows', nextId', lock')
  <2> SUFFICES ASSUME NEW q \in Creator, q # x.owner
               PROVE  CreatorOK(q, req[q], rows \cup {x}, nextId', lock)
    OBVIOUS
  <2>1. req[q] \in Locals BY Constants DEF TransactionsInv, TypeInv
  <2>2. CreatorOK(q, req[q], rows, nextId, lock) BY DEF TransactionsInv
  <2>3. x.by = "create" => lock # q OBVIOUS
  <2> QED BY <1>2, <1>3, <2>1, <2>2, <2>3, CreatorBeside
<1>5. \A m \in Runner : RunnerOK(m, mig[m], rows', Applied)
  <2> SUFFICES ASSUME NEW m \in Runner PROVE RunnerOK(m, mig[m], rows', Applied) OBVIOUS
  <2>1. mig[m] \in RunnerLocals /\ RunnerOK(m, mig[m], rows, Applied)
    BY DEF TransactionsInv, TypeInv
  <2>2. \A k \in Nat : PlacedIn(rows, k, m) => PlacedIn(rows', k, m) BY <1>1
  <2>3. Applied \subseteq Applied OBVIOUS
  <2> QED BY <2>1, <2>2, <2>3, RunnerKeeps
<1>6. \A v \in Applied : SeededIn(rows', v, None)
  <2>1. \A k \in Nat : PlacedIn(rows, k, None) => PlacedIn(rows', k, None) BY <1>1
  <2>2. \A v \in Version : SeededIn(rows, v, None) => SeededIn(rows', v, None)
    BY <2>1, SeedsStay
  <2>3. Applied \in SUBSET Version BY CurrentIsLargest DEF TransactionsInv
  <2> QED BY <2>2, <2>3 DEF TransactionsInv, VersionsInv
<1> QED BY <1>1, <1>4, <1>5, <1>6

LEMMA RowIsRow ==
    ASSUME NEW id \in Nat, NEW no \in Nat \ {0}, NEW t \in Creator \cup Runner,
           NEW by \in {"create", "seed"}
    PROVE  LET x == Row(id, no, t, by)
           IN  x \in RowSet /\ x.id = id /\ x.no = no /\ x.owner = t /\ x.by = by
  BY DEF Row, RowSet

LEMMA InsertKeeps ==
    ASSUME TransactionsInv, NEW r \in Creator, Insert(r)
    PROVE  TransactionsInv'
<1>1. r \in Request /\ r # None /\ Creator \subseteq Request BY Constants
<1>2. TypeInv /\ PoolInv /\ RowsOK(rows) /\ OwnersInv BY DEF TransactionsInv
<1>3. /\ req[r].at = "place" /\ Taken(req[r].no) = {} /\ GoTo(r, "commit")
      /\ rows' = rows \cup {Row(req[r].id, req[r].no, r, "create")}
      /\ txn' = [txn EXCEPT ![req[r].conn] = "open"]
      /\ UNCHANGED <<nextId, lock, versions, mig, ran>>
  BY DEF Insert, Execute, At
<1>4. CreatorOK(r, req[r], rows, nextId, lock) BY DEF TransactionsInv
<1>5. /\ lock = r /\ req[r].no \in Nat \ {0} /\ req[r].id \in Nat /\ req[r].id < nextId
      /\ \A k \in 1..(req[r].no - 1) : PlacedIn(rows, k, None)
      /\ \A y \in rows : y.no < req[r].no => y.id < req[r].id
  BY <1>3, <1>4 DEF CreatorOK
<1>6. PICK x : x = Row(req[r].id, req[r].no, r, "create") OBVIOUS
<1>7. x \in RowSet /\ x.id = req[r].id /\ x.no = req[r].no /\ x.owner = r /\ x.by = "create"
  BY <1>5, <1>6, RowIsRow
<1>8. rows' = rows \cup {x} /\ Taken(x.no) = {} BY <1>3, <1>6, <1>7
<1>9. \A k \in 1..(x.no - 1) : PlacedIn(rows, k, x.owner) BY <1>5, <1>7 DEF PlacedIn
<1>10. RowsOK(rows') /\ rows' \in SUBSET RowSet
  BY <1>2, <1>5, <1>7, <1>8, <1>9, RowOnTop
<1>11. nextId' \in Nat /\ nextId <= nextId' /\ lock' = lock BY <1>2, <1>3 DEF TypeInv
<1>12. /\ \A q \in Creator : q # r => CreatorOK(q, req[q], rows', nextId', lock')
       /\ \A m \in Runner : RunnerOK(m, mig[m], rows', Applied)
       /\ \A v \in Applied : SeededIn(rows', v, None)
  BY <1>5, <1>7, <1>8, <1>11, AddedBeside
<1>13. /\ req' \in [Request -> Locals] /\ \A q \in Request : q # r => req'[q] = req[q]
       /\ req'[r].at = "commit" /\ req'[r].conn = req[r].conn /\ req'[r].err = req[r].err
  <2>1. "commit" \in Place BY DEF Place
  <2> QED BY <1>1, <1>2, <1>3, <2>1, GoToFacts
<1>14. req[r].at \notin {"new", "end"} /\ req'[r].at \notin {"new", "end"} BY <1>3, <1>13
<1>15. /\ txn' \in [Conn -> {"idle", "open", "aborted"}]
       /\ \A c \in Conn : c # req[r].conn => txn'[c] = txn[c]
  BY <1>1, <1>2, <1>3, <1>14, ExecuteFacts
<1>16. PoolInv' BY <1>1, <1>13, <1>14, <1>15, PoolStep
<1>17. TypeInv' BY <1>2, <1>3, <1>10, <1>13, <1>15 DEF TypeInv
<1>18. CreatorOK(r, req'[r], rows', nextId', lock')
  BY <1>3, <1>4, <1>5, <1>13 DEF CreatorOK
<1>19. \A q \in Creator : CreatorOK(q, req'[q], rows', nextId', lock')
  BY <1>1, <1>12, <1>13, <1>18
<1>20. Applied' = Applied BY <1>3 DEF Applied
<1>21. \A m \in Runner : RunnerOK(m, mig'[m], rows', Applied') BY <1>3, <1>12, <1>20
<1>22. VersionsInv' BY <1>3, <1>12, <1>20 DEF VersionsInv, TransactionsInv
<1>23. OwnersInv'
  <2> SUFFICES ASSUME NEW y \in rows'
               PROVE  /\ y.id < nextId'
                      /\ y.owner \in Creator => lock' = y.owner /\ req'[y.owner].at \in {"commit", "release"}
                      /\ y.by = "create" => y.owner \in Creator \cup {None}
    BY DEF OwnersInv
  <2>1. CASE y = x BY <1>3, <1>5, <1>7, <1>13, <2>1
  <2>2. CASE y \in rows
    <3>1. /\ y.id < nextId
          /\ y.owner \in Creator => lock = y.owner /\ req[y.owner].at \in {"commit", "release"}
          /\ y.by = "create" => y.owner \in Creator \cup {None}
      BY <1>2, <2>2 DEF OwnersInv
    <3> QED BY <1>3, <1>5, <3>1
  <2> QED BY <1>8, <2>1, <2>2
<1> QED BY <1>10, <1>16, <1>17, <1>19, <1>21, <1>22, <1>23 DEF TransactionsInv

\* A replica that starts, and the faults that are only counted.
LEMMA StartKeeps ==
    ASSUME TransactionsInv, UNCHANGED <<rows, nextId, lock, txn, req, versions, mig, ran>>
    PROVE  TransactionsInv'
<1>1. Applied' = Applied BY DEF Applied
<1>2. TypeInv' /\ PoolInv' /\ OwnersInv' BY DEF TransactionsInv, TypeInv, PoolInv, OwnersInv
<1>3. RowsOK(rows') BY DEF TransactionsInv
<1>4. VersionsInv' BY <1>1 DEF TransactionsInv, VersionsInv
<1>5. \A r \in Creator : CreatorOK(r, req'[r], rows', nextId', lock') BY DEF TransactionsInv
<1>6. \A m \in Runner : RunnerOK(m, mig'[m], rows', Applied') BY <1>1 DEF TransactionsInv
<1> QED BY <1>2, <1>3, <1>4, <1>5, <1>6 DEF TransactionsInv

-----------------------------------------------------------------------------
(***************************************************************************)
(* Steps of a runner of the migrations.                                    *)
(***************************************************************************)
\* Arriving at a script: every script before it is done or was applied.
LEMMA AtScriptOK ==
    ASSUME NEW m \in Runner, NEW R, NEW applied \in SUBSET Version,
           NEW todo \in SUBSET Scripts[m], NEW done \in SUBSET Scripts[m],
           Scripts[m] \subseteq todo \cup done \cup applied,
           \A v \in done : SeededIn(R, v, m), \A v \in applied : SeededIn(R, v, None)
    PROVE  /\ AtScript(todo, done) \in RunnerLocals
           /\ AtScript(todo, done).done = done
           /\ RunnerOK(m, AtScript(todo, done), R, applied)
<1>1. Scripts[m] \subseteq Version BY ImageIsPrefix
<1> DEFINE l == AtScript(todo, done)
<1>2. CASE todo = {}
  <2>1. l = [at |-> "commit", todo |-> {}, seeds |-> <<>>, done |-> done] BY <1>2 DEF AtScript
  <2>2. <<>> \in Seq(Nat \ {0}) OBVIOUS
  <2> HIDE DEF l
  <2>3. l \in RunnerLocals /\ l.at = "commit" /\ l.todo = {} /\ l.done = done
    BY <1>1, <2>1, <2>2 DEF RunnerLocals
  <2>4. RunnerOK(m, l, R, applied) BY <1>2, <2>3 DEF RunnerOK
  <2> QED BY <2>3, <2>4 DEF l
<1>3. CASE todo # {}
  <2>1. PICK v : v = First(todo) OBVIOUS
  <2>2. v \in todo /\ v \in Version /\ \A w \in todo : v <= w BY <1>1, <1>3, <2>1, FirstIsLeast
  <2>3. Seeds[v] \in Seq(Nat \ {0}) BY <2>2, SeedsType
  <2>4. l = [at |-> "script", todo |-> todo, seeds |-> Seeds[v], done |-> done]
    BY <1>3, <2>1 DEF AtScript
  <2> HIDE DEF l
  <2>5. l \in RunnerLocals /\ l.at = "script" /\ l.todo = todo /\ l.done = done /\ l.seeds = Seeds[v]
    BY <1>1, <2>3, <2>4 DEF RunnerLocals
  <2>6. \A w \in 1..(v - 1) : SeededIn(R, w, m)
    <3> SUFFICES ASSUME NEW w \in 1..(v - 1) PROVE SeededIn(R, w, m) OBVIOUS
    <3>1. v \in Nat BY <2>2, Constants
    <3>2. w \in 1..v /\ ~(v <= w) BY <3>1
    <3>3. w \in Scripts[m] BY <2>2, <3>2, ImageIsPrefix
    <3>4. w \in done \/ w \in applied BY <2>2, <3>2, <3>3
    <3>5. CASE w \in done BY <3>5
    <3>6. CASE w \in applied
      <4>1. SeededIn(R, w, None) BY <3>6
      <4> QED BY <4>1 DEF SeededIn, PlacedIn
    <3> QED BY <3>4, <3>5, <3>6
  <2>7. \A i \in 1..Len(Seeds[v]) : \A k \in 1..(Seeds[v][i] - 1) :
          PlacedIn(R, k, m) \/ \E j \in 1..(i - 1) : Seeds[v][j] = k
    <3> SUFFICES ASSUME NEW i \in 1..Len(Seeds[v]), NEW k \in 1..(Seeds[v][i] - 1),
                        ~ \E j \in 1..(i - 1) : Seeds[v][j] = k
                 PROVE  PlacedIn(R, k, m)
      OBVIOUS
    <3>1. PICK w \in 1..(v - 1) : \E j \in 1..Len(Seeds[w]) : Seeds[w][j] = k
      BY <2>2, Constants, SeedsInOrder
    <3> QED BY <2>6, <3>1 DEF SeededIn
  <2>8. SeedingOK(R, v, Seeds[v], m) BY <2>7 DEF SeedingOK
  <2>9. RunnerOK(m, l, R, applied) BY <1>3, <2>1, <2>5, <2>8 DEF RunnerOK
  <2> QED BY <2>5, <2>9 DEF l
<1> QED BY <1>2, <1>3

\* One seed is placed.
LEMMA SeedTail ==
    ASSUME NEW R, NEW t, NEW v \in Version, NEW s \in Seq(Nat \ {0}), s # <<>>,
           SeedingOK(R, v, s, t), PlacedIn(R, Head(s), t)
    PROVE  SeedingOK(R, v, Tail(s), t)
<1>1. PICK q : q = Tail(s) OBVIOUS
<1>2. /\ Len(s) \in Nat /\ Len(s) > 0 /\ Len(q) = Len(s) - 1 /\ Head(s) = s[1]
      /\ \A i \in 1..Len(q) : q[i] = s[i + 1]
  BY <1>1
<1>3. \A j \in 2..Len(s) : j - 1 \in 1..Len(q) /\ q[j - 1] = s[j] BY <1>2
<1>4. ASSUME NEW i \in 1..Len(q), NEW k \in 1..(q[i] - 1)
      PROVE  PlacedIn(R, k, t) \/ \E j \in 1..(i - 1) : q[j] = k
  <2>1. i + 1 \in 1..Len(s) /\ q[i] = s[i + 1] BY <1>2
  <2>2. PlacedIn(R, k, t) \/ \E j \in 1..((i + 1) - 1) : s[j] = k
    BY <2>1 DEF SeedingOK
  <2>3. CASE PlacedIn(R, k, t) BY <2>3
  <2>4. CASE \E j \in 1..((i + 1) - 1) : s[j] = k
    <3>1. PICK j \in 1..i : s[j] = k BY <2>4
    <3>2. CASE j = 1 BY <1>2, <3>1, <3>2
    <3>3. CASE j # 1
      <4>1. j \in 2..Len(s) /\ j - 1 \in 1..(i - 1) BY <1>2, <3>3
      <4> QED BY <1>3, <3>1, <4>1
    <3> QED BY <3>2, <3>3
  <2> QED BY <2>2, <2>3, <2>4
<1>5. ASSUME NEW i \in 1..Len(Seeds[v])
      PROVE  PlacedIn(R, Seeds[v][i], t) \/ \E j \in 1..Len(q) : q[j] = Seeds[v][i]
  <2>1. PlacedIn(R, Seeds[v][i], t) \/ \E j \in 1..Len(s) : s[j] = Seeds[v][i] BY DEF SeedingOK
  <2>2. CASE \E j \in 1..Len(s) : s[j] = Seeds[v][i]
    <3>1. PICK j \in 1..Len(s) : s[j] = Seeds[v][i] BY <2>2
    <3>2. CASE j = 1 BY <1>2, <3>1, <3>2
    <3>3. CASE j # 1
      <4>1. j \in 2..Len(s) BY <1>2, <3>3
      <4> QED BY <1>3, <3>1, <4>1
    <3> QED BY <3>2, <3>3
  <2> QED BY <2>1, <2>2
<1>6. SeedingOK(R, v, q, t) BY <1>4, <1>5 DEF SeedingOK
<1> QED BY <1>1, <1>6

\* What the end of the transaction of runner m leaves to everybody else.
LEMMA MigratedBeside ==
    ASSUME TransactionsInv, NEW m \in Runner, Settled(rows, rows', m),
           UNCHANGED <<nextId, lock, txn, req>>,
           \A q \in Runner : q # m => mig'[q] = mig[q], Applied \subseteq Applied'
    PROVE  /\ PoolInv' /\ OwnersInv' /\ RowsOK(rows')
           /\ \A r \in Creator : CreatorOK(r, req'[r], rows', nextId', lock')
           /\ \A q \in Runner : q # m => RunnerOK(q, mig'[q], rows', Applied')
           /\ \A v \in Applied : SeededIn(rows', v, None)
<1>1. m # None /\ m \notin Creator /\ Creator \subseteq Request /\ Runner \subseteq Transaction
      /\ None \in Transaction
  BY Constants DEF Transaction
<1>2. \A s \in Runner \cup {None} : s # m => \A k \in Nat : PlacedIn(rows, k, s) => PlacedIn(rows', k, s)
  BY <1>1 DEF Settled
<1>3. PoolInv' BY DEF TransactionsInv, PoolInv
<1>4. RowsOK(rows') BY DEF Settled
<1>5. \A r \in Creator : CreatorOK(r, req'[r], rows', nextId', lock')
  <2> SUFFICES ASSUME NEW r \in Creator PROVE CreatorOK(r, req[r], rows', nextId, lock) OBVIOUS
  <2>1. req[r] \in Locals /\ nextId \in Nat /\ nextId <= nextId
    BY <1>1 DEF TransactionsInv, TypeInv
  <2>2. CreatorOK(r, req[r], rows, nextId, lock) BY DEF TransactionsInv
  <2>3. lock = r <=> lock = r OBVIOUS
  <2> QED BY <1>1, <2>1, <2>2, <2>3, CreatorKeeps
<1>6. \A q \in Runner : q # m => RunnerOK(q, mig'[q], rows', Applied')
  <2> SUFFICES ASSUME NEW q \in Runner, q # m PROVE RunnerOK(q, mig[q], rows', Applied') OBVIOUS
  <2>1. mig[q] \in RunnerLocals /\ RunnerOK(q, mig[q], rows, Applied)
    BY DEF TransactionsInv, TypeInv
  <2>2. \A k \in Nat : PlacedIn(rows, k, q) => PlacedIn(rows', k, q) BY <1>2
  <2> QED BY <2>1, <2>2, RunnerKeeps
<1>7. \A v \in Applied : SeededIn(rows', v, None)
  <2>1. \A k \in Nat : PlacedIn(rows, k, None) => PlacedIn(rows', k, None) BY <1>1, <1>2
  <2>2. \A v \in Version : SeededIn(rows, v, None) => SeededIn(rows', v, None)
    BY <2>1, SeedsStay
  <2>3. Applied \in SUBSET Version BY CurrentIsLargest DEF TransactionsInv
  <2> QED BY <2>2, <2>3 DEF TransactionsInv, VersionsInv
<1>8. OwnersInv'
  <2> SUFFICES ASSUME NEW x \in rows'
               PROVE  /\ x.id < nextId
                      /\ x.owner \in Creator => lock = x.owner /\ req[x.owner].at \in {"commit", "release"}
                      /\ x.by = "create" => x.owner \in Creator \cup {None}
    BY DEF OwnersInv
  <2>1. PICK y \in rows : /\ y.no = x.no /\ y.id = x.id /\ y.by = x.by
                          /\ x.owner = y.owner \/ (y.owner = m /\ x.owner = None)
    BY DEF Settled
  <2>2. /\ y.id < nextId
        /\ y.owner \in Creator => lock = y.owner /\ req[y.owner].at \in {"commit", "release"}
        /\ y.by = "create" => y.owner \in Creator \cup {None}
    BY DEF TransactionsInv, OwnersInv
  <2> QED BY <1>1, <2>1, <2>2, Constants
<1> QED BY <1>3, <1>4, <1>5, <1>6, <1>7, <1>8

LEMMA BeginKeeps ==
    ASSUME TransactionsInv, NEW m \in Runner, Begin(m)
    PROVE  TransactionsInv'
<1>1. TypeInv /\ RowsOK(rows) /\ VersionsInv BY DEF TransactionsInv
<1>2. PICK todo : todo = Pending(m, Current) OBVIOUS
<1>3. /\ mig[m].at = "new" /\ mig' = [mig EXCEPT ![m] = AtScript(todo, {})]
      /\ UNCHANGED <<rows, nextId, lock, txn, req, versions, ran>>
  BY <1>2 DEF Begin, Is
<1>4. mig[m].done = {} BY <1>3 DEF TransactionsInv, RunnerOK
<1>5. /\ Current \in Nat /\ Applied \in SUBSET Version
      /\ Applied # {} => Current \in Applied
      /\ \A v \in Applied : v <= Current
  BY <1>1, CurrentIsLargest
<1>6. Scripts[m] \subseteq todo \cup {} \cup Applied
  <2> SUFFICES ASSUME NEW v \in Scripts[m], v \notin todo PROVE v \in Applied OBVIOUS
  <2>1. v \in Nat \ {0} BY ImageIsPrefix, Constants
  <2>2. v <= Current BY <1>2, <1>5, <2>1 DEF Pending
  <2>3. Applied # {}
    <3>1. Applied = {} => Current = 0 BY DEF Current
    <3> QED BY <2>1, <2>2, <3>1
  <2>4. Current \in Applied /\ v \in 1..Current BY <1>5, <2>1, <2>2, <2>3
  <2> QED BY <1>1, <2>4 DEF VersionsInv
<1>7. todo \in SUBSET Scripts[m] /\ {} \in SUBSET Scripts[m] BY <1>2 DEF Pending
<1>8. \A v \in Applied : SeededIn(rows, v, None) BY <1>1 DEF VersionsInv
<1>9. /\ AtScript(todo, {}) \in RunnerLocals /\ AtScript(todo, {}).done = {}
      /\ RunnerOK(m, AtScript(todo, {}), rows, Applied)
  <2>1. PICK none : none = {} OBVIOUS
  <2>2. \A v \in none : SeededIn(rows, v, m) BY <2>1
  <2>3. /\ Scripts[m] \subseteq todo \cup none \cup Applied /\ none \in SUBSET Scripts[m]
        /\ todo \in SUBSET Scripts[m] /\ Applied \in SUBSET Version
    BY <1>5, <1>6, <1>7, <2>1
  <2>4. /\ AtScript(todo, none) \in RunnerLocals /\ AtScript(todo, none).done = none
        /\ RunnerOK(m, AtScript(todo, none), rows, Applied)
    BY <1>8, <2>2, <2>3, AtScriptOK, Zenon
  <2> QED BY <2>1, <2>4
<1>10. /\ mig' \in [Runner -> RunnerLocals] /\ mig'[m] = AtScript(todo, {})
       /\ \A q \in Runner : q # m => mig'[q] = mig[q]
  BY <1>1, <1>3, <1>9 DEF TypeInv
<1>11. Applied' = Applied BY <1>3 DEF Applied
<1>12. Settled(rows, rows', m) BY <1>1, <1>3, SameIsSettled
<1>13. Applied \subseteq Applied' BY <1>11
<1>14. /\ PoolInv' /\ OwnersInv' /\ RowsOK(rows')
       /\ \A r \in Creator : CreatorOK(r, req'[r], rows', nextId', lock')
       /\ \A q \in Runner : q # m => RunnerOK(q, mig'[q], rows', Applied')
  BY <1>3, <1>10, <1>12, <1>13, MigratedBeside
<1>15. RunnerOK(m, mig'[m], rows', Applied') BY <1>3, <1>9, <1>10, <1>11
<1>16. TypeInv' BY <1>1, <1>3, <1>10 DEF TypeInv
<1>17. \A q \in Runner : mig'[q].done = mig[q].done BY <1>4, <1>9, <1>10
<1>18. VersionsInv' BY <1>1, <1>3, <1>11, <1>17 DEF VersionsInv
<1>19. \A q \in Runner : RunnerOK(q, mig'[q], rows', Applied') BY <1>14, <1>15
<1> QED BY <1>14, <1>16, <1>18, <1>19 DEF TransactionsInv

\* The seed of a script that is skipped or put on top of the table.
LEMMA SeedKeeps ==
    ASSUME TransactionsInv, NEW m \in Runner, Seed(m)
    PROVE  TransactionsInv'
<1>1. TypeInv /\ RowsOK(rows) /\ VersionsInv /\ OwnersInv /\ PoolInv BY DEF TransactionsInv
<1>2. PICK s : s = mig[m].seeds OBVIOUS
<1>3. PICK no : no = Head(s) OBVIOUS
<1>4. /\ mig[m].at = "script" /\ s # <<>> /\ \A x \in Taken(no) : x.owner \in {None, m}
      /\ rows' = IF Taken(no) # {} THEN rows ELSE rows \cup {Row(nextId, no, m, "seed")}
      /\ nextId' = nextId + 1 /\ mig' = [mig EXCEPT ![m].seeds = Tail(s)]
      /\ UNCHANGED <<lock, txn, req, versions, ran>>
  BY <1>2, <1>3 DEF Seed, Is
<1>5. /\ mig[m] \in RunnerLocals /\ RunnerOK(m, mig[m], rows, Applied) /\ nextId \in Nat
      /\ nextId' \in Nat /\ nextId <= nextId'
  BY <1>4 DEF TransactionsInv, TypeInv
<1>6. PICK v : v = First(mig[m].todo) OBVIOUS
<1>7. s \in Seq(Nat \ {0}) /\ mig[m].todo \in SUBSET Version /\ mig[m].todo # {}
      /\ SeedingOK(rows, v, s, m)
  BY <1>2, <1>4, <1>5, <1>6, RunnerFields DEF RunnerOK
<1>8. v \in Version BY <1>6, <1>7, FirstIsLeast
<1>9. no \in Nat \ {0} /\ no = s[1] /\ 1 \in 1..Len(s) /\ Tail(s) \in Seq(Nat \ {0})
  BY <1>3, <1>4, <1>7
<1>10. \A k \in 1..(no - 1) : PlacedIn(rows, k, m)
  <2>1. \A k \in 1..(s[1] - 1) : PlacedIn(rows, k, m) \/ \E j \in 1..(1 - 1) : s[j] = k
    BY <1>7, <1>9 DEF SeedingOK
  <2> QED BY <1>9, <2>1
<1>11. /\ RowsOK(rows') /\ rows' \in SUBSET RowSet /\ PlacedIn(rows', no, m)
       /\ \A k \in Nat : \A t : PlacedIn(rows, k, t) => PlacedIn(rows', k, t)
       /\ \A r \in Creator : CreatorOK(r, req[r], rows', nextId', lock)
       /\ \A q \in Runner : RunnerOK(q, mig[q], rows', Applied)
       /\ \A w \in Applied : SeededIn(rows', w, None)
       /\ OwnersInv'
  <2>1. CASE Taken(no) # {}
    <3>1. rows' = rows BY <1>4, <2>1
    <3>2. PlacedIn(rows, no, m) BY <1>4, <2>1 DEF PlacedIn, Taken
    <3>3. \A r \in Creator : CreatorOK(r, req[r], rows', nextId', lock)
      <4> SUFFICES ASSUME NEW r \in Creator PROVE CreatorOK(r, req[r], rows, nextId', lock)
        BY <3>1
      <4>1. CreatorOK(r, req[r], rows, nextId, lock) BY DEF TransactionsInv
      <4> QED BY <1>4, <1>5, <4>1 DEF CreatorOK
    <3>4. OwnersInv'
      <4>1. \A x \in rows : x.id \in Nat /\ x.id < nextId BY <1>1, RowFields DEF OwnersInv, TypeInv
      <4>2. \A x \in rows : x.id < nextId' BY <1>4, <1>5, <4>1
      <4> QED BY <1>1, <1>4, <3>1, <4>2 DEF OwnersInv
    <3> QED BY <1>1, <3>1, <3>2, <3>3, <3>4 DEF TransactionsInv, TypeInv, VersionsInv
  <2>2. CASE Taken(no) = {}
    <3>1. PICK x : x = Row(nextId, no, m, "seed") OBVIOUS
    <3>2. x \in RowSet /\ x.id = nextId /\ x.no = no /\ x.owner = m /\ x.by = "seed"
      BY <1>5, <1>9, <3>1, RowIsRow
    <3>3. rows' = rows \cup {x} /\ Taken(x.no) = {} BY <1>4, <2>2, <3>1, <3>2
    <3>4. \A k \in 1..(x.no - 1) : PlacedIn(rows, k, x.owner) BY <1>10, <3>2
    <3>5. \A y \in rows : y.no < x.no => y.id < x.id BY <1>1, <3>2 DEF OwnersInv
    <3>6. RowsOK(rows') /\ rows' \in SUBSET RowSet BY <1>1, <3>2, <3>3, <3>4, <3>5, RowOnTop
    <3>7. m \notin Creator BY Constants
    <3>8. /\ \A q \in Creator : q # m => CreatorOK(q, req[q], rows', nextId', lock)
          /\ \A q \in Runner : RunnerOK(q, mig[q], rows', Applied)
          /\ \A w \in Applied : SeededIn(rows', w, None)
          /\ \A k \in Nat : \A t : PlacedIn(rows, k, t) => PlacedIn(rows', k, t)
      <4>1. x.by = "create" => lock = x.owner BY <3>2
      <4>2. lock' = lock BY <1>4
      <4>3. /\ \A q \in Creator : q # x.owner => CreatorOK(q, req[q], rows', nextId', lock')
            /\ \A q \in Runner : RunnerOK(q, mig[q], rows', Applied)
            /\ \A w \in Applied : SeededIn(rows', w, None)
            /\ \A k \in Nat : \A t : PlacedIn(rows, k, t) => PlacedIn(rows', k, t)
        BY <1>5, <3>2, <3>3, <4>1, <4>2, AddedBeside
      <4> QED BY <3>2, <4>2, <4>3
    <3>9. PlacedIn(rows', no, m) BY <3>2, <3>3 DEF PlacedIn
    <3>10. OwnersInv'
      <4> SUFFICES ASSUME NEW y \in rows'
                   PROVE  /\ y.id < nextId'
                          /\ y.owner \in Creator => lock = y.owner /\ req[y.owner].at \in {"commit", "release"}
                          /\ y.by = "create" => y.owner \in Creator \cup {None}
        BY <1>4 DEF OwnersInv
      <4>1. CASE y = x BY <1>4, <1>5, <3>2, <3>7, <4>1
      <4>2. CASE y \in rows
        <5>1. y.id \in Nat /\ y.id < nextId BY <1>1, <4>2, RowFields DEF OwnersInv, TypeInv
        <5>2. y.id < nextId' BY <1>4, <1>5, <5>1
        <5> QED BY <1>1, <4>2, <5>2 DEF OwnersInv
      <4> QED BY <3>3, <4>1, <4>2
    <3> QED BY <3>6, <3>7, <3>8, <3>9, <3>10
  <2> QED BY <2>1, <2>2
<1>12. /\ mig' \in [Runner -> RunnerLocals] /\ \A q \in Runner : q # m => mig'[q] = mig[q]
       /\ mig'[m].at = "script" /\ mig'[m].todo = mig[m].todo /\ mig'[m].done = mig[m].done
       /\ mig'[m].seeds = Tail(s)
  BY <1>1, <1>4, <1>9 DEF TypeInv, RunnerLocals
<1>13. RunnerOK(m, mig[m], rows', Applied) BY <1>11
<1>14. SeedingOK(rows', v, s, m) BY <1>2, <1>4, <1>6, <1>13 DEF RunnerOK
<1>15. SeedingOK(rows', v, Tail(s), m)
  BY <1>3, <1>4, <1>7, <1>8, <1>11, <1>14, SeedTail
<1>16. Applied' = Applied BY <1>4 DEF Applied
<1>17. RunnerOK(m, mig'[m], rows', Applied')
  BY <1>4, <1>6, <1>12, <1>13, <1>15, <1>16 DEF RunnerOK
<1>18. \A q \in Runner : RunnerOK(q, mig'[q], rows', Applied') BY <1>11, <1>12, <1>16, <1>17
<1>19. \A q \in Runner : mig'[q].done = mig[q].done BY <1>12
<1>20. VersionsInv' BY <1>1, <1>4, <1>11, <1>16, <1>19 DEF VersionsInv
<1>21. PoolInv' BY <1>1, <1>4 DEF PoolInv
<1>22. TypeInv' BY <1>1, <1>4, <1>5, <1>11, <1>12 DEF TypeInv
<1>23. \A r \in Creator : CreatorOK(r, req'[r], rows', nextId', lock') BY <1>4, <1>11
<1> QED BY <1>11, <1>18, <1>20, <1>21, <1>22, <1>23 DEF TransactionsInv

\* Every number of the script is in the table when its version is recorded.
LEMMA RecordKeeps ==
    ASSUME TransactionsInv, NEW m \in Runner, RecordVersion(m)
    PROVE  TransactionsInv'
<1>1. TypeInv /\ RowsOK(rows) /\ VersionsInv BY DEF TransactionsInv
<1>2. PICK v : v = First(mig[m].todo) OBVIOUS
<1>3. PICK todo : todo = mig[m].todo \ {v} OBVIOUS
<1>4. PICK done : done = mig[m].done \cup {v} OBVIOUS
<1>5. PICK x : x = [v |-> v, owner |-> m] OBVIOUS
<1>6. /\ mig[m].at = "script" /\ mig[m].seeds = <<>> /\ Recorded(v) = {}
      /\ versions' = versions \cup {x} /\ mig' = [mig EXCEPT ![m] = AtScript(todo, done)]
      /\ UNCHANGED <<rows, nextId, lock, txn, req, ran>>
  BY <1>2, <1>3, <1>4, <1>5 DEF RecordVersion, Is
<1>7. /\ mig[m] \in RunnerLocals /\ RunnerOK(m, mig[m], rows, Applied)
  BY DEF TransactionsInv, TypeInv
<1>8. /\ mig[m].todo # {} /\ mig[m].todo \in SUBSET Version
      /\ Scripts[m] \subseteq mig[m].todo \cup mig[m].done \cup Applied
      /\ mig[m].todo \cup mig[m].done \subseteq Scripts[m]
      /\ \A w \in mig[m].done : SeededIn(rows, w, m)
      /\ SeedingOK(rows, v, <<>>, m)
  BY <1>2, <1>6, <1>7, RunnerFields DEF RunnerOK
<1>9. v \in mig[m].todo /\ v \in Version BY <1>2, <1>8, FirstIsLeast
<1>10. SeededIn(rows, v, m)
  <2>1. Len(<<>>) = 0 OBVIOUS
  <2> QED BY <1>8, <2>1 DEF SeedingOK, SeededIn
<1>11. Applied \in SUBSET Version BY <1>1, CurrentIsLargest
<1>12. /\ todo \in SUBSET Scripts[m] /\ done \in SUBSET Scripts[m]
       /\ Scripts[m] \subseteq todo \cup done \cup Applied
       /\ \A w \in done : SeededIn(rows, w, m)
  BY <1>3, <1>4, <1>8, <1>9, <1>10
<1>13. \A w \in Applied : SeededIn(rows, w, None) BY <1>1 DEF VersionsInv
<1>14. /\ AtScript(todo, done) \in RunnerLocals /\ AtScript(todo, done).done = done
       /\ RunnerOK(m, AtScript(todo, done), rows, Applied)
  BY <1>11, <1>12, <1>13, AtScriptOK, Zenon
<1>15. /\ mig' \in [Runner -> RunnerLocals] /\ mig'[m] = AtScript(todo, done)
       /\ \A q \in Runner : q # m => mig'[q] = mig[q]
  BY <1>1, <1>6, <1>14 DEF TypeInv
<1>16. m # None BY Constants
<1>17. x \in VersionRow /\ x.v = v /\ x.owner = m BY <1>5, <1>9 DEF VersionRow
<1>18. Applied' = Applied BY <1>6, <1>16, <1>17 DEF Applied
<1>19. Settled(rows, rows', m) BY <1>1, <1>6, SameIsSettled
<1>20. Applied \subseteq Applied' BY <1>18
<1>21. /\ PoolInv' /\ OwnersInv' /\ RowsOK(rows')
       /\ \A r \in Creator : CreatorOK(r, req'[r], rows', nextId', lock')
       /\ \A q \in Runner : q # m => RunnerOK(q, mig'[q], rows', Applied')
  BY <1>6, <1>15, <1>19, <1>20, MigratedBeside
<1>22. \A q \in Runner : RunnerOK(q, mig'[q], rows', Applied') BY <1>6, <1>14, <1>15, <1>18, <1>21
<1>23. TypeInv' BY <1>1, <1>6, <1>15, <1>17 DEF TypeInv
<1>24. VersionsInv'
  <2>1. \A y \in versions : y.v # v BY <1>6 DEF Recorded
  <2>2. \A y, z \in versions' : y.v = z.v => y = z BY <1>1, <1>6, <1>17, <2>1 DEF VersionsInv
  <2>3. ASSUME NEW q \in Runner, NEW w \in Version
        PROVE  w \in mig'[q].done <=> [v |-> w, owner |-> q] \in versions'
    <3>1. w \in mig[q].done <=> [v |-> w, owner |-> q] \in versions BY <1>1 DEF VersionsInv
    <3>2. [v |-> w, owner |-> q] = x <=> w = v /\ q = m BY <1>5
    <3>3. CASE q = m BY <1>4, <1>6, <1>14, <1>15, <3>1, <3>2, <3>3
    <3>4. CASE q # m BY <1>6, <1>15, <3>1, <3>2, <3>4
    <3> QED BY <3>3, <3>4
  <2> QED BY <1>1, <1>6, <1>18, <2>2, <2>3 DEF VersionsInv
<1> QED BY <1>21, <1>22, <1>23, <1>24 DEF TransactionsInv

\* A runner that is through, or has failed, has nothing left.
LEMMA EndedOK ==
    ASSUME NEW m \in Runner, NEW at \in {"new", "end", "failed"}, NEW R, NEW applied
    PROVE  /\ Ended(at) \in RunnerLocals /\ Ended(at).at = at /\ Ended(at).done = {}
           /\ RunnerOK(m, Ended(at), R, applied)
<1>1. PICK l : l = Ended(at) OBVIOUS
<1>2. <<>> \in Seq(Nat \ {0}) OBVIOUS
<1>3. l \in RunnerLocals /\ l.at = at /\ l.done = {} BY <1>1, <1>2 DEF Ended, RunnerLocals
<1>4. RunnerOK(m, l, R, applied) BY <1>3 DEF RunnerOK
<1> QED BY <1>1, <1>3, <1>4

LEMMA RollbackKeeps ==
    ASSUME TransactionsInv, NEW m \in Runner, RollbackAll(m)
    PROVE  TransactionsInv'
<1>1. TypeInv /\ RowsOK(rows) /\ VersionsInv BY DEF TransactionsInv
<1>2. /\ rows' = RollbackRows(m) /\ versions' = {x \in versions : x.owner # m}
      /\ mig' = [mig EXCEPT ![m] = Ended("failed")]
      /\ UNCHANGED <<nextId, lock, txn, req, ran>>
  BY DEF RollbackAll
<1>3. m # None BY Constants
<1>4. Settled(rows, rows', m) BY <1>1, <1>2, <1>3, RollbackSettles
<1>5. Applied' = Applied BY <1>2, <1>3 DEF Applied
<1>6. /\ Ended("failed") \in RunnerLocals /\ Ended("failed").done = {}
      /\ RunnerOK(m, Ended("failed"), rows', Applied')
  BY EndedOK
<1>7. /\ mig' \in [Runner -> RunnerLocals] /\ mig'[m] = Ended("failed")
      /\ \A q \in Runner : q # m => mig'[q] = mig[q]
  BY <1>1, <1>2, <1>6 DEF TypeInv
<1>8. Applied \subseteq Applied' BY <1>5
<1>9. /\ PoolInv' /\ OwnersInv' /\ RowsOK(rows')
      /\ \A r \in Creator : CreatorOK(r, req'[r], rows', nextId', lock')
      /\ \A q \in Runner : q # m => RunnerOK(q, mig'[q], rows', Applied')
      /\ \A v \in Applied : SeededIn(rows', v, None)
  BY <1>2, <1>4, <1>7, <1>8, MigratedBeside
<1>10. \A q \in Runner : RunnerOK(q, mig'[q], rows', Applied') BY <1>6, <1>7, <1>9
<1>11. TypeInv' BY <1>1, <1>2, <1>4, <1>7 DEF TypeInv, Settled
<1>12. VersionsInv'
  <2>1. \A y, z \in versions' : y.v = z.v => y = z BY <1>1, <1>2 DEF VersionsInv
  <2>2. ASSUME NEW q \in Runner, NEW w \in Version
        PROVE  w \in mig'[q].done <=> [v |-> w, owner |-> q] \in versions'
    <3>1. w \in mig[q].done <=> [v |-> w, owner |-> q] \in versions BY <1>1 DEF VersionsInv
    <3>2. CASE q = m BY <1>2, <1>6, <1>7, <3>2
    <3>3. CASE q # m BY <1>2, <1>7, <3>1, <3>3
    <3> QED BY <3>2, <3>3
  <2> QED BY <1>1, <1>2, <1>5, <1>9, <2>1, <2>2 DEF VersionsInv
<1> QED BY <1>9, <1>10, <1>11, <1>12 DEF TransactionsInv

\* The rows of schema_versions after the commit of runner m.
LEMMA CommitVersions ==
    ASSUME TransactionsInv, NEW m \in Runner, CommitAs(m, mig[m].done, Ended("end"))
    PROVE  /\ versions' \in SUBSET VersionRow
           /\ Applied' = Applied \cup mig[m].done
           /\ Applied \cap mig[m].done = {}
           /\ \A x, y \in versions' : x.v = y.v => x = y
           /\ \A q \in Runner : q # m =>
                \A w \in Version : [v |-> w, owner |-> q] \in versions' <=> [v |-> w, owner |-> q] \in versions
           /\ \A x \in versions' : x.owner # m
<1> DEFINE F(x) == [v |-> x.v, owner |-> IF x.owner = m THEN None ELSE x.owner]
<1>1. TypeInv /\ VersionsInv /\ m # None BY Constants DEF TransactionsInv
<1>2. versions' = {F(x) : x \in versions} \cup {[v |-> w, owner |-> None] : w \in mig[m].done}
  BY DEF CommitAs
<1>3. mig[m].done \in SUBSET Version BY <1>1, RunnerFields DEF TypeInv
<1>4. \A x \in versions : x \in VersionRow /\ x.v \in Version /\ x.owner \in Runner \cup {None}
                          /\ x = [v |-> x.v, owner |-> x.owner]
  BY <1>1 DEF TypeInv, VersionRow
<1>5. \A w \in mig[m].done : [v |-> w, owner |-> m] \in versions BY <1>1, <1>3 DEF VersionsInv
<1>6. \A w \in mig[m].done : [v |-> w, owner |-> None] = F([v |-> w, owner |-> m]) OBVIOUS
<1>7. versions' = {F(x) : x \in versions} BY <1>2, <1>5, <1>6
<1>8. \A x \in versions : F(x).v = x.v /\ F(x).owner = (IF x.owner = m THEN None ELSE x.owner)
                          /\ F(x) \in VersionRow
  BY <1>4 DEF VersionRow
<1>9. \A x \in versions : x.owner # m => F(x) = x BY <1>4
<1> HIDE DEF F
<1>10. \A y \in versions' : \E x \in versions : y = F(x) BY <1>7
<1>11. \A x \in versions : F(x) \in versions' BY <1>7
<1>12. versions' \in SUBSET VersionRow BY <1>8, <1>10
<1>13. \A x, y \in versions' : x.v = y.v => x = y BY <1>1, <1>8, <1>10 DEF VersionsInv
<1>14. \A x \in versions' : x.owner # m BY <1>1, <1>8, <1>10
<1>15. \A x \in versions : x.owner = m => x.v \in mig[m].done
  <2> SUFFICES ASSUME NEW x \in versions, x.owner = m PROVE x.v \in mig[m].done OBVIOUS
  <2>1. [v |-> x.v, owner |-> m] \in versions /\ x.v \in Version BY <1>4
  <2> QED BY <1>1, <2>1 DEF VersionsInv
<1>16. Applied \cap mig[m].done = {}
  <2> SUFFICES ASSUME NEW w \in Applied, w \in mig[m].done PROVE FALSE OBVIOUS
  <2>1. PICK x \in versions : x.v = w /\ x.owner = None BY DEF Applied
  <2>2. [v |-> w, owner |-> m] \in versions BY <1>5
  <2>3. x = [v |-> w, owner |-> m] BY <1>1, <2>1, <2>2 DEF VersionsInv
  <2> QED BY <1>1, <2>1, <2>3
<1>17. Applied' = Applied \cup mig[m].done
  <2>1. \A w \in Applied' : w \in Applied \cup mig[m].done
    <3> SUFFICES ASSUME NEW y \in versions', y.owner = None PROVE y.v \in Applied \cup mig[m].done
      BY DEF Applied
    <3>1. PICK x \in versions : y = F(x) BY <1>10
    <3>2. x.v = y.v /\ (x.owner = m \/ x.owner = None) BY <1>8, <3>1
    <3>3. x.owner = None => x.v \in Applied BY DEF Applied
    <3> QED BY <1>15, <3>2, <3>3
  <2>2. \A w \in Applied : w \in Applied'
    <3> SUFFICES ASSUME NEW x \in versions, x.owner = None PROVE x.v \in Applied' BY DEF Applied
    <3>1. F(x) \in versions' /\ F(x).v = x.v /\ F(x).owner = None BY <1>1, <1>8, <1>11
    <3> QED BY <3>1 DEF Applied
  <2>3. \A w \in mig[m].done : w \in Applied'
    <3> SUFFICES ASSUME NEW w \in mig[m].done PROVE w \in Applied' OBVIOUS
    <3>1. PICK x \in versions : x = [v |-> w, owner |-> m] BY <1>5
    <3>2. x.v = w /\ x.owner = m BY <3>1
    <3>3. F(x) \in versions' /\ F(x).v = w /\ F(x).owner = None BY <1>8, <1>11, <3>2
    <3> QED BY <3>3 DEF Applied
  <2> QED BY <2>1, <2>2, <2>3
<1>18. ASSUME NEW q \in Runner, q # m, NEW w \in Version
       PROVE  [v |-> w, owner |-> q] \in versions' <=> [v |-> w, owner |-> q] \in versions
  <2>1. q # None BY Constants
  <2>2. PICK z : z = [v |-> w, owner |-> q] OBVIOUS
  <2>3. z.owner = q BY <2>2
  <2>4. z \in versions => z \in versions' BY <1>9, <1>11, <1>18, <2>3
  <2>5. ASSUME z \in versions' PROVE z \in versions
    <3>1. PICK x \in versions : z = F(x) BY <1>10, <2>5
    <3>2. x.owner # m BY <1>8, <2>1, <2>3, <3>1
    <3> QED BY <1>9, <3>1, <3>2
  <2> QED BY <2>2, <2>4, <2>5
<1> QED BY <1>12, <1>13, <1>14, <1>16, <1>17, <1>18

\* The commit: all of the image is applied, and the numbers of its scripts are committed.
LEMMA CommitAllKeeps ==
    ASSUME TransactionsInv, NEW m \in Runner, CommitAll(m)
    PROVE  TransactionsInv' /\ Scripts[m] \subseteq Applied'
<1>1. TypeInv /\ RowsOK(rows) /\ VersionsInv BY DEF TransactionsInv
<1>2. PICK done : done = mig[m].done OBVIOUS
<1>3. /\ mig[m].at = "commit" /\ CommitAs(m, mig[m].done, Ended("end")) /\ rows' = CommitRows(m)
      /\ ran' = [v \in Version |-> IF v \in done THEN ran[v] + 1 ELSE ran[v]]
      /\ mig' = [mig EXCEPT ![m] = Ended("end")]
      /\ UNCHANGED <<nextId, lock, txn, req>>
  BY <1>2 DEF CommitAll, CommitAs, Is
<1>4. m # None BY Constants
<1>5. /\ Settled(rows, rows', m)
      /\ \A k \in Nat : PlacedIn(rows, k, m) => PlacedIn(rows', k, None)
  BY <1>1, <1>3, <1>4, CommitSettles
<1>6. /\ versions' \in SUBSET VersionRow
      /\ Applied' = Applied \cup done /\ Applied \cap done = {}
      /\ \A x, y \in versions' : x.v = y.v => x = y
      /\ \A q \in Runner : q # m =>
           \A w \in Version : [v |-> w, owner |-> q] \in versions' <=> [v |-> w, owner |-> q] \in versions
      /\ \A x \in versions' : x.owner # m
  BY <1>2, <1>3, CommitVersions
<1>7. /\ mig[m] \in RunnerLocals /\ RunnerOK(m, mig[m], rows, Applied)
  BY DEF TransactionsInv, TypeInv
<1>8. /\ mig[m].todo = {} /\ Scripts[m] \subseteq mig[m].todo \cup done \cup Applied
      /\ done \subseteq Scripts[m] /\ \A v \in done : SeededIn(rows, v, m)
  BY <1>2, <1>3, <1>7 DEF RunnerOK
<1>9. Scripts[m] \subseteq Applied' BY <1>6, <1>8
<1>10. /\ Ended("end") \in RunnerLocals /\ Ended("end").done = {}
       /\ RunnerOK(m, Ended("end"), rows', Applied')
  BY EndedOK
<1>11. /\ mig' \in [Runner -> RunnerLocals] /\ mig'[m] = Ended("end")
       /\ \A q \in Runner : q # m => mig'[q] = mig[q]
  BY <1>1, <1>3, <1>10 DEF TypeInv
<1>12. Applied \subseteq Applied' BY <1>6
<1>13. /\ PoolInv' /\ OwnersInv' /\ RowsOK(rows')
       /\ \A r \in Creator : CreatorOK(r, req'[r], rows', nextId', lock')
       /\ \A q \in Runner : q # m => RunnerOK(q, mig'[q], rows', Applied')
       /\ \A v \in Applied : SeededIn(rows', v, None)
  BY <1>3, <1>5, <1>11, <1>12, MigratedBeside
<1>14. \A q \in Runner : RunnerOK(q, mig'[q], rows', Applied') BY <1>10, <1>11, <1>13
<1>15. done \subseteq Version /\ Scripts[m] \subseteq Version BY <1>8, ImageIsPrefix
<1>16. ran' \in [Version -> Nat] BY <1>1, <1>3 DEF TypeInv
<1>17. TypeInv' BY <1>1, <1>3, <1>5, <1>6, <1>11, <1>16 DEF TypeInv, Settled
<1>18. VersionsInv'
  <2>1. ASSUME NEW q \in Runner, NEW w \in Version
        PROVE  w \in mig'[q].done <=> [v |-> w, owner |-> q] \in versions'
    <3>1. w \in mig[q].done <=> [v |-> w, owner |-> q] \in versions BY <1>1 DEF VersionsInv
    <3>2. CASE q = m BY <1>6, <1>10, <1>11, <3>2
    <3>3. CASE q # m BY <1>6, <1>11, <3>1, <3>3
    <3> QED BY <3>2, <3>3
  <2>2. ASSUME NEW w \in Version PROVE ran'[w] = IF w \in Applied' THEN 1 ELSE 0
    <3>1. ran[w] = IF w \in Applied THEN 1 ELSE 0 BY <1>1 DEF VersionsInv
    <3>2. CASE w \in done BY <1>3, <1>6, <3>1, <3>2
    <3>3. CASE w \notin done BY <1>3, <1>6, <3>1, <3>3
    <3> QED BY <3>2, <3>3
  <2>3. ASSUME NEW v \in Applied', NEW w \in 1..v PROVE w \in Applied'
    <3>1. CASE v \in Applied BY <1>1, <1>6, <3>1 DEF VersionsInv
    <3>2. CASE v \in done
      <4>1. w \in Scripts[m] BY <1>8, <3>2, ImageIsPrefix
      <4> QED BY <1>9, <4>1
    <3> QED BY <1>6, <3>1, <3>2
  <2>4. ASSUME NEW v \in Applied' PROVE SeededIn(rows', v, None)
    <3>1. CASE v \in Applied BY <1>13, <3>1
    <3>2. CASE v \in done BY <1>5, <1>8, <1>15, <3>2, SeedsType DEF SeededIn
    <3> QED BY <1>6, <3>1, <3>2
  <2> QED BY <1>6, <2>1, <2>2, <2>3, <2>4 DEF VersionsInv
<1> QED BY <1>9, <1>13, <1>14, <1>17, <1>18 DEF TransactionsInv

-----------------------------------------------------------------------------
(***************************************************************************)
(* The invariant, and the theorems.                                        *)
(***************************************************************************)
LEMMA InitKeeps == Init => TransactionsInv
<1> SUFFICES ASSUME Init PROVE TransactionsInv OBVIOUS
<1>1. PICK d \in Deployed : /\ versions = {[v |-> v, owner |-> None] : v \in d}
                            /\ ran = [v \in Version |-> IF v \in d THEN 1 ELSE 0]
  BY DEF Init
<1>2. /\ rows = {} /\ nextId = 1 /\ lock = None /\ txn = [c \in Conn |-> "idle"]
      /\ req = [r \in Request |-> [Done EXCEPT !.at = "new"]]
      /\ mig = [m \in Runner |-> Ended("new")]
  BY DEF Init
<1>3. PICK n \in 0..Len(Seeds) : d = 1..n BY ImagesAssumption
<1>4. d \subseteq Version /\ \A v \in d : Seeds[v] = <<>> BY <1>3, ImagesAssumption, Constants
<1>5. \A r \in Request : /\ req[r] \in Locals /\ req[r].at = "new" /\ req[r].conn = None
                         /\ req[r].err = "none"
  BY <1>2 DEF Done, Locals, Place
<1>6. \A m \in Runner : mig[m] \in RunnerLocals /\ mig[m].at = "new" /\ mig[m].done = {}
  <2> SUFFICES ASSUME NEW m \in Runner
               PROVE  mig[m] \in RunnerLocals /\ mig[m].at = "new" /\ mig[m].done = {}
    OBVIOUS
  <2>1. mig[m] = Ended("new") BY <1>2
  <2> QED BY <2>1, EndedOK
<1>7. versions \in SUBSET VersionRow BY <1>1, <1>4 DEF VersionRow
<1>8. Applied = d
  <2>1. \A x \in versions : x.owner = None /\ x.v \in d BY <1>1
  <2>2. \A v \in d : [v |-> v, owner |-> None] \in versions BY <1>1
  <2>3. \A v \in d : [v |-> v, owner |-> None].owner = None /\ [v |-> v, owner |-> None].v = v OBVIOUS
  <2>4. {y \in versions : y.owner = None} = versions BY <2>1
  <2> QED BY <2>1, <2>2, <2>3, <2>4 DEF Applied
<1>9. TypeInv
  <2>1. req \in [Request -> Locals] BY <1>2, <1>5
  <2>2. mig \in [Runner -> RunnerLocals] BY <1>2, <1>6
  <2>3. ran \in [Version -> Nat] BY <1>1
  <2> QED BY <1>2, <1>7, <2>1, <2>2, <2>3 DEF TypeInv
<1>10. PoolInv BY <1>2, <1>5, Constants DEF PoolInv, Held
<1>11. RowsOK(rows) /\ OwnersInv BY <1>2 DEF RowsOK, OwnersInv
<1>12. \A r \in Creator : CreatorOK(r, req[r], rows, nextId, lock)
  BY <1>2, <1>5, Constants DEF CreatorOK
<1>13. \A m \in Runner : RunnerOK(m, mig[m], rows, Applied) BY <1>6 DEF RunnerOK
<1>14. VersionsInv
  <2>1. \A x, y \in versions : x.v = y.v => x = y BY <1>1
  <2>2. \A x \in versions : x.owner = None BY <1>1
  <2>3. ASSUME NEW m \in Runner, NEW v \in Version
        PROVE  v \in mig[m].done <=> [v |-> v, owner |-> m] \in versions
    <3>1. [v |-> v, owner |-> m].owner # None BY Constants
    <3> QED BY <1>6, <2>2, <3>1
  <2>4. \A v \in Version : ran[v] = IF v \in Applied THEN 1 ELSE 0 BY <1>1, <1>8
  <2>5. \A v \in Applied : \A w \in 1..v : w \in Applied BY <1>3, <1>8
  <2>6. \A v \in Applied : SeededIn(rows, v, None)
    <3>1. Len(<<>>) = 0 OBVIOUS
    <3> QED BY <1>4, <1>8, <3>1 DEF SeededIn
  <2> QED BY <2>1, <2>3, <2>4, <2>5, <2>6 DEF VersionsInv
<1> QED BY <1>9, <1>10, <1>11, <1>12, <1>13, <1>14 DEF TransactionsInv

LEMMA StepKeeps == TransactionsInv /\ [Next]_vars => TransactionsInv'
<1> SUFFICES ASSUME TransactionsInv, [Next]_vars PROVE TransactionsInv' OBVIOUS
<1>1. CASE UNCHANGED vars BY <1>1, StartKeeps DEF vars
<1>2. ASSUME NEW p, Start(p) PROVE TransactionsInv' BY <1>2, StartKeeps DEF Start
<1>3. ASSUME NEW r \in Request, Acquire(r) PROVE TransactionsInv' BY <1>3, AcquireKeeps
<1>4. ASSUME NEW r \in Request, AcquireTimeout(r) PROVE TransactionsInv' BY <1>4, AcquireTimeoutKeeps
<1>5. ASSUME NEW r \in Request, Release(r) PROVE TransactionsInv' BY <1>5, ReleaseKeeps
<1>6. ASSUME NEW r \in Request, StatementFails(r) PROVE TransactionsInv' BY <1>6, StatementFailsKeeps
<1>7. ASSUME NEW r \in Request, Cancel(r) PROVE TransactionsInv' BY <1>7, CancelKeeps
<1>8. ASSUME NEW r \in Request, Commit(r) PROVE TransactionsInv' BY <1>8, CommitKeeps
<1>9. ASSUME NEW r \in Creator, Lock(r) PROVE TransactionsInv' BY <1>9, LockKeeps
<1>10. ASSUME NEW r \in Creator, ReadLatest(r) PROVE TransactionsInv' BY <1>10, ReadKeeps
<1>11. ASSUME NEW r \in Creator, DrawId(r) PROVE TransactionsInv' BY <1>11, DrawIdKeeps
<1>12. ASSUME NEW r \in Creator, Insert(r) PROVE TransactionsInv' BY <1>12, InsertKeeps
<1>13. ASSUME NEW r \in Creator, InsertClashes(r) PROVE TransactionsInv' BY <1>13, InsertClashesKeeps
<1>14. ASSUME NEW r \in Deleter, Delete(r) PROVE TransactionsInv' BY <1>14, DeleteKeeps
<1>15. ASSUME NEW m \in Runner, Begin(m) PROVE TransactionsInv' BY <1>15, BeginKeeps
<1>16. ASSUME NEW m \in Runner, Seed(m) PROVE TransactionsInv' BY <1>16, SeedKeeps
<1>17. ASSUME NEW m \in Runner, RecordVersion(m) PROVE TransactionsInv' BY <1>17, RecordKeeps
<1>18. ASSUME NEW m \in Runner, RecordClashes(m) PROVE TransactionsInv'
  BY <1>18, RollbackKeeps DEF RecordClashes
<1>19. ASSUME NEW m \in Runner, CommitAll(m) PROVE TransactionsInv' BY <1>19, CommitAllKeeps
<1>20. ASSUME NEW m \in Runner, MigrateFails(m) PROVE TransactionsInv'
  BY <1>20, RollbackKeeps DEF MigrateFails
<1>21. ASSUME NEW r \in Request, CancelRelease(r) PROVE TransactionsInv'
  BY <1>21, CancelReleaseKeeps
<1> QED BY <1>1, <1>2, <1>3, <1>4, <1>5, <1>6, <1>7, <1>8, <1>9, <1>10, <1>11, <1>12, <1>13,
           <1>14, <1>15, <1>16, <1>17, <1>18, <1>19, <1>20, <1>21 DEF Next

LEMMA TransactionsCorrect == Spec => []TransactionsInv
  BY InitKeeps, StepKeeps, PTL DEF Spec

\* release of connection.py: whatever fails or is cancelled between two statements, a
\* connection that can be had is inside no transaction, and a request that is through
\* holds neither the lock nor a row, for any number of requests and replicas.
THEOREM ConnectionsGoBackClean == Spec => []PoolIsClean
<1>1. TransactionsInv => PoolIsClean
  <2> SUFFICES ASSUME TransactionsInv PROVE PoolIsClean OBVIOUS
  <2>1. \A r \in Request : \A c \in Free(Home[r]) : txn[c] = "idle"
    BY DEF TransactionsInv, PoolInv, Free
  <2>2. ASSUME NEW r \in Creator, req[r].at \in {"new", "end"}
        PROVE  lock # r /\ \A x \in rows : x.owner # r
    <3>1. r \in Request BY Constants
    <3>2. lock # r BY <2>2 DEF TransactionsInv, CreatorOK
    <3> QED BY <2>2, <3>1, <3>2, OwnRow
  <2> QED BY <2>1, <2>2 DEF PoolIsClean
<1> QED BY <1>1, TransactionsCorrect, PTL

\* PGMonitorTargetStore.create: the row with the largest id is the one with the largest
\* number, although migrations insert numbers of their own beside the advisory lock, for
\* any scripts whose numbers go on from one another.
THEOREM NumbersAscend == Spec => []LatestIsLargest
<1>1. TransactionsInv => LatestIsLargest
  <2> SUFFICES ASSUME TransactionsInv, NEW x \in Committed, NEW y \in Committed, x.id < y.id
               PROVE  x.no < y.no
    BY DEF LatestIsLargest
  <2>1. x \in rows /\ y \in rows BY DEF Committed
  <2>2. x.id \in Nat /\ y.id \in Nat /\ x.no \in Nat /\ y.no \in Nat
    BY <2>1, RowFields DEF TransactionsInv, TypeInv
  <2>3. x.no # y.no BY <2>1, <2>2 DEF TransactionsInv, RowsOK
  <2>4. ~(y.no < x.no) BY <2>1, <2>2 DEF TransactionsInv, RowsOK
  <2> QED BY <2>2, <2>3, <2>4
<1> QED BY <1>1, TransactionsCorrect, PTL

\* PGMonitorTargetStore.create: the advisory lock keeps creates from reading the same
\* number, whatever requests fail or are cancelled meanwhile.
THEOREM CreatesDoNotCollide == Spec => []NoCreateCollides
<1>1. TransactionsInv => NoCreateCollides BY DEF TransactionsInv, CreatorOK, NoCreateCollides
<1> QED BY <1>1, TransactionsCorrect, PTL

\* MigrationRunner.migrate: what a script does is committed once, with its version, by any
\* number of runs of any images that overlap or fail half-way.
THEOREM ScriptsAreCommittedOnce == Spec => []ScriptsOnce
<1>1. TransactionsInv => ScriptsOnce BY DEF TransactionsInv, VersionsInv, ScriptsOnce
<1> QED BY <1>1, TransactionsCorrect, PTL

\* MigrationRunner.migrate: the schema goes from one image to another in one step, so the
\* one table schema_ready looks at is enough.
THEOREM ImagesAreWhole == Spec => ReadyMeansMigrated
<1>1. TransactionsInv /\ [Next]_vars =>
        [Applied' # Applied => \E m \in Runner : Scripts[m] \subseteq Applied']_vars
  <2> SUFFICES ASSUME TransactionsInv, Next, Applied' # Applied
               PROVE  \E m \in Runner : Scripts[m] \subseteq Applied'
    BY DEF vars, Applied
  <2>1. versions' # versions BY DEF Applied
  <2>2. ASSUME NEW m \in Runner, CommitAll(m) PROVE Scripts[m] \subseteq Applied'
    BY <2>2, CommitAllKeeps
  <2>3. ASSUME NEW m \in Runner, RecordVersion(m) PROVE FALSE
    <3>1. m # None BY Constants
    <3>2. \E v : versions' = versions \cup {[v |-> v, owner |-> m]} BY <2>3 DEF RecordVersion
    <3>3. Applied' = Applied BY <3>1, <3>2 DEF Applied
    <3> QED BY <3>3
  <2>4. ASSUME NEW m \in Runner, RollbackAll(m) PROVE FALSE
    <3>1. m # None BY Constants
    <3>2. Applied' = Applied BY <2>4, <3>1 DEF Applied, RollbackAll
    <3> QED BY <3>2
  <2>5. \E m \in Runner : CommitAll(m) \/ RecordVersion(m) \/ RollbackAll(m)
    BY <2>1 DEF Next, Start, Acquire, AcquireTimeout, Release, Rollback, StatementFails, Cancel,
        CancelRelease, Commit, Raise,
        Lock, ReadLatest, DrawId, Insert, InsertClashes, Delete, Begin, Seed, RecordClashes, MigrateFails
  <2> QED BY <2>2, <2>3, <2>4, <2>5
<1> QED BY <1>1, TransactionsCorrect, PTL DEF Spec, ReadyMeansMigrated
=============================================================================
