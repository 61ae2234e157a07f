------------------------- MODULE DesktopFilesProofs --------------------------
(***************************************************************************)
(* Lemmas about the operators of DesktopFiles, for any directories and     *)
(* files, and what the sequential scan yields: what the proofs about the   *)
(* concurrent scans share.                                                 *)
(***************************************************************************)
EXTENDS DesktopFiles, FiniteSetTheorems, WellFoundedInduction, TLAPS

\* The list of directories is a sequence of directories, of finite length.
LEMMA DirsFacts ==
  ASSUME NEW dirs \in Inputs
  PROVE  /\ Len(dirs) \in Nat /\ DOMAIN dirs = 1 .. Len(dirs)
         /\ \A k \in DOMAIN dirs : dirs[k] \in Directory
         /\ IsFiniteSet(DOMAIN dirs) /\ Cardinality(DOMAIN dirs) = Len(dirs)
<1>1. dirs \in Seq(Directory)
  BY InputsAssumption
<1>2. Len(dirs) \in Nat /\ DOMAIN dirs = 1 .. Len(dirs)
  BY <1>1
<1>3. \A k \in DOMAIN dirs : dirs[k] \in Directory
  BY <1>1
<1>4. IsFiniteSet(1 .. Len(dirs)) /\ Cardinality(1 .. Len(dirs)) = Len(dirs)
  <2> DEFINE L == Len(dirs)
  <2>1. 1 \in Int /\ L \in Int /\ L >= 0
    BY <1>2
  <2>2. IsFiniteSet(1 .. L) /\ Cardinality(1 .. L) = IF 1 > L THEN 0 ELSE L - 1 + 1
    <3> HIDE DEF L
    <3>1. QED
      BY <2>1, FS_Interval
  <2>3. (IF 1 > L THEN 0 ELSE L - 1 + 1) = L
    BY <2>1
  <2>4. QED
    BY <2>2, <2>3
<1>5. QED
  BY <1>2, <1>3, <1>4

LEMMA FilesFacts ==
  ASSUME NEW dir \in Directory
  PROVE  /\ dir.files \in Seq(File)
         /\ Len(dir.files) \in Nat /\ DOMAIN dir.files = 1 .. Len(dir.files)
         /\ KeptIn(dir.files) \subseteq DOMAIN dir.files
<1>1. dir.files \in Seq(File)
  <2>1. << >> \in Seq(File)
    OBVIOUS
  <2>2. QED
    BY <2>1 DEF Directory
<1>2. QED
  BY <1>1 DEF KeptIn

\* A set of positions in a sequence has a last one.
LEMMA LastPosition ==
  ASSUME NEW len \in Nat, NEW S, S \subseteq 1 .. len, S # {}
  PROVE  \E k \in S : \A j \in S : j <= k
<1> DEFINE T == {m \in Nat : \E k \in S : m = len - k}
<1>1. T \subseteq Nat /\ T # {}
  <2>1. PICK k \in S : TRUE
    OBVIOUS
  <2>2. len - k \in T
    OBVIOUS
  <2>3. QED
    BY <2>2
<1>2. PICK m \in T : \A y \in T : ~ (<<y, m>> \in OpToRel(<, Nat))
  <2> HIDE DEF T
  <2>1. QED
    BY <1>1, WFMin, NatLessThanWellFounded
<1>3. \A y \in T : ~ (y < m)
  BY <1>1, <1>2 DEF OpToRel
<1>4. PICK k \in S : m = len - k
  OBVIOUS
<1>5. ASSUME NEW j \in S
      PROVE  j <= k
  <2>1. len - j \in T
    OBVIOUS
  <2>2. ~ (len - j < len - k)
    BY <2>1, <1>3, <1>4
  <2>3. QED
    BY <2>2
<1>6. QED
  BY <1>5

\* A map is a function from names to identifiers.
LEMMA MapFacts ==
  /\ NoFiles \in Maps /\ DOMAIN NoFiles = {}
  /\ \A m \in Maps : DOMAIN m \subseteq Names /\ \A n \in DOMAIN m : m[n] \in Ids
  /\ \A S \in SUBSET Names : [S -> Ids] \subseteq Maps
<1>1. [n \in {} |-> n] \in [{} -> Ids]
  OBVIOUS
<1>2. QED
  BY <1>1 DEF Maps, NoFiles

\* What the scan returns is not NoRet.
LEMMA ResultFacts ==
  /\ Failure \in Results /\ Failure # NoRet
  /\ \A m \in Maps : Success(m) \in Results /\ Success(m) # NoRet
<1>1. Failure \in Results
  BY MapFacts DEF Failure, Results
<1>2. \A m \in Maps : Success(m) \in Results
  BY DEF Success, Results
<1>3. QED
  BY <1>1, <1>2, NoRetAssumption

\* Copying yields a map, whose entries are those of the one or the other.
LEMMA CopyFacts ==
  ASSUME NEW a \in Maps, NEW b \in Maps
  PROVE  /\ Copy(a, b) \in Maps
         /\ DOMAIN Copy(a, b) = DOMAIN a \cup DOMAIN b
         /\ \A n \in DOMAIN Copy(a, b) :
              \/ n \in DOMAIN a /\ Copy(a, b)[n] = a[n]
              \/ n \in DOMAIN b /\ Copy(a, b)[n] = b[n]
<1> DEFINE S == DOMAIN a \cup DOMAIN b
<1>1. S \in SUBSET Names
  BY MapFacts
<1>2. Copy(a, b) \in [S -> Ids]
  BY MapFacts DEF Copy
<1>3. Copy(a, b) \in Maps
  BY <1>1, <1>2, MapFacts
<1>4. QED
  BY <1>3 DEF Copy

\* ScanDirectory() yields the names of the files kept, each with the
\* identifier of one of them.
LEMMA ScanFacts ==
  ASSUME NEW dir \in Directory
  PROVE  /\ Scan(dir) \in Maps
         /\ DOMAIN Scan(dir) = {dir.files[k].name : k \in KeptIn(dir.files)}
         /\ \A n \in DOMAIN Scan(dir) : \E j \in KeptIn(dir.files) :
              dir.files[j].name = n /\ dir.files[j].id = Scan(dir)[n]
<1> DEFINE fs == dir.files
           N == {fs[k].name : k \in KeptIn(fs)}
           last(n) == CHOOSE k \in KeptIn(fs) :
                        /\ fs[k].name = n
                        /\ \A j \in KeptIn(fs) : fs[j].name = n => j <= k
<1>1. \A k \in KeptIn(fs) : fs[k] \in File
  BY FilesFacts
<1>2. N \in SUBSET Names
  BY <1>1 DEF File
<1>3. ASSUME NEW n \in N
      PROVE  last(n) \in KeptIn(fs) /\ fs[last(n)].name = n
  <2> DEFINE S == {k \in KeptIn(fs) : fs[k].name = n}
  <2>1. S # {} /\ S \subseteq 1 .. Len(fs) /\ Len(fs) \in Nat
    BY FilesFacts
  <2>2. \E k \in S : \A j \in S : j <= k
    <3> HIDE DEF S, fs
    <3>1. QED
      BY <2>1, LastPosition
  <2>3. QED
    BY <2>2
<1>4. Scan(dir) = [n \in N |-> fs[last(n)].id]
  BY DEF Scan
<1>5. ASSUME NEW n \in N
      PROVE  fs[last(n)].id \in Ids
  BY <1>1, <1>3 DEF File
<1>6. Scan(dir) \in [N -> Ids]
  BY <1>4, <1>5
<1>7. Scan(dir) \in Maps
  BY <1>2, <1>6, MapFacts
<1>8. DOMAIN Scan(dir) = N
  BY <1>4
<1>9. ASSUME NEW n \in N
      PROVE  \E j \in KeptIn(fs) : fs[j].name = n /\ fs[j].id = Scan(dir)[n]
  <2>1. Scan(dir)[n] = fs[last(n)].id
    BY <1>4
  <2>2. QED
    BY <1>3, <2>1
<1>10. QED
  BY <1>7, <1>8, <1>9

-----------------------------------------------------------------------------

\* A property of 0 that goes over to the next number holds up to any bound.
LEMMA UpTo ==
  ASSUME NEW len \in Nat, NEW S, 0 \in S,
         \A k \in 1 .. len : k - 1 \in S => k \in S
  PROVE  0 .. len \subseteq S
<1> SUFFICES ASSUME NEW k \in 0 .. len, k \notin S
             PROVE  FALSE
  OBVIOUS
<1> DEFINE T == {m \in 0 .. len : m \notin S}
<1>1. T \subseteq Nat /\ T # {}
  OBVIOUS
<1>2. PICK m \in T : \A y \in T : ~ (<<y, m>> \in OpToRel(<, Nat))
  <2> HIDE DEF T
  <2>1. QED
    BY <1>1, WFMin, NatLessThanWellFounded
<1>3. \A y \in T : ~ (y < m)
  BY <1>1, <1>2 DEF OpToRel
<1>4. m \in 1 .. len /\ m - 1 \notin T
  BY <1>3
<1>5. m - 1 \in S
  BY <1>4
<1>6. QED
  BY <1>4, <1>5

\* The maps that scanMultipleST() goes through: one for each number of
\* directories it has read.
Partial(ds, len, maps) ==
  maps = [k \in 0 .. len |->
            IF k = 0 THEN NoFiles ELSE Copy(maps[k - 1], Scan(ds[k]))]

LEMMA PartialExists ==
  ASSUME NEW ds, NEW len \in Nat
  PROVE  \E maps : Partial(ds, len, maps)
<1> DEFINE S == {k \in 0 .. len : \E maps : Partial(ds, k, maps)}
<1>1. 0 \in S
  <2> DEFINE maps == [k \in 0 .. 0 |-> NoFiles]
  <2>1. maps = [k \in 0 .. 0 |->
                  IF k = 0 THEN NoFiles ELSE Copy(maps[k - 1], Scan(ds[k]))]
    OBVIOUS
  <2>2. Partial(ds, 0, maps)
    BY <2>1 DEF Partial
  <2>3. QED
    BY <2>2
<1>2. ASSUME NEW k \in 1 .. len, k - 1 \in S
      PROVE  k \in S
  <2>1. PICK maps : Partial(ds, k - 1, maps)
    BY <1>2
  <2> DEFINE next == [j \in 0 .. k |->
                        IF j = k THEN Copy(maps[k - 1], Scan(ds[k])) ELSE maps[j]]
  <2>2. ASSUME NEW j \in 0 .. k
        PROVE  next[j] = IF j = 0 THEN NoFiles ELSE Copy(next[j - 1], Scan(ds[j]))
    <3>1. CASE j = k
      <4>1. j # 0 /\ j - 1 \in 0 .. k /\ j - 1 # k
        BY <3>1
      <4>2. next[j - 1] = maps[k - 1]
        BY <3>1, <4>1
      <4>3. QED
        BY <3>1, <4>1, <4>2
    <3>2. CASE j # k
      <4>1. j \in 0 .. (k - 1) /\ next[j] = maps[j]
        BY <3>2
      <4>2. maps[j] = IF j = 0 THEN NoFiles ELSE Copy(maps[j - 1], Scan(ds[j]))
        BY <2>1, <4>1 DEF Partial
      <4>3. j # 0 => next[j - 1] = maps[j - 1]
        BY <4>1
      <4>4. QED
        BY <4>1, <4>2, <4>3
    <3>3. QED
      BY <3>1, <3>2
  <2>3. next = [j \in 0 .. k |->
                  IF j = 0 THEN NoFiles ELSE Copy(next[j - 1], Scan(ds[j]))]
    BY <2>2
  <2>4. Partial(ds, k, next)
    <3> HIDE DEF next
    <3>1. QED
      BY <2>3 DEF Partial
  <2>5. QED
    BY <2>4
<1>3. 0 .. len \subseteq S
  <2> HIDE DEF S
  <2>1. QED
    BY <1>1, <1>2, UpTo
<1>4. QED
  BY <1>3

\* After k directories it holds their names, each with an identifier it is
\* offered under.
HoldsUpTo(ds, k, m) ==
  /\ m \in Maps
  /\ \A i \in 1 .. k : DOMAIN Scan(ds[i]) \subseteq DOMAIN m
  /\ \A n \in DOMAIN m : OfferedAs(ds, n, m[n])

LEMMA PartialFacts ==
  ASSUME NEW ds \in Inputs, NEW maps, Partial(ds, Len(ds), maps)
  PROVE  \A k \in 0 .. Len(ds) : HoldsUpTo(ds, k, maps[k])
<1> DEFINE S == {k \in 0 .. Len(ds) : HoldsUpTo(ds, k, maps[k])}
<1>1. Len(ds) \in Nat /\ DOMAIN ds = 1 .. Len(ds) /\ \A k \in DOMAIN ds : ds[k] \in Directory
  BY DirsFacts
<1>2. 0 \in S
  <2>1. 0 \in 0 .. Len(ds) /\ maps[0] = NoFiles
    BY <1>1 DEF Partial
  <2>2. HoldsUpTo(ds, 0, NoFiles)
    BY MapFacts DEF HoldsUpTo
  <2>3. QED
    BY <2>1, <2>2
<1>3. ASSUME NEW k \in 1 .. Len(ds), k - 1 \in S
      PROVE  k \in S
  <2> DEFINE a == maps[k - 1]
             b == Scan(ds[k])
  <2>1. maps[k] = Copy(a, b)
    BY <1>1 DEF Partial
  <2>2. HoldsUpTo(ds, k - 1, a)
    BY <1>3
  <2>3. ds[k] \in Directory /\ k \in DOMAIN ds
    BY <1>1
  <2>4. /\ b \in Maps
        /\ \A n \in DOMAIN b : OfferedAs(ds, n, b[n])
    <3>1. /\ b \in Maps
          /\ \A n \in DOMAIN b : \E j \in KeptIn(ds[k].files) :
               ds[k].files[j].name = n /\ ds[k].files[j].id = b[n]
      BY <2>3, ScanFacts
    <3>2. QED
      BY <2>3, <3>1 DEF OfferedAs
  <2>5. /\ Copy(a, b) \in Maps
        /\ DOMAIN Copy(a, b) = DOMAIN a \cup DOMAIN b
        /\ \A n \in DOMAIN Copy(a, b) :
             \/ n \in DOMAIN a /\ Copy(a, b)[n] = a[n]
             \/ n \in DOMAIN b /\ Copy(a, b)[n] = b[n]
    <3>1. a \in Maps
      BY <2>2 DEF HoldsUpTo
    <3> HIDE DEF a, b
    <3>2. QED
      BY <2>4, <3>1, CopyFacts
  <2>6. \A n \in DOMAIN Copy(a, b) : OfferedAs(ds, n, Copy(a, b)[n])
    <3>1. \A n \in DOMAIN a : OfferedAs(ds, n, a[n])
      BY <2>2 DEF HoldsUpTo
    <3> HIDE DEF a, b
    <3>2. QED
      BY <2>4, <2>5, <3>1
  <2>7. \A i \in 1 .. k : DOMAIN Scan(ds[i]) \subseteq DOMAIN Copy(a, b)
    <3>1. \A i \in 1 .. (k - 1) : DOMAIN Scan(ds[i]) \subseteq DOMAIN a
      BY <2>2 DEF HoldsUpTo
    <3>2. \A i \in 1 .. k : i \in 1 .. (k - 1) \/ i = k
      OBVIOUS
    <3>3. QED
      BY <2>5, <3>1, <3>2
  <2>8. HoldsUpTo(ds, k, Copy(a, b))
    <3> HIDE DEF a, b
    <3>1. QED
      BY <2>5, <2>6, <2>7 DEF HoldsUpTo
  <2>9. QED
    BY <2>1, <2>8
<1>4. 0 .. Len(ds) \subseteq S
  <2> HIDE DEF S
  <2>1. QED
    BY <1>1, <1>2, <1>3, UpTo
<1>5. QED
  BY <1>4

\* The value of the sequential scan, with its recursion resolved.
LEMMA ScanSTValue ==
  ASSUME NEW ds \in Inputs
  PROVE  /\ (\E k \in DOMAIN ds : Fails(ds[k])) => ScanST(ds) = Failure
         /\ ~ (\E k \in DOMAIN ds : Fails(ds[k])) =>
              \E maps : /\ Partial(ds, Len(ds), maps)
                       /\ ScanST(ds) = Success(maps[Len(ds)])
<1> DEFINE upTo[k \in 0 .. Len(ds)] ==
             IF k = 0 THEN NoFiles ELSE Copy(upTo[k - 1], Scan(ds[k]))
<1>1. ScanST(ds) = IF \E k \in DOMAIN ds : Fails(ds[k])
                   THEN Failure
                   ELSE Success(upTo[Len(ds)])
  BY DEF ScanST
<1>2. Partial(ds, Len(ds), upTo)
  <2>1. PICK maps : Partial(ds, Len(ds), maps)
    BY DirsFacts, PartialExists
  <2>2. QED
    BY <2>1 DEF Partial
<1>3. QED
  <2> HIDE DEF upTo
  <2>1. QED
    BY <1>1, <1>2

-----------------------------------------------------------------------------

\* What ScanMulti promises of result r.
IsPromised(ds, r) ==
  IF \E k \in DOMAIN ds : Fails(ds[k])
  THEN r = Failure
  ELSE /\ r.ok
       /\ DOMAIN r.files = {n \in Names : Offered(ds, n)}
       /\ \A n \in DOMAIN r.files : OfferedAs(ds, n, r.files[n])

\* A map that has the names of every directory has those that are offered.
LEMMA AllNames ==
  ASSUME NEW ds \in Inputs, NEW m \in Maps,
         \A k \in DOMAIN ds : \A j \in KeptIn(ds[k].files) :
           ds[k].files[j].name \in DOMAIN m,
         \A n \in DOMAIN m : OfferedAs(ds, n, m[n]),
         ~ \E k \in DOMAIN ds : Fails(ds[k])
  PROVE  Success(m) \in Results /\ IsPromised(ds, Success(m))
<1>1. Success(m) \in Results /\ Success(m).ok /\ Success(m).files = m
  BY ResultFacts DEF Success
<1>2. DOMAIN m = {n \in Names : Offered(ds, n)}
  <2>1. ASSUME NEW n \in DOMAIN m
        PROVE  n \in Names /\ Offered(ds, n)
    BY MapFacts DEF OfferedAs, Offered
  <2>2. ASSUME NEW n \in Names, Offered(ds, n)
        PROVE  n \in DOMAIN m
    BY <2>2 DEF Offered
  <2>3. QED
    BY <2>1, <2>2
<1>3. QED
  BY <1>1, <1>2 DEF IsPromised

(***************************************************************************)
(* scanMultipleST, one directory after the other, keeps the promise: an    *)
(* error if some directory cannot be read, and otherwise every name that   *)
(* is offered, each with the identifier of a file of that name.            *)
(***************************************************************************)
THEOREM SequentialPromised ==
  ASSUME NEW ds \in Inputs
  PROVE  ScanST(ds) \in Results /\ IsPromised(ds, ScanST(ds))
<1>1. CASE \E k \in DOMAIN ds : Fails(ds[k])
  BY <1>1, ScanSTValue, ResultFacts DEF IsPromised
<1>2. CASE ~ \E k \in DOMAIN ds : Fails(ds[k])
  <2>1. PICK maps : Partial(ds, Len(ds), maps) /\ ScanST(ds) = Success(maps[Len(ds)])
    BY <1>2, ScanSTValue
  <2> DEFINE m == maps[Len(ds)]
  <2>2. /\ Len(ds) \in Nat /\ DOMAIN ds = 1 .. Len(ds)
        /\ \A k \in DOMAIN ds : ds[k] \in Directory
    BY DirsFacts
  <2>3. HoldsUpTo(ds, Len(ds), m)
    BY <2>1, <2>2, PartialFacts
  <2>4. ASSUME NEW k \in DOMAIN ds, NEW j \in KeptIn(ds[k].files)
        PROVE  ds[k].files[j].name \in DOMAIN m
    <3>1. DOMAIN Scan(ds[k]) = {ds[k].files[i].name : i \in KeptIn(ds[k].files)}
      BY <2>2, ScanFacts
    <3>2. DOMAIN Scan(ds[k]) \subseteq DOMAIN m
      BY <2>2, <2>3 DEF HoldsUpTo
    <3>3. QED
      BY <3>1, <3>2
  <2>5. m \in Maps /\ \A n \in DOMAIN m : OfferedAs(ds, n, m[n])
    BY <2>3 DEF HoldsUpTo
  <2>6. Success(m) \in Results /\ IsPromised(ds, Success(m))
    <3> HIDE DEF m
    <3>1. QED
      BY <1>2, <2>4, <2>5, AllNames
  <2>7. QED
    BY <2>1, <2>6
<1>3. QED
  BY <1>1, <1>2

\* Without clashes, the promise leaves no choice.
LEMMA PromiseUnique ==
  ASSUME NEW ds, NEW q \in Results, NEW r \in Results,
         IsPromised(ds, q), IsPromised(ds, r), NoClash(ds)
  PROVE  q = r
<1>1. CASE \E k \in DOMAIN ds : Fails(ds[k])
  BY <1>1 DEF IsPromised
<1>2. CASE ~ \E k \in DOMAIN ds : Fails(ds[k])
  <2> DEFINE N == {n \in Names : Offered(ds, n)}
  <2>1. q.files \in Maps /\ r.files \in Maps /\ q.ok = r.ok
    BY <1>2 DEF Results, IsPromised
  <2>2. DOMAIN q.files = N /\ DOMAIN r.files = N
    BY <1>2 DEF IsPromised
  <2>3. ASSUME NEW n \in N
        PROVE  q.files[n] = r.files[n]
    <3>1. OfferedAs(ds, n, q.files[n]) /\ OfferedAs(ds, n, r.files[n])
      BY <1>2, <2>2 DEF IsPromised
    <3>2. q.files[n] \in Ids /\ r.files[n] \in Ids
      BY <2>1, <2>2, MapFacts
    <3>3. QED
      BY <3>1, <3>2 DEF NoClash
  <2>4. q.files = r.files
    <3>1. \A m \in Maps : m = [n \in DOMAIN m |-> m[n]]
      BY DEF Maps
    <3>2. q.files = [n \in N |-> q.files[n]] /\ r.files = [n \in N |-> r.files[n]]
      BY <2>1, <2>2, <3>1
    <3>3. QED
      BY <2>3, <3>2
  <2>5. QED
    BY <2>1, <2>4 DEF Results
<1>3. QED
  BY <1>1, <1>2
=============================================================================
