---------------------------- MODULE ListingProofs ----------------------------
(***************************************************************************)
(* What a client reads, for lists, pages, machine integers, clusters and   *)
(* manifests of any size: the invariants of Listing.                       *)
(***************************************************************************)
EXTENDS Listing, SequenceTheorems, FiniteSetTheorems, TLAPS

(* What a list shows, as one set of wanted rows.                           *)
Wanted == CASE kind = "approvals" -> Mine(IF filter = "" THEN Tags ELSE {filter})
            [] kind = "drift"     -> Mine({"new"})
            [] OTHER              -> Mine(Tags)

(* No two rows with one id, in a list and in a set.                        *)
DistinctIds(s) == \A i, j \in 1 .. Len(s) : s[i].id = s[j].id => i = j
OwnIds(S)      == \A x, y \in S : x.id = y.id => x = y

(* Releases with ids that lead back to them, and those with none.          *)
LiveGood  == {helmReleaseToType(x) : x \in Revisions}
Good      == LiveGood \cup Range(Archive)
GoodPages == [items : Seq(Good), pages : Int]
-----------------------------------------------------------------------------
(* The inductive invariant, conjunct by conjunct.                          *)
ListInv ==
  /\ DistinctIds(list) /\ Len(list) <= made
  /\ kind \in Stored \cup {"releases", "diff"} /\ filter \in {"", "new"}

(* The places of a list that the pages read so far have covered.           *)
Before(i) == i <= (walk.page - 1) * walk.limit

WalkInv ==
  /\ walk.page = 0 => walk = Idle
  /\ walk.page > 1 => (walk.page - 1) * walk.limit < MaxItems
  /\ walk.counted # None => Walking
  /\ Walking => kind \in Stored

(* A walk under way.  New rows push the others back: what was there and    *)
(* lies on a covered place was seen.  Rows that go pull the others         *)
(* forward: what was seen lies on a covered place.  Rows of one time are   *)
(* left out.                                                               *)
Covered ==
  ~walk.shrunk /\ ~walk.torn =>
    \A b \in walk.before \ Tied :
      \E i \in 1 .. Len(Shown) : Shown[i].id = b /\ (Before(i) => b \in Range(walk.seen))
Passed ==
  ~walk.grew =>
    \A i \in 1 .. Len(Shown) :
      Shown[i].id \notin Tied /\ Shown[i].id \in Range(walk.seen) => Before(i)
Counted ==
  walk.counted # None /\ ~walk.shrunk /\ ~walk.torn => walk.counted = Len(Shown)
SeenInv == Walking => Covered /\ Passed /\ Counted

(* Pages of releases, cached or handed out; a diff.                        *)
PageInv == /\ mem \in [PageNos -> {None} \cup GoodPages]
           /\ redis \in [PageNos -> {None} \cup GoodPages]
           /\ kind = "releases" /\ answer # None => answer \in GoodPages
DiffInv == kind = "diff" => /\ texts \in Manifests \X Manifests
                            /\ answer = None \/ answer = lineDiff(texts[1], texts[2])

(* The revisions in the clusters: finitely many, each with an id.          *)
HelmInv == IsFiniteSet(helm) /\ OwnIds(helm) /\ \A x \in helm : x.id <= made

(* What a request has found: revisions that there were, each one once.     *)
(* One whose state never changed knows the clusters, all it has asked;     *)
(* when it found nothing there is nothing, and if it is about to answer    *)
(* it has what all clusters listed.                                        *)
Stages == {<<"live", "redis", "store">>, <<"redis", "store">>, <<"store">>,
           <<"redis set", "mem">>, <<"mem">>}
Asked(left) == {helmReleaseToType(x) : x \in {y \in helm : y.group \notin left}}
FoundInv(q) ==
  /\ q.todo \in Stages /\ q.found \subseteq LiveGood
  /\ IsFiniteSet(q.found) /\ OwnIds(q.found) /\ \A y \in q.found : y.id <= made
  /\ \A x \in helm, y \in q.found : x.id = y.id => y = helmReleaseToType(x)
GotInv(q)   == Head(q.todo) \in {"redis set", "mem"} => q.got \in GoodPages
QuietInv(q) ==
  q.quiet => /\ up = Clusters
             /\ Head(q.todo) = "live" => q.found = Asked(q.left)
             /\ Head(q.todo) \in {"redis", "store", "redis set"} => helm = {}
             /\ Head(q.todo) = "mem" /\ helm # {} => q.got = Live(Asked({}), q.page)
ReqInv == \A r \in Readers : req[r] # None =>
            kind = "releases" /\ FoundInv(req[r]) /\ GotInv(req[r]) /\ QuietInv(req[r])

IInv == /\ TypeOK /\ ListInv /\ WalkInv /\ SeenInv /\ NothingTwice /\ NothingMissed /\ WalkSucceeds
        /\ PageInv /\ DiffInv /\ HelmInv /\ ReqInv
-----------------------------------------------------------------------------
(***************************************************************************)
(* Induction over the natural numbers, with a set for the predicate.       *)
(***************************************************************************)
LEMMA SetInduction ==
  ASSUME NEW T \in SUBSET Nat, 0 \in T, \A n \in T : n + 1 \in T
  PROVE  T = Nat
<1> DEFINE Less == OpToRel(<, Nat)
<1>1. \A m, n \in Nat : n < m => <<n, m>> \in Less
  BY DEF OpToRel
<1>2. IsWellFoundedOn(Less, Nat)
  BY NatLessThanWellFounded
<1> HIDE DEF Less
<1>3. SUFFICES ASSUME Nat \ T # {} PROVE FALSE
  OBVIOUS
<1>4. \E m \in Nat \ T : \A n \in Nat \ T : ~ (<<n, m>> \in Less)
  <2>1. Nat \ T \subseteq Nat
    OBVIOUS
  <2>2. QED
    BY <1>2, <1>3, <2>1, WFMin, Zenon
<1>5. PICK m \in Nat \ T : \A n \in Nat \ T : ~ (<<n, m>> \in Less)
  BY <1>4
<1>6. m # 0 /\ m \in Nat
  OBVIOUS
<1>7. m - 1 \in Nat /\ m - 1 < m /\ (m - 1) + 1 = m
  BY <1>6
<1>8. m - 1 \in T
  BY <1>1, <1>5, <1>6, <1>7
<1>9. QED
  BY <1>5, <1>7, <1>8

(***************************************************************************)
(* A sequence with one element more in front.                              *)
(***************************************************************************)
LEMMA Cons ==
  ASSUME NEW S, NEW s \in Seq(S), NEW x \in S
  PROVE  /\ <<x>> \o s \in Seq(S) /\ Len(<<x>> \o s) = Len(s) + 1 /\ Len(s) \in Nat
         /\ (<<x>> \o s)[1] = x
         /\ \A i \in 1 .. Len(s) : (<<x>> \o s)[i + 1] = s[i]
         /\ \A i \in 2 .. Len(s) + 1 : (<<x>> \o s)[i] = s[i - 1]
         /\ Range(<<x>> \o s) = {x} \cup Range(s)
<1>1. <<x>> \in Seq(S) /\ Len(<<x>>) = 1 /\ <<x>>[1] = x /\ Len(s) \in Nat
  OBVIOUS
<1>2. /\ <<x>> \o s \in Seq(S) /\ Len(<<x>> \o s) = 1 + Len(s)
      /\ \A i \in 1 .. 1 + Len(s) : (<<x>> \o s)[i] = IF i <= 1 THEN <<x>>[i] ELSE s[i - 1]
  BY <1>1, ConcatProperties
<1>3. Range(<<x>> \o s) = Range(<<x>>) \cup Range(s)
  BY <1>1, RangeConcatenation
<1>4. Range(<<x>>) = {x}
  BY DEF Range
<1>5. QED
  BY <1>1, <1>2, <1>3, <1>4

(***************************************************************************)
(* Induction over sequences, with a set for the predicate.                 *)
(***************************************************************************)
LEMMA SeqInduction ==
  ASSUME NEW S, NEW T \in SUBSET Seq(S), <<>> \in T,
         \A s \in T : \A x \in S : <<x>> \o s \in T
  PROVE  T = Seq(S)
<1> DEFINE N == {n \in Nat : \A s \in Seq(S) : Len(s) = n => s \in T}
<1>1. 0 \in N
  <2>1. \A s \in Seq(S) : Len(s) = 0 => s = <<>>
    BY EmptySeq
  <2>2. QED
    BY <2>1
<1>2. ASSUME NEW n \in N PROVE n + 1 \in N
  <2> SUFFICES ASSUME NEW s \in Seq(S), Len(s) = n + 1 PROVE s \in T
    OBVIOUS
  <2>1. n \in Nat /\ s # <<>>
    OBVIOUS
  <2>2. /\ Head(s) \in S /\ Tail(s) \in Seq(S) /\ Len(Tail(s)) = n
        /\ \A i \in 1 .. n : Tail(s)[i] = s[i + 1]
    BY <2>1, HeadTailProperties
  <2>3. /\ <<Head(s)>> \o Tail(s) \in Seq(S) /\ Len(<<Head(s)>> \o Tail(s)) = n + 1
        /\ (<<Head(s)>> \o Tail(s))[1] = Head(s)
        /\ \A i \in 2 .. n + 1 : (<<Head(s)>> \o Tail(s))[i] = Tail(s)[i - 1]
    BY <2>2, Cons
  <2>4. Head(s) = s[1]
    BY <2>1
  <2>5. \A i \in 1 .. n + 1 : (<<Head(s)>> \o Tail(s))[i] = s[i]
    <3>1. TAKE i \in 1 .. n + 1
    <3>2. CASE i = 1
      BY <2>3, <2>4, <3>2
    <3>3. CASE i # 1
      <4>1. i \in 2 .. n + 1 /\ i - 1 \in 1 .. n /\ (i - 1) + 1 = i
        BY <2>1, <3>3
      <4>2. QED
        BY <2>2, <2>3, <4>1
    <3>4. QED
      BY <3>2, <3>3
  <2>6. s = <<Head(s)>> \o Tail(s)
    BY <2>1, <2>3, <2>5, SeqEqual
  <2>7. Tail(s) \in T
    BY <2>2
  <2>8. QED
    BY <2>2, <2>6, <2>7
<1> HIDE DEF N
<1>3. N \subseteq Nat
  BY DEF N
<1>4. N = Nat
  BY <1>1, <1>2, <1>3, SetInduction
<1>5. \A s \in Seq(S) : s \in T
  BY <1>4 DEF N
<1>6. QED
  BY <1>5
-----------------------------------------------------------------------------
(***************************************************************************)
(* The loop that keeps the wanted elements, from the last to the first.    *)
(***************************************************************************)
Loop(s, W, m, f) ==
  f = [n \in 0 .. m |-> IF n = 0 THEN <<>>
                        ELSE IF s[Len(s) - n + 1] \in W
                             THEN <<s[Len(s) - n + 1]>> \o f[n - 1] ELSE f[n - 1]]

(***************************************************************************)
(* The loop has a result for every length.                                 *)
(***************************************************************************)
LEMMA LoopRuns ==
  ASSUME NEW s, NEW W, NEW m \in Nat
  PROVE  \E f : Loop(s, W, m, f)
<1> DEFINE At(n) == s[Len(s) - n + 1]
           T == {n \in Nat : \E f : Loop(s, W, n, f)}
<1>1. 0 \in T
  <2>1. Loop(s, W, 0, [n \in 0 .. 0 |-> <<>>])
    BY DEF Loop
  <2>2. QED
    BY <2>1
<1>2. ASSUME NEW n \in T PROVE n + 1 \in T
  <2>1. PICK f : Loop(s, W, n, f)
    OBVIOUS
  <2> DEFINE next == IF At(n + 1) \in W THEN <<At(n + 1)>> \o f[n] ELSE f[n]
             g    == [k \in 0 .. n + 1 |-> IF k = n + 1 THEN next ELSE f[k]]
  <2>2. n \in Nat /\ n + 1 \in Nat
    OBVIOUS
  <2>3. \A k \in 0 .. n : f[k] = IF k = 0 THEN <<>>
                                 ELSE IF At(k) \in W THEN <<At(k)>> \o f[k - 1] ELSE f[k - 1]
    BY <2>1 DEF Loop
  <2> HIDE DEF At
  <2>4. ASSUME NEW k \in 0 .. n + 1
        PROVE  g[k] = IF k = 0 THEN <<>>
                      ELSE IF At(k) \in W THEN <<At(k)>> \o g[k - 1] ELSE g[k - 1]
    BY <2>2, <2>3
  <2>5. Loop(s, W, n + 1, g)
    BY <2>4 DEF Loop, At
  <2>6. QED
    BY <2>2, <2>5
<1> HIDE DEF T
<1>3. T \subseteq Nat
  BY DEF T
<1>4. T = Nat
  BY <1>1, <1>2, <1>3, SetInduction
<1>5. QED
  BY <1>4 DEF T

(* Two sequences that end in the same n elements.                          *)
Alike(s, t, n) == \A j \in 1 .. n : s[Len(s) - j + 1] = t[Len(t) - j + 1]

(***************************************************************************)
(* What the loop keeps depends on the elements it has looked at.           *)
(***************************************************************************)
LEMMA LoopAgrees ==
  ASSUME NEW s, NEW t, NEW W, NEW m \in Nat, NEW k \in Nat, NEW f, NEW g,
         Loop(s, W, m, f), Loop(t, W, k, g), NEW n \in Nat, n <= m, n <= k, Alike(s, t, n)
  PROVE  f[n] = g[n]
<1> DEFINE T == {j \in Nat : j <= n => f[j] = g[j]}
           At(j) == s[Len(s) - j + 1]
           Bt(j) == t[Len(t) - j + 1]
<1>1. /\ \A j \in 0 .. m : f[j] = IF j = 0 THEN <<>>
                                  ELSE IF At(j) \in W THEN <<At(j)>> \o f[j - 1] ELSE f[j - 1]
      /\ \A j \in 0 .. k : g[j] = IF j = 0 THEN <<>>
                                  ELSE IF Bt(j) \in W THEN <<Bt(j)>> \o g[j - 1] ELSE g[j - 1]
      /\ \A j \in 1 .. n : At(j) = Bt(j)
  BY DEF Loop, Alike
<1> HIDE DEF At, Bt
<1>2. 0 \in T
  <2>1. 0 \in 0 .. m /\ 0 \in 0 .. k
    OBVIOUS
  <2>2. f[0] = <<>> /\ g[0] = <<>>
    BY <1>1, <2>1
  <2>3. QED
    BY <2>2
<1>3. ASSUME NEW j \in T PROVE j + 1 \in T
  <2> SUFFICES ASSUME j + 1 <= n PROVE f[j + 1] = g[j + 1]
    OBVIOUS
  <2>1. /\ j + 1 \in 0 .. m /\ j + 1 \in 0 .. k /\ j + 1 # 0 /\ (j + 1) - 1 = j /\ j + 1 \in 1 .. n
        /\ f[j] = g[j]
    OBVIOUS
  <2>2. f[j + 1] = IF At(j + 1) \in W THEN <<At(j + 1)>> \o f[j] ELSE f[j]
    BY <1>1, <2>1
  <2>3. g[j + 1] = IF Bt(j + 1) \in W THEN <<Bt(j + 1)>> \o g[j] ELSE g[j]
    BY <1>1, <2>1
  <2>4. QED
    BY <1>1, <2>1, <2>2, <2>3
<1> HIDE DEF T
<1>4. T \subseteq Nat
  BY DEF T
<1>5. n \in T
  BY <1>2, <1>3, <1>4, SetInduction
<1>6. QED
  BY <1>5 DEF T

(***************************************************************************)
(* The wanted members of a sequence are what the loop kept.                *)
(***************************************************************************)
LEMMA OnlyLoop ==
  ASSUME NEW S, NEW s \in Seq(S), NEW W
  PROVE  \E f : Loop(s, W, Len(s), f) /\ Only(s, W) = f[Len(s)]
<1> DEFINE f == CHOOSE f : Loop(s, W, Len(s), f)
<1>1. Only(s, W) = f[Len(s)]
  BY Zenon DEF Only, Loop
<1>2. Len(s) \in Nat
  OBVIOUS
<1>3. Loop(s, W, Len(s), f)
  BY <1>2, LoopRuns
<1>4. QED
  BY <1>1, <1>3

(***************************************************************************)
(* None of none.                                                           *)
(***************************************************************************)
LEMMA OnlyEmpty ==
  ASSUME NEW W
  PROVE  Only(<<>>, W) = <<>>
<1>1. <<>> \in Seq({}) /\ Len(<<>>) = 0
  OBVIOUS
<1>2. PICK f : Loop(<<>>, W, 0, f) /\ Only(<<>>, W) = f[0]
  BY <1>1, OnlyLoop
<1>3. QED
  BY <1>2 DEF Loop

(***************************************************************************)
(* A new first element is wanted or not; the rest stays.                   *)
(***************************************************************************)
LEMMA OnlyCons ==
  ASSUME NEW S, NEW s \in Seq(S), NEW x \in S, NEW W
  PROVE  Only(<<x>> \o s, W) = IF x \in W THEN <<x>> \o Only(s, W) ELSE Only(s, W)
<1> DEFINE t == <<x>> \o s
<1>1. /\ t \in Seq(S) /\ Len(t) = Len(s) + 1 /\ Len(s) \in Nat /\ t[1] = x
      /\ \A i \in 1 .. Len(s) : t[i + 1] = s[i]
  BY Cons
<1>2. PICK f : Loop(s, W, Len(s), f) /\ Only(s, W) = f[Len(s)]
  BY OnlyLoop
<1>3. PICK g : Loop(t, W, Len(t), g) /\ Only(t, W) = g[Len(t)]
  BY <1>1, OnlyLoop
<1> HIDE DEF t
<1>4. Alike(s, t, Len(s))
  <2>1. SUFFICES ASSUME NEW j \in 1 .. Len(s)
                 PROVE  s[Len(s) - j + 1] = t[Len(t) - j + 1]
    BY DEF Alike
  <2>2. Len(s) - j + 1 \in 1 .. Len(s) /\ Len(t) - j + 1 = (Len(s) - j + 1) + 1
    BY <1>1
  <2>3. QED
    BY <1>1, <2>2
<1>5. f[Len(s)] = g[Len(s)]
  <2>1. Len(s) <= Len(s) /\ Len(s) <= Len(t) /\ Len(t) \in Nat /\ Len(s) \in Nat
    BY <1>1
  <2>2. Loop(s, W, Len(s), f) /\ Loop(t, W, Len(t), g)
    BY <1>2, <1>3
  <2>3. QED
    BY <1>4, <2>1, <2>2, LoopAgrees
<1>6. g[Len(t)] = IF t[1] \in W THEN <<t[1]>> \o g[Len(s)] ELSE g[Len(s)]
  <2>1. Len(t) \in 0 .. Len(t) /\ Len(t) # 0 /\ Len(t) - Len(t) + 1 = 1 /\ Len(t) - 1 = Len(s)
    BY <1>1
  <2>2. g[Len(t)] = IF t[Len(t) - Len(t) + 1] \in W
                    THEN <<t[Len(t) - Len(t) + 1]>> \o g[Len(t) - 1] ELSE g[Len(t) - 1]
    BY <1>3, <2>1 DEF Loop
  <2>3. QED
    BY <2>1, <2>2
<1>7. QED
  BY <1>1, <1>2, <1>3, <1>5, <1>6 DEF t
-----------------------------------------------------------------------------
(***************************************************************************)
(* The wanted members: their type, their number and which they are.        *)
(***************************************************************************)
LEMMA OnlyKeeps ==
  ASSUME NEW S, NEW s \in Seq(S), NEW W
  PROVE  /\ Only(s, W) \in Seq(S) /\ Len(Only(s, W)) <= Len(s) /\ Len(Only(s, W)) \in Nat
         /\ Range(Only(s, W)) = Range(s) \cap W
<1> DEFINE T == {q \in Seq(S) : /\ Only(q, W) \in Seq(S) /\ Len(Only(q, W)) <= Len(q)
                                /\ Range(Only(q, W)) = Range(q) \cap W}
<1>1. <<>> \in T
  <2>1. <<>> \in Seq(S) /\ Range(<<>>) = {} /\ Len(<<>>) = 0
    BY DEF Range
  <2>2. Only(<<>>, W) = <<>>
    BY OnlyEmpty
  <2>3. Range(Only(<<>>, W)) = Range(<<>>) \cap W
    BY <2>1, <2>2
  <2>4. Only(<<>>, W) \in Seq(S) /\ Len(Only(<<>>, W)) <= Len(<<>>)
    <3>1. Only(<<>>, W) \in Seq(S)
      BY <2>1, <2>2, Zenon
    <3>2. Len(Only(<<>>, W)) = 0
      BY <2>1, <2>2, Zenon
    <3>3. QED
      BY <2>1, <3>1, <3>2
  <2>5. QED
    BY <2>1, <2>3, <2>4
<1>2. ASSUME NEW q \in T, NEW x \in S PROVE <<x>> \o q \in T
  <2>1. /\ q \in Seq(S) /\ Only(q, W) \in Seq(S) /\ Len(Only(q, W)) <= Len(q)
        /\ Range(Only(q, W)) = Range(q) \cap W
    OBVIOUS
  <2>2. /\ <<x>> \o q \in Seq(S) /\ Len(<<x>> \o q) = Len(q) + 1 /\ Len(q) \in Nat
        /\ Range(<<x>> \o q) = {x} \cup Range(q)
    BY <2>1, Cons
  <2>3. Only(<<x>> \o q, W) = IF x \in W THEN <<x>> \o Only(q, W) ELSE Only(q, W)
    BY <2>1, OnlyCons
  <2>4. /\ <<x>> \o Only(q, W) \in Seq(S) /\ Len(<<x>> \o Only(q, W)) = Len(Only(q, W)) + 1
        /\ Len(Only(q, W)) \in Nat
        /\ Range(<<x>> \o Only(q, W)) = {x} \cup Range(Only(q, W))
    BY <2>1, Cons
  <2>5. CASE x \in W
    <3>1. Only(<<x>> \o q, W) = <<x>> \o Only(q, W)
      BY <2>3, <2>5
    <3>2. Range(Only(<<x>> \o q, W)) = Range(<<x>> \o q) \cap W
      BY <2>1, <2>2, <2>4, <2>5, <3>1
    <3>3. Len(Only(<<x>> \o q, W)) <= Len(<<x>> \o q)
      BY <2>1, <2>2, <2>4, <3>1
    <3>4. QED
      BY <2>2, <2>4, <3>1, <3>2, <3>3
  <2>6. CASE x \notin W
    <3>1. Only(<<x>> \o q, W) = Only(q, W)
      BY <2>3, <2>6
    <3>2. Range(Only(<<x>> \o q, W)) = Range(<<x>> \o q) \cap W
      BY <2>1, <2>2, <2>6, <3>1
    <3>3. Len(Only(<<x>> \o q, W)) <= Len(<<x>> \o q)
      BY <2>1, <2>2, <2>4, <3>1
    <3>4. QED
      BY <2>1, <2>2, <3>1, <3>2, <3>3
  <2>7. QED
    BY <2>5, <2>6
<1> HIDE DEF T
<1>3. T \subseteq Seq(S)
  BY DEF T
<1>4. s \in T
  BY <1>1, <1>2, <1>3, SeqInduction
<1>5. QED
  BY <1>4 DEF T

(***************************************************************************)
(* Wanted twice is wanted by both.                                         *)
(***************************************************************************)
LEMMA OnlyTwice ==
  ASSUME NEW S, NEW s \in Seq(S), NEW V, NEW W
  PROVE  Only(Only(s, V), W) = Only(s, V \cap W)
<1> DEFINE T == {q \in Seq(S) : Only(Only(q, V), W) = Only(q, V \cap W)}
<1>1. <<>> \in T
  <2>1. <<>> \in Seq(S)
    OBVIOUS
  <2>2. QED
    BY <2>1, OnlyEmpty
<1>2. ASSUME NEW q \in T, NEW x \in S PROVE <<x>> \o q \in T
  <2>1. q \in Seq(S) /\ Only(Only(q, V), W) = Only(q, V \cap W)
    OBVIOUS
  <2>2. <<x>> \o q \in Seq(S) /\ Only(q, V) \in Seq(S)
    BY <2>1, Cons, OnlyKeeps
  <2>3. Only(<<x>> \o q, V) = IF x \in V THEN <<x>> \o Only(q, V) ELSE Only(q, V)
    BY <2>1, OnlyCons
  <2>4. /\ Only(<<x>> \o q, V \cap W) = IF x \in V \cap W THEN <<x>> \o Only(q, V \cap W)
                                        ELSE Only(q, V \cap W)
        /\ Only(<<x>> \o Only(q, V), W) = IF x \in W THEN <<x>> \o Only(Only(q, V), W)
                                          ELSE Only(Only(q, V), W)
    <3>1. Only(<<x>> \o q, V \cap W) = IF x \in V \cap W THEN <<x>> \o Only(q, V \cap W)
                                      ELSE Only(q, V \cap W)
      BY <2>1, OnlyCons
    <3>2. Only(<<x>> \o Only(q, V), W) = IF x \in W THEN <<x>> \o Only(Only(q, V), W)
                                        ELSE Only(Only(q, V), W)
      BY <2>2, OnlyCons
    <3>3. QED
      BY <3>1, <3>2, Zenon
  <2>5. CASE x \in V
    <3>1. Only(Only(<<x>> \o q, V), W) = Only(<<x>> \o Only(q, V), W)
      BY <2>3, <2>5
    <3>2. (x \in V \cap W) = (x \in W)
      BY <2>5
    <3>3. QED
      BY <2>1, <2>2, <2>4, <3>1, <3>2
  <2>6. CASE x \notin V
    <3>1. Only(Only(<<x>> \o q, V), W) = Only(Only(q, V), W)
      BY <2>3, <2>6
    <3>2. Only(<<x>> \o q, V \cap W) = Only(q, V \cap W)
      BY <2>4, <2>6
    <3>3. QED
      BY <2>1, <2>2, <3>1, <3>2
  <2>7. QED
    BY <2>5, <2>6
<1> HIDE DEF T
<1>3. T \subseteq Seq(S)
  BY DEF T
<1>4. s \in T
  BY <1>1, <1>2, <1>3, SeqInduction
<1>5. QED
  BY <1>4 DEF T

(***************************************************************************)
(* Ids that differ go on to differ.                                        *)
(***************************************************************************)
LEMMA OnlyDistinct ==
  ASSUME NEW S, NEW s \in Seq(S), NEW W, DistinctIds(s)
  PROVE  DistinctIds(Only(s, W))
<1> DEFINE T == {q \in Seq(S) : DistinctIds(q) => DistinctIds(Only(q, W))}
<1>1. <<>> \in T
  <2>1. <<>> \in Seq(S)
    OBVIOUS
  <2>2. QED
    BY <2>1, OnlyEmpty
<1>2. ASSUME NEW q \in T, NEW x \in S PROVE <<x>> \o q \in T
  <2>1. /\ <<x>> \o q \in Seq(S) /\ Len(<<x>> \o q) = Len(q) + 1 /\ Len(q) \in Nat
        /\ (<<x>> \o q)[1] = x /\ \A i \in 1 .. Len(q) : (<<x>> \o q)[i + 1] = q[i]
    BY Cons
  <2> SUFFICES ASSUME DistinctIds(<<x>> \o q) PROVE DistinctIds(Only(<<x>> \o q, W))
    BY <2>1
  <2>2. DistinctIds(q) /\ \A i \in 1 .. Len(q) : q[i].id # x.id
    <3>1. ASSUME NEW i \in 1 .. Len(q), NEW j \in 1 .. Len(q), q[i].id = q[j].id PROVE i = j
      <4>1. i + 1 \in 1 .. Len(q) + 1 /\ j + 1 \in 1 .. Len(q) + 1
        BY <2>1
      <4>2. i + 1 = j + 1
        BY <2>1, <3>1, <4>1 DEF DistinctIds
      <4>3. QED
        BY <4>2
    <3>2. ASSUME NEW i \in 1 .. Len(q), q[i].id = x.id PROVE FALSE
      <4>1. i + 1 \in 1 .. Len(q) + 1 /\ 1 \in 1 .. Len(q) + 1
        BY <2>1
      <4>2. i + 1 = 1
        BY <2>1, <3>2, <4>1 DEF DistinctIds
      <4>3. QED
        BY <4>2
    <3>3. QED
      BY <3>1, <3>2 DEF DistinctIds
  <2> DEFINE o == Only(q, W)
  <2>3. /\ o \in Seq(S) /\ Len(o) \in Nat /\ Range(o) = Range(q) \cap W /\ DistinctIds(o)
    BY <2>2, OnlyKeeps
  <2>4. Only(<<x>> \o q, W) = IF x \in W THEN <<x>> \o o ELSE o
    BY OnlyCons
  <2> HIDE DEF o
  <2>5. \A i \in 1 .. Len(o) : o[i].id # x.id
    <3>1. TAKE i \in 1 .. Len(o)
    <3>2. o[i] \in Range(q)
      <4>1. i \in DOMAIN o
        BY <2>3
      <4>2. o[i] \in Range(o)
        BY <4>1 DEF Range
      <4>3. QED
        BY <2>3, <4>2
    <3>3. \E j \in 1 .. Len(q) : o[i] = q[j]
      <4>1. DOMAIN q = 1 .. Len(q)
        BY <2>1, LenProperties
      <4>2. QED
        BY <3>2, <4>1 DEF Range
    <3>4. QED
      BY <2>2, <3>3
  <2>6. /\ Len(<<x>> \o o) = Len(o) + 1 /\ (<<x>> \o o)[1] = x
        /\ \A i \in 2 .. Len(o) + 1 : (<<x>> \o o)[i] = o[i - 1]
    BY <2>3, Cons
  <2>7. DistinctIds(<<x>> \o o)
    <3> SUFFICES ASSUME NEW i \in 1 .. Len(o) + 1, NEW j \in 1 .. Len(o) + 1,
                        (<<x>> \o o)[i].id = (<<x>> \o o)[j].id
                 PROVE  i = j
      BY <2>6 DEF DistinctIds
    <3>1. /\ i = 1 \/ (i \in 2 .. Len(o) + 1 /\ i - 1 \in 1 .. Len(o))
          /\ j = 1 \/ (j \in 2 .. Len(o) + 1 /\ j - 1 \in 1 .. Len(o))
      BY <2>3
    <3>2. CASE i # 1 /\ j # 1
      <4>1. o[i - 1].id = o[j - 1].id
        BY <2>6, <3>1, <3>2
      <4>2. i - 1 = j - 1
        BY <2>3, <3>1, <3>2, <4>1 DEF DistinctIds
      <4>3. QED
        BY <4>2
    <3>3. QED
      BY <2>5, <2>6, <3>1, <3>2
  <2>8. QED
    BY <2>3, <2>4, <2>7
<1> HIDE DEF T
<1>3. T \subseteq Seq(S)
  BY DEF T
<1>4. s \in T
  BY <1>1, <1>2, <1>3, SeqInduction
<1>5. QED
  BY <1>4 DEF T

(***************************************************************************)
(* When less is wanted, what is left moves forward or stays.               *)
(***************************************************************************)
Thinner(t, V, s, W) ==
  \A j \in 1 .. Len(Only(t, V)) :
    \E i \in j .. Len(Only(s, W)) : Only(s, W)[i].id = Only(t, V)[j].id

(* One list with the ids of another, of which no more is wanted.           *)
Matches(t, V, s, W) ==
  Len(s) = Len(t) /\ \A k \in 1 .. Len(t) : t[k].id = s[k].id /\ (t[k] \in V => s[k] \in W)

(***************************************************************************)
(* One element in front of two lists of which one is thinner.              *)
(***************************************************************************)
LEMMA ThinnerCons ==
  ASSUME NEW S, NEW t \in Seq(S), NEW s \in Seq(S), NEW V, NEW W, NEW x \in S, NEW y \in S,
         Thinner(t, V, s, W), x.id = y.id, x \in V => y \in W
  PROVE  Thinner(<<x>> \o t, V, <<y>> \o s, W)
<1> DEFINE a == Only(t, V)
           b == Only(s, W)
<1>1. a \in Seq(S) /\ b \in Seq(S) /\ Len(a) \in Nat /\ Len(b) \in Nat
  BY OnlyKeeps
<1>2. /\ Only(<<x>> \o t, V) = IF x \in V THEN <<x>> \o a ELSE a
      /\ Only(<<y>> \o s, W) = IF y \in W THEN <<y>> \o b ELSE b
  BY OnlyCons
<1>3. \A j \in 1 .. Len(a) : \E i \in j .. Len(b) : b[i].id = a[j].id
  BY DEF Thinner
<1> HIDE DEF a, b
<1>4. /\ Len(<<x>> \o a) = Len(a) + 1 /\ (<<x>> \o a)[1] = x
      /\ \A i \in 2 .. Len(a) + 1 : (<<x>> \o a)[i] = a[i - 1]
      /\ Len(<<y>> \o b) = Len(b) + 1 /\ (<<y>> \o b)[1] = y
      /\ \A i \in 1 .. Len(b) : (<<y>> \o b)[i + 1] = b[i]
  BY <1>1, Cons
<1>5. ASSUME y \in W, NEW j \in 1 .. Len(a)
      PROVE  \E i \in j + 1 .. Len(b) + 1 : (<<y>> \o b)[i].id = a[j].id
  <2>1. PICK i \in j .. Len(b) : b[i].id = a[j].id
    BY <1>3
  <2>2. i \in 1 .. Len(b) /\ i + 1 \in j + 1 .. Len(b) + 1
    BY <1>1
  <2>3. (<<y>> \o b)[i + 1].id = a[j].id
    BY <1>4, <2>1, <2>2
  <2>4. QED
    BY <2>2, <2>3
<1>6. CASE x \in V
  <2> SUFFICES ASSUME NEW j \in 1 .. Len(a) + 1
               PROVE  \E i \in j .. Len(b) + 1 : (<<y>> \o b)[i].id = (<<x>> \o a)[j].id
    BY <1>2, <1>4, <1>6 DEF Thinner
  <2>1. CASE j = 1
    <3>1. 1 \in j .. Len(b) + 1
      BY <1>1, <2>1
    <3>2. QED
      BY <1>4, <2>1, <3>1
  <2>2. CASE j # 1
    <3>1. j - 1 \in 1 .. Len(a) /\ j \in 2 .. Len(a) + 1 /\ (j - 1) + 1 = j
      BY <1>1, <2>2
    <3>2. \E i \in (j - 1) + 1 .. Len(b) + 1 : (<<y>> \o b)[i].id = a[j - 1].id
      BY <1>5, <1>6, <3>1
    <3>3. QED
      BY <1>4, <3>1, <3>2
  <2>3. QED
    BY <2>1, <2>2
<1>7. CASE x \notin V /\ y \in W
  <2> SUFFICES ASSUME NEW j \in 1 .. Len(a)
               PROVE  \E i \in j .. Len(b) + 1 : (<<y>> \o b)[i].id = a[j].id
    BY <1>2, <1>4, <1>7 DEF Thinner
  <2>1. PICK i \in j + 1 .. Len(b) + 1 : (<<y>> \o b)[i].id = a[j].id
    BY <1>5, <1>7
  <2>2. i \in j .. Len(b) + 1
    BY <1>1
  <2>3. QED
    BY <2>1, <2>2
<1>8. CASE x \notin V /\ y \notin W
  BY <1>2, <1>3, <1>8 DEF Thinner
<1>9. QED
  BY <1>6, <1>7, <1>8

(***************************************************************************)
(* Element by element the same ids, and what one list wants the other one  *)
(* wanted too.                                                             *)
(***************************************************************************)
LEMMA OnlyThins ==
  ASSUME NEW S, NEW t \in Seq(S), NEW s \in Seq(S), NEW V, NEW W, Matches(t, V, s, W)
  PROVE  Thinner(t, V, s, W)
<1> DEFINE T == {q \in Seq(S) : \A u \in Seq(S) : Matches(q, V, u, W) => Thinner(q, V, u, W)}
<1>1. <<>> \in T
  <2>1. <<>> \in Seq(S) /\ Len(<<>>) = 0
    OBVIOUS
  <2>2. QED
    BY <2>1, OnlyEmpty DEF Thinner
<1>2. ASSUME NEW q \in T, NEW x \in S PROVE <<x>> \o q \in T
  <2>1. /\ <<x>> \o q \in Seq(S) /\ Len(<<x>> \o q) = Len(q) + 1 /\ Len(q) \in Nat
        /\ (<<x>> \o q)[1] = x /\ \A i \in 1 .. Len(q) : (<<x>> \o q)[i + 1] = q[i]
    BY Cons
  <2> SUFFICES ASSUME NEW u \in Seq(S), Matches(<<x>> \o q, V, u, W)
               PROVE  Thinner(<<x>> \o q, V, u, W)
    BY <2>1
  <2>2. /\ Len(u) = Len(q) + 1
        /\ \A k \in 1 .. Len(q) + 1 :
             (<<x>> \o q)[k].id = u[k].id /\ ((<<x>> \o q)[k] \in V => u[k] \in W)
    BY <2>1 DEF Matches
  <2>3. /\ u # <<>> /\ Head(u) = u[1] /\ u[1] \in S
        /\ Tail(u) \in Seq(S) /\ Len(Tail(u)) = Len(q)
        /\ \A i \in 1 .. Len(q) : Tail(u)[i] = u[i + 1]
    BY <2>1, <2>2, HeadTailProperties
  <2>4. u = <<u[1]>> \o Tail(u)
    <3>1. /\ <<u[1]>> \o Tail(u) \in Seq(S) /\ Len(<<u[1]>> \o Tail(u)) = Len(u)
          /\ (<<u[1]>> \o Tail(u))[1] = u[1]
          /\ \A i \in 2 .. Len(u) : (<<u[1]>> \o Tail(u))[i] = Tail(u)[i - 1]
      BY <2>2, <2>3, Cons
    <3>2. \A i \in 1 .. Len(u) : (<<u[1]>> \o Tail(u))[i] = u[i]
      <4>1. TAKE i \in 1 .. Len(u)
      <4>2. CASE i = 1
        BY <3>1, <4>2
      <4>3. CASE i # 1
        <5>1. i \in 2 .. Len(u) /\ i - 1 \in 1 .. Len(q) /\ (i - 1) + 1 = i
          BY <2>1, <2>2, <4>3
        <5>2. QED
          BY <2>3, <3>1, <5>1
      <4>4. QED
        BY <4>2, <4>3
    <3>3. QED
      BY <3>1, <3>2, SeqEqual
  <2>5. Matches(q, V, Tail(u), W)
    <3>1. ASSUME NEW k \in 1 .. Len(q)
          PROVE  q[k].id = Tail(u)[k].id /\ (q[k] \in V => Tail(u)[k] \in W)
      <4>1. k + 1 \in 1 .. Len(q) + 1
        BY <2>1
      <4>2. QED
        BY <2>1, <2>2, <2>3, <4>1
    <3>2. QED
      BY <2>3, <3>1 DEF Matches
  <2>6. Thinner(q, V, Tail(u), W)
    BY <2>3, <2>5
  <2>7. x.id = u[1].id /\ (x \in V => u[1] \in W)
    <3>1. 1 \in 1 .. Len(q) + 1
      BY <2>1
    <3>2. QED
      BY <2>1, <2>2, <3>1
  <2>8. q \in Seq(S)
    OBVIOUS
  <2> HIDE DEF T
  <2>9. Thinner(<<x>> \o q, V, <<u[1]>> \o Tail(u), W)
    BY <2>3, <2>6, <2>7, <2>8, ThinnerCons
  <2>10. QED
    BY <2>4, <2>9
<1> HIDE DEF T
<1>3. T \subseteq Seq(S)
  BY DEF T
<1>4. t \in T
  BY <1>1, <1>2, <1>3, SeqInduction
<1>5. QED
  BY <1>4 DEF T
-----------------------------------------------------------------------------
(***************************************************************************)
(* Pages times limit: the places before a page, and those to its end.      *)
(***************************************************************************)
LEMMA Product ==
  ASSUME NEW p \in Nat \ {0}, NEW l \in Nat \ {0}
  PROVE  /\ (p - 1) * l \in Nat /\ p * l \in Nat /\ p * l = (p - 1) * l + l
         /\ p = 1 => (p - 1) * l = 0
         /\ p > 1 => l <= (p - 1) * l
<1>1. p * l = (p - 1) * l + l
  OBVIOUS
<1>2. \A a \in Nat : a * l \in Nat
  OBVIOUS
<1>3. p - 1 \in Nat
  OBVIOUS
<1>4. p > 1 => p - 2 \in Nat /\ (p - 1) * l = (p - 2) * l + l
  OBVIOUS
<1>5. p = 1 => (p - 1) * l = 0
  OBVIOUS
<1>6. QED
  BY <1>1, <1>2, <1>3, <1>4, <1>5

(***************************************************************************)
(* A larger factor, a larger product.                                      *)
(***************************************************************************)
LEMMA ProductGrows ==
  ASSUME NEW a \in Int, NEW b \in Int, a <= b, NEW l \in Nat
  PROVE  a * l <= b * l
<1>1. PICK d \in Nat : b = a + d
  <2>1. b - a \in Nat /\ b = a + (b - a)
    OBVIOUS
  <2>2. QED
    BY <2>1
<1>2. b * l = a * l + d * l /\ d * l \in Nat
  BY <1>1
<1>3. a * l \in Int
  OBVIOUS
<1>4. QED
  BY <1>2, <1>3

(***************************************************************************)
(* Division: the quotient is the only number whose product fits.           *)
(***************************************************************************)
LEMMA Division ==
  ASSUME NEW a \in Nat, NEW l \in Nat \ {0}
  PROVE  /\ a \div l \in Nat /\ (a \div l) * l <= a /\ a < (a \div l) * l + l
         /\ a % l = a - (a \div l) * l
<1>1. /\ a \div l \in Int /\ a % l \in 0 .. l - 1
      /\ a = l * (a \div l) + (a % l)
  <2>1. a \div l \in Int /\ a % l \in 0 .. l - 1
    OBVIOUS
  <2>2. a = l * (a \div l) + (a % l)
    OBVIOUS
  <2>3. QED
    BY <2>1, <2>2
<1>2. (a \div l) * l = l * (a \div l) /\ (a \div l) * l \in Int
  BY <1>1
<1>3. a \div l >= 0
  <2> SUFFICES ASSUME a \div l <= -1 PROVE FALSE
    BY <1>1
  <2>1. (a \div l) * l <= (-1) * l
    BY <1>1, ProductGrows
  <2>2. QED
    BY <1>1, <1>2, <2>1
<1>4. QED
  BY <1>1, <1>2, <1>3

(***************************************************************************)
(* An int is itself; one turn too far comes back.                          *)
(***************************************************************************)
LEMMA WrapFits ==
  ASSUME NEW x \in Int
  PROVE  /\ x \in -Bound .. Bound - 1 => Wrap(x) = x
         /\ x \in Bound .. 2 * Bound - 1 => Wrap(x) = x - 2 * Bound
         /\ x = -Bound - 1 => Wrap(x) = Bound - 1
<1> DEFINE m == 2 * Bound
<1>1. m \in Nat \ {0} /\ Bound \in Nat \ {0}
  BY BoundAssumption
<1>2. ASSUME NEW y \in 0 .. m - 1 PROVE y % m = y
  <2>0. y \in Nat
    BY <1>1
  <2>1. /\ y \div m \in Nat /\ (y \div m) * m <= y
        /\ y % m = y - (y \div m) * m
    BY <1>1, <2>0, Division
  <2>2. y \div m = 0
    <3> SUFFICES ASSUME 1 <= y \div m PROVE FALSE
      BY <2>1
    <3>1. 1 * m <= (y \div m) * m
      BY <1>1, <2>1, ProductGrows
    <3>2. QED
      BY <1>1, <2>1, <3>1
  <2>3. QED
    BY <1>1, <2>1, <2>2
<1>3. ASSUME NEW y \in m .. 2 * m - 1 PROVE y % m = y - m
  <2>0. y \in Nat
    BY <1>1
  <2>1. /\ y \div m \in Nat /\ (y \div m) * m <= y /\ y < (y \div m) * m + m
        /\ y % m = y - (y \div m) * m
    BY <1>1, <2>0, Division
  <2>2. y \div m = 1
    <3>1. ASSUME 2 <= y \div m PROVE FALSE
      <4>1. 2 * m <= (y \div m) * m
        BY <1>1, <2>1, <3>1, ProductGrows
      <4>2. QED
        BY <1>1, <2>1, <4>1
    <3>2. ASSUME y \div m = 0 PROVE FALSE
      BY <1>1, <2>1, <3>2
    <3>3. QED
      BY <2>1, <3>1, <3>2
  <2>3. QED
    BY <1>1, <2>1, <2>2
<1>4. (-1) % m = m - 1
  <2>1. /\ (-1) \div m \in Int
        /\ (-1) % m \in 0 .. m - 1
        /\ -1 = m * ((-1) \div m) + ((-1) % m)
    BY <1>1
  <2>2. m * ((-1) \div m) = ((-1) \div m) * m
    BY <1>1, <2>1
  <2>3. (-1) \div m = -1
    <3>1. ASSUME (-1) \div m >= 0 PROVE FALSE
      <4>1. 0 * m <= ((-1) \div m) * m
        BY <1>1, <2>1, <3>1, ProductGrows
      <4>2. QED
        BY <1>1, <2>1, <2>2, <4>1
    <3>2. ASSUME (-1) \div m <= -2 PROVE FALSE
      <4>1. ((-1) \div m) * m <= (-2) * m
        BY <1>1, <2>1, <3>2, ProductGrows
      <4>2. QED
        BY <1>1, <2>1, <2>2, <4>1
    <3>3. QED
      BY <2>1, <3>1, <3>2
  <2>4. QED
    BY <1>1, <2>1, <2>3
<1> HIDE DEF m
<1>5. Wrap(x) = ((x + Bound) % m) - Bound /\ m = 2 * Bound
  BY DEF Wrap, m
<1>6. CASE x \in -Bound .. Bound - 1
  <2>1. x + Bound \in 0 .. m - 1
    BY <1>1, <1>5, <1>6
  <2>2. (x + Bound) % m = x + Bound
    BY <1>2, <2>1
  <2>3. QED
    BY <1>1, <1>5, <1>6, <2>2
<1>7. CASE x \in Bound .. 2 * Bound - 1
  <2>1. x + Bound \in m .. 2 * m - 1
    BY <1>1, <1>5, <1>7
  <2>2. (x + Bound) % m = (x + Bound) - m
    BY <1>3, <2>1
  <2>3. QED
    BY <1>1, <1>5, <1>7, <2>2
<1>8. CASE x = -Bound - 1
  <2>1. x + Bound = -1
    BY <1>1, <1>8
  <2>2. QED
    BY <1>1, <1>4, <1>5, <1>8, <2>1
<1>9. QED
  BY <1>1, <1>6, <1>7, <1>8
-----------------------------------------------------------------------------
(***************************************************************************)
(* The last page is the one that reaches the end, and none before it does. *)
(***************************************************************************)
LEMMA PageCountReaches ==
  ASSUME NEW total \in 0 .. MaxItems, NEW limit \in 1 .. Bound - 1, NEW page \in Nat \ {0}
  PROVE  /\ PageCount(total, limit) \in Int
         /\ page >= PageCount(total, limit) => total <= page * limit
         /\ page < PageCount(total, limit) => page * limit < total
<1> DEFINE x == total + limit
           a == Wrap(Wrap(x) - 1)
           n == Quotient(a, limit)
<1>1. /\ total \in Nat /\ limit \in Nat \ {0} /\ Bound \in Nat /\ MaxItems \in Nat
      /\ total < Bound /\ total + total < Bound /\ limit < Bound
  BY ItemsAssumption, BoundAssumption
<1>2. limit <= page * limit /\ page * limit \in Nat
  <2>1. 1 * limit <= page * limit
    BY <1>1, ProductGrows
  <2>2. 1 * limit = limit /\ page * limit \in Int
    BY <1>1
  <2>3. QED
    BY <1>1, <2>1, <2>2
<1>3. PageCount(total, limit) = IF n = 0 THEN 1 ELSE n
  BY DEF PageCount
<1>4. CASE x < Bound
  <2>1. Wrap(x) = x /\ x \in Nat
    BY <1>1, <1>4, WrapFits
  <2>2. a = x - 1 /\ a \in Nat
    <3>1. x - 1 \in -Bound .. Bound - 1 /\ x - 1 \in Nat
      BY <1>1, <1>4
    <3>2. Wrap(x - 1) = x - 1
      BY <3>1, WrapFits
    <3>3. QED
      BY <2>1, <3>1, <3>2
  <2> HIDE DEF a
  <2>3. n = a \div limit
    BY <2>2 DEF Quotient
  <2>4. n \in Nat /\ n * limit <= a /\ a < n * limit + limit
    BY <1>1, <2>2, <2>3, Division
  <2> HIDE DEF n
  <2>5. n * limit \in Int
    BY <1>1, <2>4
  <2>6. CASE n = 0
    <3>1. n * limit = 0
      BY <1>1, <2>6
    <3>2. total = 0
      BY <1>1, <2>2, <2>4, <2>6, <3>1
    <3>3. QED
      BY <1>2, <1>3, <2>6, <3>2
  <2>7. CASE n # 0
    <3>1. ASSUME page >= n PROVE total <= page * limit
      <4>1. n * limit <= page * limit
        BY <1>1, <2>4, <3>1, ProductGrows
      <4>2. QED
        BY <1>1, <1>2, <2>2, <2>4, <2>5, <4>1
    <3>2. ASSUME page < n PROVE page * limit < total
      <4>1. (page + 1) * limit <= n * limit
        BY <1>1, <2>4, <3>2, ProductGrows
      <4>2. (page + 1) * limit = page * limit + limit
        BY <1>1
      <4>3. QED
        BY <1>1, <1>2, <2>2, <2>4, <2>5, <4>1, <4>2
    <3>3. QED
      BY <1>3, <2>4, <2>7, <3>1, <3>2
  <2>8. QED
    BY <2>6, <2>7
<1>5. CASE x >= Bound
  <2>1. total <= page * limit
    BY <1>1, <1>2, <1>5
  <2>2. Wrap(x) = x - 2 * Bound
    <3>1. x \in Bound .. 2 * Bound - 1
      BY <1>1, <1>5
    <3>2. QED
      BY <3>1, WrapFits
  <2>3. n \in Int /\ n <= 1
    <3>1. CASE x = Bound
      <4>1. a = Bound - 1
        <5>1. Wrap(x) - 1 = -Bound - 1
          BY <1>1, <2>2, <3>1
        <5>2. Wrap(-Bound - 1) = Bound - 1
          BY <1>1, WrapFits
        <5>3. QED
          BY <5>1, <5>2
      <4> HIDE DEF a
      <4>2. n = (Bound - 1) \div limit
        BY <1>1, <4>1 DEF Quotient
      <4>3. Bound - 1 \in Nat
        BY <1>1
      <4>4. n \in Nat /\ n * limit <= Bound - 1
        BY <1>1, <4>2, <4>3, Division
      <4> HIDE DEF n
      <4>5. ASSUME 2 <= n PROVE FALSE
        <5>1. 2 * limit <= n * limit
          BY <1>1, <4>4, <4>5, ProductGrows
        <5>2. n * limit \in Int
          BY <1>1, <4>4
        <5>3. QED
          BY <1>1, <3>1, <4>4, <5>1, <5>2
      <4>6. QED
        BY <4>4, <4>5
    <3>2. CASE x # Bound
      <4>1. a = (x - 2 * Bound) - 1 /\ a < 0 /\ -a \in Nat
        <5>1. (x - 2 * Bound) - 1 \in -Bound .. Bound - 1 /\ (x - 2 * Bound) - 1 < 0
          BY <1>1, <1>5, <3>2
        <5>2. Wrap((x - 2 * Bound) - 1) = (x - 2 * Bound) - 1
          BY <5>1, WrapFits
        <5>3. QED
          BY <1>1, <2>2, <5>1, <5>2
      <4> HIDE DEF a
      <4>2. n = -((-a) \div limit)
        BY <4>1 DEF Quotient
      <4>3. (-a) \div limit \in Nat
        BY <1>1, <4>1, Division
      <4>4. QED
        BY <4>2, <4>3
    <3>3. QED
      BY <3>1, <3>2
  <2> HIDE DEF n
  <2>4. PageCount(total, limit) \in Int /\ PageCount(total, limit) <= 1
    BY <1>3, <2>3
  <2>5. QED
    BY <2>1, <2>4
<1>6. QED
  BY <1>1, <1>4, <1>5

(* Some of the elements of a sequence behind the first d, at most n; a     *)
(* page is all of them.                                                    *)
IsPart(w, s, d, n) ==
  \A i \in 1 .. Len(w) : d + i \in 1 .. Len(s) /\ i <= n /\ w[i] = s[d + i]
IsCut(w, s, d, n) ==
  /\ IsPart(w, s, d, n)
  /\ \A i \in 1 .. Len(s) : d < i /\ i <= d + n => i - d \in 1 .. Len(w)

(***************************************************************************)
(* A part of a sequence.                                                   *)
(***************************************************************************)
LEMMA SubSeqCut ==
  ASSUME NEW S, NEW s \in Seq(S), NEW d \in Nat, NEW n \in Nat
  PROVE  LET w == SubSeq(s, d + 1, Lesser(d + n, Len(s)))
         IN  w \in Seq(S) /\ IsCut(w, s, d, n)
<1> DEFINE e == Lesser(d + n, Len(s))
           w == SubSeq(s, d + 1, e)
<1>1. /\ Len(s) \in Nat /\ d + 1 \in Int /\ e \in Int /\ e <= Len(s) /\ e <= d + n
      /\ e = d + n \/ e = Len(s)
  BY DEF Lesser
<1> HIDE DEF e
<1>2. \A i \in d + 1 .. e : s[i] \in S
  <2>1. TAKE i \in d + 1 .. e
  <2>2. i \in 1 .. Len(s)
    BY <1>1
  <2>3. QED
    BY <2>2, ElementOfSeq
<1>3. /\ w \in Seq(S)
      /\ Len(w) = IF d + 1 <= e THEN (e - (d + 1)) + 1 ELSE 0
      /\ \A i \in 1 .. (e - (d + 1)) + 1 : w[i] = s[((d + 1) + i) - 1]
  BY <1>1, <1>2, SubSeqProperties
<1> HIDE DEF w
<1>4. ASSUME NEW i \in 1 .. Len(w)
      PROVE  d + i \in 1 .. Len(s) /\ i <= n /\ w[i] = s[d + i]
  <2>1. Len(w) = e - d
    BY <1>1, <1>3
  <2>2. i \in 1 .. (e - (d + 1)) + 1 /\ ((d + 1) + i) - 1 = d + i
    BY <1>1, <2>1
  <2>3. w[i] = s[d + i]
    BY <1>3, <2>2
  <2>4. QED
    BY <1>1, <2>1, <2>3
<1>5. ASSUME NEW i \in 1 .. Len(s), d < i, i <= d + n
      PROVE  i - d \in 1 .. Len(w)
  BY <1>1, <1>3, <1>5
<1>6. w \in Seq(S) /\ IsCut(w, s, d, n)
  BY <1>3, <1>4, <1>5 DEF IsCut, IsPart
<1>7. QED
  BY <1>6 DEF w, e

(***************************************************************************)
(* The window of a slice and LIMIT and OFFSET are pages, and no panic, as  *)
(* long as the places before the page fit twice into an int.     *)
(***************************************************************************)
LEMMA PageIsCut ==
  ASSUME NEW s \in Seq(Rows \cup Releases \cup Range(Archive)),
         NEW page \in Nat \ {0}, NEW limit \in 1 .. Bound - 1,
         page > 1 => (page - 1) * limit < MaxItems
  PROVE  /\ IsCut(Window(s, page, limit), s, (page - 1) * limit, limit)
         /\ Window(s, page, limit) \in Seq(Rows \cup Releases \cup Range(Archive))
         /\ IsCut(LimitOffset(s, page, limit), s, (page - 1) * limit, limit)
         /\ LimitOffset(s, page, limit) \in Seq(Rows \cup Releases \cup Range(Archive))
<1> DEFINE d == (page - 1) * limit
           S == Rows \cup Releases \cup Range(Archive)
<1>1. /\ limit \in Nat \ {0} /\ Bound \in Nat /\ MaxItems \in Nat \ {0} /\ 2 * MaxItems < Bound
      /\ Len(s) \in Nat
  BY ItemsAssumption, BoundAssumption
<1>2. d \in Nat /\ (page = 1 => d = 0) /\ (page > 1 => limit <= d)
  BY <1>1, Product
<1>3. d < MaxItems /\ d + limit < Bound
  BY <1>1, <1>2
<1> HIDE DEF d
<1>4. Wrap(d) = d
  BY <1>1, <1>2, <1>3, WrapFits
<1>5. /\ SubSeq(s, d + 1, Lesser(d + limit, Len(s))) \in Seq(S)
      /\ IsCut(SubSeq(s, d + 1, Lesser(d + limit, Len(s))), s, d, limit)
  BY <1>1, <1>2, SubSeqCut
<1>6. LimitOffset(s, page, limit) = SubSeq(s, d + 1, Lesser(d + limit, Len(s)))
  <2>1. LimitOffset(s, page, limit) =
          IF Wrap(d) < 0 THEN <<>> ELSE SubSeq(s, Wrap(d) + 1, Lesser(Wrap(d) + limit, Len(s)))
    BY DEF LimitOffset, d
  <2>2. ~ (d < 0)
    BY <1>2
  <2>3. QED
    BY <1>4, <2>1, <2>2
<1>7. CASE d <= Len(s)
  <2>1. Lesser(d, Len(s)) = d
    BY <1>1, <1>2, <1>7 DEF Lesser
  <2>2. Wrap(d + limit) = d + limit
    BY <1>1, <1>2, <1>3, WrapFits
  <2>3. /\ 0 <= d /\ d <= Lesser(d + limit, Len(s)) /\ Lesser(d + limit, Len(s)) <= Len(s)
    BY <1>1, <1>2, <1>7 DEF Lesser
  <2>4. Window(s, page, limit) = SubSeq(s, d + 1, Lesser(d + limit, Len(s)))
    <3>1. Window(s, page, limit) =
            Slice(s, Lesser(Wrap(d), Len(s)),
                  Lesser(Wrap(Lesser(Wrap(d), Len(s)) + limit), Len(s)))
      BY DEF Window, d
    <3>2. Window(s, page, limit) = Slice(s, d, Lesser(d + limit, Len(s)))
      BY <1>4, <2>1, <2>2, <3>1
    <3>3. QED
      BY <2>3, <3>2 DEF Slice
  <2>5. QED
    BY <1>5, <1>6, <2>4 DEF d
<1>8. CASE Len(s) < d
  <2>1. Lesser(d, Len(s)) = Len(s)
    BY <1>1, <1>2, <1>8 DEF Lesser
  <2>2. Wrap(Len(s) + limit) = Len(s) + limit
    BY <1>1, <1>2, <1>3, <1>8, WrapFits
  <2>3. Lesser(Len(s) + limit, Len(s)) = Len(s)
    BY <1>1 DEF Lesser
  <2>4. Window(s, page, limit) = SubSeq(s, Len(s) + 1, Len(s))
    <3>1. Window(s, page, limit) =
            Slice(s, Lesser(Wrap(d), Len(s)),
                  Lesser(Wrap(Lesser(Wrap(d), Len(s)) + limit), Len(s)))
      BY DEF Window, d
    <3>2. Window(s, page, limit) = Slice(s, Len(s), Len(s))
      BY <1>4, <2>1, <2>2, <2>3, <3>1
    <3>3. 0 <= Len(s) /\ Len(s) <= Len(s)
      BY <1>1
    <3>4. QED
      BY <3>2, <3>3 DEF Slice
  <2>5. SubSeq(s, Len(s) + 1, Len(s)) = <<>>
    BY <1>1, SubSeqEmpty
  <2>6. Window(s, page, limit) \in Seq(S) /\ Len(Window(s, page, limit)) = 0
    BY <2>4, <2>5
  <2>7. IsCut(Window(s, page, limit), s, d, limit)
    <3>1. \A i \in 1 .. Len(s) : ~ (d < i)
      BY <1>1, <1>2, <1>8
    <3>2. QED
      BY <2>6, <3>1 DEF IsCut, IsPart
  <2>8. QED
    BY <1>5, <1>6, <2>6, <2>7 DEF d
<1>9. QED
  BY <1>1, <1>2, <1>7, <1>8
-----------------------------------------------------------------------------
(***************************************************************************)
(* The first elements of a page are a part of it.                          *)
(***************************************************************************)
LEMMA FirstOfPage ==
  ASSUME NEW S, NEW w \in Seq(S), NEW n \in 0 .. Len(w)
  PROVE  /\ SubSeq(w, 1, n) \in Seq(S)
         /\ \A s, d, m : IsPart(w, s, d, m) => IsPart(SubSeq(w, 1, n), s, d, m)
         /\ n = Len(w) => SubSeq(w, 1, n) = w
<1> DEFINE v == SubSeq(w, 1, n)
<1>1. Len(w) \in Nat /\ n \in Nat
  OBVIOUS
<1>2. /\ v \in Seq(S) /\ Len(v) = n /\ \A i \in 1 .. n : v[i] = w[i]
  OBVIOUS
<1> HIDE DEF v
<1>3. \A i \in 1 .. n : i \in 1 .. Len(w)
  BY <1>1
<1>4. \A s, d, m : IsPart(w, s, d, m) => IsPart(v, s, d, m)
  BY <1>2, <1>3 DEF IsPart
<1>5. n = Len(w) => v = w
  BY <1>2, SeqEqual
<1>6. QED
  BY <1>2, <1>4, <1>5 DEF v
-----------------------------------------------------------------------------
(* A sequence in three parts, place by place.                              *)
Parts(t, p, m, q) ==
  /\ Len(t) = Len(p) + Len(m) + Len(q)
  /\ \A i \in 1 .. Len(p) + Len(m) + Len(q) :
       t[i] = IF i <= Len(p) THEN p[i] ELSE IF i <= Len(p) + Len(m) THEN m[i - Len(p)]
              ELSE q[i - Len(p) - Len(m)]

(***************************************************************************)
(* One part after the other.                                               *)
(***************************************************************************)
LEMMA ThreeParts ==
  ASSUME NEW S, NEW p \in Seq(S), NEW m \in Seq(S), NEW q \in Seq(S)
  PROVE  p \o m \o q \in Seq(S) /\ Parts(p \o m \o q, p, m, q)
<1> DEFINE l == p \o m
           t == l \o q
<1>1. Len(p) \in Nat /\ Len(m) \in Nat /\ Len(q) \in Nat
  OBVIOUS
<1>2. /\ l \in Seq(S) /\ Len(l) = Len(p) + Len(m)
      /\ \A i \in 1 .. Len(p) + Len(m) : l[i] = IF i <= Len(p) THEN p[i] ELSE m[i - Len(p)]
  BY ConcatProperties
<1> HIDE DEF l
<1>3. /\ t \in Seq(S) /\ Len(t) = Len(l) + Len(q)
      /\ \A i \in 1 .. Len(l) + Len(q) : t[i] = IF i <= Len(l) THEN l[i] ELSE q[i - Len(l)]
  <2>1. l \in Seq(S) /\ q \in Seq(S)
    BY <1>2
  <2>2. QED
    BY ONLY <2>1, ConcatProperties
<1> HIDE DEF t
<1>4. ASSUME NEW i \in 1 .. Len(p) + Len(m) + Len(q)
      PROVE  t[i] = IF i <= Len(p) THEN p[i]
                    ELSE IF i <= Len(p) + Len(m) THEN m[i - Len(p)]
                    ELSE q[i - Len(p) - Len(m)]
  <2>1. i \in 1 .. Len(l) + Len(q) /\ (i <= Len(l) => i \in 1 .. Len(p) + Len(m))
        /\ i - Len(l) = i - Len(p) - Len(m) /\ (i <= Len(p) => i <= Len(l))
    BY <1>1, <1>2
  <2>2. CASE i <= Len(l)
    BY <1>2, <1>3, <2>1, <2>2
  <2>3. CASE ~(i <= Len(l))
    BY <1>2, <1>3, <2>1, <2>3
  <2>4. QED
    BY <2>2, <2>3
<1>5. Parts(t, p, m, q)
  BY <1>1, <1>2, <1>3, <1>4 DEF Parts
<1>6. QED
  BY <1>3, <1>5 DEF l, t

(***************************************************************************)
(* A sequence in the parts before and behind a place.                      *)
(***************************************************************************)
LEMMA TwoParts ==
  ASSUME NEW S, NEW s \in Seq(S), NEW n \in 0 .. Len(s)
  PROVE  LET p == SubSeq(s, 1, n)
             q == SubSeq(s, n + 1, Len(s))
         IN  /\ p \in Seq(S) /\ q \in Seq(S) /\ s = p \o q
             /\ Len(p) = n /\ Len(q) = Len(s) - n
             /\ \A i \in 1 .. n : p[i] = s[i]
             /\ \A i \in 1 .. Len(s) - n : q[i] = s[n + i]
<1> DEFINE p == SubSeq(s, 1, n)
           q == SubSeq(s, n + 1, Len(s))
<1>1. Len(s) \in Nat /\ n \in Nat /\ n <= Len(s)
  OBVIOUS
<1>2. /\ p \in Seq(S) /\ Len(p) = n /\ \A i \in 1 .. n : p[i] = s[i]
  BY <1>1
<1>3. /\ q \in Seq(S) /\ Len(q) = Len(s) - n /\ \A i \in 1 .. Len(s) - n : q[i] = s[n + i]
  <2>1. \A i \in n + 1 .. Len(s) : s[i] \in S
    BY <1>1
  <2>2. /\ q \in Seq(S)
        /\ Len(q) = IF n + 1 <= Len(s) THEN (Len(s) - (n + 1)) + 1 ELSE 0
        /\ \A i \in 1 .. (Len(s) - (n + 1)) + 1 : q[i] = s[((n + 1) + i) - 1]
    BY <1>1, <2>1, SubSeqProperties
  <2> HIDE DEF q
  <2>3. QED
    BY <1>1, <2>2
<1> HIDE DEF p, q
<1>4. /\ p \o q \in Seq(S) /\ Len(p \o q) = Len(s)
      /\ \A i \in 1 .. Len(s) : (p \o q)[i] = IF i <= n THEN p[i] ELSE q[i - n]
  <2>1. /\ p \o q \in Seq(S) /\ Len(p \o q) = Len(p) + Len(q)
        /\ \A i \in 1 .. Len(p) + Len(q) : (p \o q)[i] = IF i <= Len(p) THEN p[i] ELSE q[i - Len(p)]
    BY <1>2, <1>3, ConcatProperties
  <2>2. Len(p) + Len(q) = Len(s)
    BY <1>1, <1>2, <1>3
  <2>3. QED
    BY <1>2, <2>1, <2>2
<1>5. ASSUME NEW i \in 1 .. Len(s) PROVE s[i] = (p \o q)[i]
  <2>1. CASE i <= n
    <3>1. i \in 1 .. n
      BY <1>1, <2>1
    <3>2. QED
      BY <1>2, <1>4, <2>1, <3>1
  <2>2. CASE ~(i <= n)
    <3>1. i - n \in 1 .. Len(s) - n /\ n + (i - n) = i
      BY <1>1, <2>2
    <3>2. QED
      BY <1>3, <1>4, <2>2, <3>1
  <2>3. QED
    BY <2>1, <2>2
<1>6. s = p \o q
  BY <1>4, <1>5, SeqEqual
<1>7. QED
  BY <1>2, <1>3, <1>6 DEF p, q

(* A sequence with one element more behind the first n.                    *)
Inserted(t, s, n, x) ==
  /\ n \in 0 .. Len(s) /\ Len(t) = Len(s) + 1
  /\ \A i \in 1 .. Len(t) : t[i] = IF i <= n THEN s[i] ELSE IF i = n + 1 THEN x ELSE s[i - 1]

(* A sequence of which some elements are exchanged for each other.         *)
Mixed(t, s, T) ==
  Len(t) = Len(s) /\ \A i \in 1 .. Len(s) : t[i] = s[i] \/ (t[i] \in T /\ s[i] \in T)

(***************************************************************************)
(* An element between two parts.                                           *)
(***************************************************************************)
LEMMA InsertBetween ==
  ASSUME NEW S, NEW p \in Seq(S), NEW q \in Seq(S), NEW x \in S
  PROVE  p \o <<x>> \o q \in Seq(S) /\ Inserted(p \o <<x>> \o q, p \o q, Len(p), x)
<1> DEFINE m == <<x>>
           t == p \o m \o q
           s == p \o q
<1>1. m \in Seq(S) /\ Len(m) = 1 /\ m[1] = x
  OBVIOUS
<1> HIDE DEF m
<1>2. /\ t \in Seq(S) /\ Len(t) = Len(p) + 1 + Len(q) /\ Len(p) \in Nat /\ Len(q) \in Nat
      /\ \A i \in 1 .. Len(p) + 1 + Len(q) :
           t[i] = IF i <= Len(p) THEN p[i] ELSE IF i <= Len(p) + 1 THEN m[i - Len(p)]
                  ELSE q[i - Len(p) - 1]
  <2>1. t \in Seq(S) /\ Parts(t, p, m, q)
    BY <1>1, ThreeParts
  <2>2. Len(p) \in Nat /\ Len(q) \in Nat
    OBVIOUS
  <2> HIDE DEF t
  <2>3. QED
    BY <1>1, <2>1, <2>2 DEF Parts
<1>3. /\ s \in Seq(S) /\ Len(s) = Len(p) + Len(q)
      /\ \A i \in 1 .. Len(p) + Len(q) : s[i] = IF i <= Len(p) THEN p[i] ELSE q[i - Len(p)]
  BY ConcatProperties
<1> HIDE DEF s, t
<1>4. ASSUME NEW i \in 1 .. Len(t)
      PROVE  t[i] = IF i <= Len(p) THEN s[i] ELSE IF i = Len(p) + 1 THEN x ELSE s[i - 1]
  <2>1. CASE i <= Len(p)
    <3>1. i \in 1 .. Len(p) + Len(q) /\ i \in 1 .. Len(p) + 1 + Len(q)
      BY <1>2, <2>1
    <3>2. QED
      BY <1>2, <1>3, <2>1, <3>1
  <2>2. CASE i = Len(p) + 1
    <3>1. ~(i <= Len(p)) /\ i <= Len(p) + 1 /\ i - Len(p) = 1
      BY <1>2, <2>2
    <3>2. QED
      BY <1>1, <1>2, <2>2, <3>1
  <2>3. CASE i > Len(p) + 1
    <3>1. /\ ~(i <= Len(p)) /\ ~(i <= Len(p) + 1) /\ i # Len(p) + 1
          /\ i - 1 \in 1 .. Len(p) + Len(q) /\ ~(i - 1 <= Len(p))
          /\ (i - 1) - Len(p) = i - Len(p) - 1
      BY <1>2, <2>3
    <3>2. QED
      BY <1>2, <1>3, <3>1
  <2>4. i \in Int /\ Len(p) \in Int
    BY <1>2
  <2>5. QED
    BY <2>1, <2>2, <2>3, <2>4
<1>5. Inserted(t, s, Len(p), x)
  BY <1>2, <1>3, <1>4 DEF Inserted
<1>6. QED
  BY <1>2, <1>5 DEF s, t, m

(***************************************************************************)
(* Another part in the middle.                                             *)
(***************************************************************************)
LEMMA MixedBetween ==
  ASSUME NEW S, NEW p \in Seq(S), NEW q \in Seq(S), NEW m \in Seq(S), NEW k \in Seq(S),
         NEW T, Len(m) = Len(k), \A i \in 1 .. Len(m) : m[i] \in T /\ k[i] \in T
  PROVE  Mixed(p \o m \o q, p \o k \o q, T)
<1> DEFINE t == p \o m \o q
           s == p \o k \o q
<1>0. Parts(t, p, m, q) /\ Parts(s, p, k, q)
  BY ThreeParts
<1> HIDE DEF s, t
<1>1. /\ Len(t) = Len(p) + Len(m) + Len(q) /\ Len(p) \in Nat /\ Len(q) \in Nat /\ Len(m) \in Nat
      /\ \A i \in 1 .. Len(p) + Len(m) + Len(q) :
           t[i] = IF i <= Len(p) THEN p[i] ELSE IF i <= Len(p) + Len(m) THEN m[i - Len(p)]
                  ELSE q[i - Len(p) - Len(m)]
  BY <1>0 DEF Parts
<1>2. /\ Len(s) = Len(p) + Len(m) + Len(q)
      /\ \A i \in 1 .. Len(p) + Len(m) + Len(q) :
           s[i] = IF i <= Len(p) THEN p[i] ELSE IF i <= Len(p) + Len(m) THEN k[i - Len(p)]
                  ELSE q[i - Len(p) - Len(m)]
  BY <1>0 DEF Parts
<1>3. ASSUME NEW i \in 1 .. Len(s) PROVE t[i] = s[i] \/ (t[i] \in T /\ s[i] \in T)
  <2>1. CASE i <= Len(p) \/ ~(i <= Len(p) + Len(m))
    BY <1>1, <1>2, <2>1
  <2>2. CASE ~(i <= Len(p)) /\ i <= Len(p) + Len(m)
    <3>1. i - Len(p) \in 1 .. Len(m)
      BY <1>1, <2>2
    <3>2. QED
      BY <1>1, <1>2, <2>2, <3>1
  <2>3. QED
    BY <2>1, <2>2
<1>4. Mixed(t, s, T)
  BY <1>1, <1>2, <1>3 DEF Mixed
<1>5. QED
  BY <1>4 DEF s, t
-----------------------------------------------------------------------------
(***************************************************************************)
(* One sequence after another after another.                               *)
(***************************************************************************)
LEMMA Regroup ==
  ASSUME NEW S
  PROVE  \A a, b, c \in Seq(S) : a \o (b \o c) = (a \o b) \o c
<1> TAKE a, b, c \in Seq(S)
<1>1. QED
  BY ConcatAssociative

(***************************************************************************)
(* The wanted members of two sequences, one after the other.               *)
(***************************************************************************)
LEMMA OnlyConcat ==
  ASSUME NEW S, NEW s \in Seq(S), NEW t \in Seq(S), NEW W
  PROVE  Only(s \o t, W) = Only(s, W) \o Only(t, W)
<1> DEFINE T == {q \in Seq(S) : Only(q \o t, W) = Only(q, W) \o Only(t, W)}
<1>1. <<>> \in T
  <2>1. <<>> \in Seq(S) /\ Only(t, W) \in Seq(S)
    BY OnlyKeeps
  <2>2. <<>> \o t = t /\ <<>> \o Only(t, W) = Only(t, W)
    BY <2>1, ConcatEmptySeq
  <2>3. QED
    BY <2>1, <2>2, OnlyEmpty
<1>2. ASSUME NEW q \in T, NEW x \in S PROVE <<x>> \o q \in T
  <2>1. q \in Seq(S) /\ <<x>> \in Seq(S) /\ Only(q \o t, W) = Only(q, W) \o Only(t, W)
    OBVIOUS
  <2> HIDE DEF T
  <2>2. /\ q \o t \in Seq(S) /\ Only(q, W) \in Seq(S) /\ Only(t, W) \in Seq(S)
        /\ <<x>> \o q \in Seq(S)
    BY <2>1, ConcatProperties, OnlyKeeps
  <2>3. (<<x>> \o q) \o t = <<x>> \o (q \o t)
    BY <2>1, ConcatAssociative
  <2>4. /\ Only(<<x>> \o (q \o t), W) = IF x \in W THEN <<x>> \o Only(q \o t, W) ELSE Only(q \o t, W)
        /\ Only(<<x>> \o q, W) = IF x \in W THEN <<x>> \o Only(q, W) ELSE Only(q, W)
    <3>1. Only(<<x>> \o q, W) = IF x \in W THEN <<x>> \o Only(q, W) ELSE Only(q, W)
      BY <2>1, OnlyCons
    <3> DEFINE r == q \o t
    <3>2. r \in Seq(S)
      BY <2>2
    <3> HIDE DEF r
    <3>3. Only(<<x>> \o r, W) = IF x \in W THEN <<x>> \o Only(r, W) ELSE Only(r, W)
      BY <3>2, OnlyCons
    <3>4. QED
      BY <3>1, <3>3 DEF r
  <2>5. <<x>> \o (Only(q, W) \o Only(t, W)) = (<<x>> \o Only(q, W)) \o Only(t, W)
    <3>1. \A a, b, c \in Seq(S) : a \o (b \o c) = (a \o b) \o c
      BY Regroup
    <3>2. <<x>> \in Seq(S) /\ Only(q, W) \in Seq(S) /\ Only(t, W) \in Seq(S)
      BY <2>1, <2>2
    <3>3. QED
      BY <3>1, <3>2, Zenon
  <2>6. Only((<<x>> \o q) \o t, W) = Only(<<x>> \o q, W) \o Only(t, W)
    <3>1. CASE x \in W
      BY <2>1, <2>3, <2>4, <2>5, <3>1, Zenon
    <3>2. CASE x \notin W
      BY <2>1, <2>3, <2>4, <3>2, Zenon
    <3>3. QED
      BY <3>1, <3>2
  <2>7. QED
    BY <2>2, <2>6 DEF T
<1> HIDE DEF T
<1>3. T \subseteq Seq(S)
  BY DEF T
<1>4. s \in T
  BY <1>1, <1>2, <1>3, SeqInduction
<1>5. QED
  BY <1>4 DEF T

(***************************************************************************)
(* Sets that want the same of a sequence.                                  *)
(***************************************************************************)
LEMMA OnlySame ==
  ASSUME NEW S, NEW s \in Seq(S), NEW V, NEW W, \A x \in Range(s) : x \in V <=> x \in W
  PROVE  Only(s, V) = Only(s, W)
<1> DEFINE T == {q \in Seq(S) : (\A x \in Range(q) : x \in V <=> x \in W) => Only(q, V) = Only(q, W)}
<1>1. <<>> \in T
  <2>1. <<>> \in Seq(S)
    OBVIOUS
  <2>2. QED
    BY <2>1, OnlyEmpty
<1>2. ASSUME NEW q \in T, NEW x \in S PROVE <<x>> \o q \in T
  <2>1. q \in Seq(S)
    OBVIOUS
  <2>2. <<x>> \o q \in Seq(S) /\ Range(<<x>> \o q) = {x} \cup Range(q)
    BY <2>1, Cons
  <2> SUFFICES ASSUME \A y \in Range(<<x>> \o q) : y \in V <=> y \in W
               PROVE  Only(<<x>> \o q, V) = Only(<<x>> \o q, W)
    BY <2>2
  <2>3. Only(q, V) = Only(q, W) /\ (x \in V <=> x \in W)
    BY <2>2
  <2>4. /\ Only(<<x>> \o q, V) = IF x \in V THEN <<x>> \o Only(q, V) ELSE Only(q, V)
        /\ Only(<<x>> \o q, W) = IF x \in W THEN <<x>> \o Only(q, W) ELSE Only(q, W)
    BY <2>1, OnlyCons
  <2>5. QED
    BY <2>3, <2>4
<1> HIDE DEF T
<1>3. T \subseteq Seq(S)
  BY DEF T
<1>4. s \in T
  BY <1>1, <1>2, <1>3, SeqInduction
<1>5. QED
  BY <1>4 DEF T

(***************************************************************************)
(* One element alone, wanted or not.                                       *)
(***************************************************************************)
LEMMA OnlyOne ==
  ASSUME NEW x, NEW W
  PROVE  Only(<<x>>, W) = IF x \in W THEN <<x>> ELSE <<>>
<1>1. <<>> \in Seq({x}) /\ <<x>> \in Seq({x}) /\ x \in {x}
  OBVIOUS
<1>2. <<x>> \o <<>> = <<x>>
  BY <1>1, ConcatEmptySeq
<1>3. Only(<<x>> \o <<>>, W) = IF x \in W THEN <<x>> \o Only(<<>>, W) ELSE Only(<<>>, W)
  <2> DEFINE e == <<>>
  <2>1. e \in Seq({x})
    BY <1>1
  <2> HIDE DEF e
  <2>2. Only(<<x>> \o e, W) = IF x \in W THEN <<x>> \o Only(e, W) ELSE Only(e, W)
    BY <1>1, <2>1, OnlyCons
  <2>3. QED
    BY <2>2 DEF e
<1>4. QED
  BY <1>2, <1>3, OnlyEmpty, Zenon
-----------------------------------------------------------------------------
(***************************************************************************)
(* What a list shows, as wanted rows of the list.                          *)
(***************************************************************************)
LEMMA ShownWanted ==
  ASSUME kind \in Stored
  PROVE  Shown = Only(list, Wanted)
BY DEF Shown, Wanted, Stored, ListAuditEvents, ListApprovals, ListDrift, ListReleaseHistory

(***************************************************************************)
(* Rows with ids of their own, at most as many as there have been.         *)
(***************************************************************************)
LEMMA ShownRows ==
  ASSUME IInv, kind \in Stored
  PROVE  /\ Shown \in Seq(Rows) /\ Len(Shown) \in 0 .. MaxItems
         /\ DistinctIds(Shown)
         /\ \A i \in 1 .. Len(Shown) : Shown[i].id \in 1 .. made
<1>1. /\ list \in Seq(Rows) /\ DistinctIds(list) /\ Len(list) <= made /\ made \in 0 .. MaxItems
      /\ \A i \in 1 .. Len(list) : list[i].id <= made
  BY DEF IInv, TypeOK, ListInv
<1>2. Shown = Only(list, Wanted)
  BY ShownWanted
<1>3. /\ Shown \in Seq(Rows) /\ Len(Shown) <= Len(list) /\ Len(Shown) \in Nat
      /\ Range(Shown) = Range(list) \cap Wanted
  BY <1>1, <1>2, OnlyKeeps
<1>4. DistinctIds(Shown)
  BY <1>1, <1>2, OnlyDistinct
<1>5. Len(list) \in Nat /\ MaxItems \in Nat
  BY <1>1, ItemsAssumption, LenProperties
<1>6. ASSUME NEW i \in 1 .. Len(Shown) PROVE Shown[i].id \in 1 .. made
  <2>1. Shown[i] \in Rows
    BY <1>3, ElementOfSeq
  <2>2. Shown[i] \in Range(Shown)
    BY <1>3, RangeEquality
  <2>3. PICK j \in 1 .. Len(list) : list[j] = Shown[i]
    BY <1>1, <1>3, <2>2, RangeEquality
  <2>4. Shown[i].id \in 1 .. MaxItems
    BY <2>1 DEF Rows
  <2>5. Shown[i].id <= made
    BY <1>1, <2>3
  <2>6. QED
    BY <1>1, <1>5, <2>4, <2>5
<1>7. QED
  BY <1>1, <1>3, <1>4, <1>5, <1>6

(***************************************************************************)
(* The ids of rows.                                                        *)
(***************************************************************************)
LEMMA IdsOf ==
  ASSUME NEW S, NEW s \in Seq(S), NEW n \in Nat, \A i \in 1 .. Len(s) : s[i].id \in 1 .. n
  PROVE  /\ Ids(s) \in Seq(1 .. n) /\ Len(Ids(s)) = Len(s)
         /\ \A i \in 1 .. Len(s) : Ids(s)[i] = s[i].id
         /\ Range(Ids(s)) = {s[i].id : i \in 1 .. Len(s)}
<1>1. Len(s) \in Nat
  BY LenProperties
<1>2. Ids(s) \in Seq(1 .. n) /\ Len(Ids(s)) = Len(s)
  BY <1>1 DEF Ids
<1>3. \A i \in 1 .. Len(s) : Ids(s)[i] = s[i].id
  BY DEF Ids
<1>4. Range(Ids(s)) = {s[i].id : i \in 1 .. Len(s)}
  BY DEF Ids, Range
<1>5. QED
  BY <1>2, <1>3, <1>4

(***************************************************************************)
(* A list shows the same while nothing that it depends on changes.         *)
(***************************************************************************)
LEMMA ShownStays ==
  ASSUME UNCHANGED <<kind, filter, list>>
  PROVE  Shown' = Shown
BY DEF Shown, ListAuditEvents, ListApprovals, ListDrift, ListReleaseHistory

(***************************************************************************)
(* A limit that a handler passes on is a positive int.                     *)
(***************************************************************************)
LEMMA LimitPositive ==
  ASSUME NEW l, kind \in Stored
  PROVE  Limit(l) \in 1 .. Bound - 1
<1>1. Bound \in Nat /\ 100 < Bound
  BY ItemsAssumption, BoundAssumption
<1>2. \A n \in 1 .. 100 : queryInt(l, n) \in 1 .. Bound - 1
  BY <1>1 DEF queryInt
<1>3. 20 \in 1 .. 100 /\ 50 \in 1 .. 100 /\ 100 \in 1 .. 100
  OBVIOUS
<1>4. QED
  BY <1>2, <1>3 DEF Limit, Stored, listAuditEventsHandler, listApprovalsHandler,
                    listDriftHandler, listReleaseHistoryHandler
-----------------------------------------------------------------------------
(***************************************************************************)
(* The initial states.                                                     *)
(***************************************************************************)
LEMMA Initially == Init => IInv
<1> SUFFICES ASSUME Init PROVE IInv
  OBVIOUS
<1>1. /\ MaxItems \in Nat \ {0} /\ MaxReleases \in 0 .. MaxItems /\ Bound \in Nat /\ 100 < Bound
  BY ItemsAssumption, BoundAssumption
<1>2. /\ list = <<>> /\ made = 0 /\ walk = Idle /\ up = Clusters
      /\ helm = {} /\ req = [r \in Readers |-> None]
  BY DEF Init
<1>3. kind \in Stored \cup {"releases", "diff"} /\ filter \in {"", "new"}
  BY DEF Init, Stored
<1>4. mem = NoPages /\ redis = NoPages /\ answer = None
  BY DEF Init
<1>5. kind = "diff" => texts \in Manifests \X Manifests
  BY DEF Init
<1> HIDE DEF Init
<1>6. list = <<>> /\ Len(list) = 0 /\ list \in Seq(Rows) /\ made = 0
  BY <1>2, EmptySeq
<1>7. TypeOK
  <2>1. <<>> \in Seq(1 .. 0)
    OBVIOUS
  <2>2. /\ walk \in [page : 0 .. MaxItems, limit : 1 .. Bound - 1, before : SUBSET (1 .. made),
                     seen : Seq(1 .. made), counted : 0 .. MaxItems \cup {None}, grew : BOOLEAN,
                     shrunk : BOOLEAN, torn : BOOLEAN, done : BOOLEAN, failed : BOOLEAN]
    BY <1>1, <1>6, <1>2, <2>1 DEF Idle
  <2>3. helm \subseteq Revisions /\ up \subseteq Clusters /\ req \in [Readers -> {None} \cup Requests]
    BY <1>2
  <2>4. QED
    BY <1>1, <1>6, <1>2, <2>2, <2>3 DEF TypeOK
<1>8. ListInv
  <2>1. DistinctIds(list) /\ Len(list) <= made
    BY <1>6 DEF DistinctIds
  <2>2. QED
    BY <1>3, <2>1, Zenon DEF ListInv
<1>9. ~Walking /\ walk.counted = None /\ walk.page = 0 /\ walk = Idle /\ ~walk.done /\ ~walk.failed
      /\ walk.seen = <<>>
  <2>1. Idle.page = 0 /\ Idle.counted = None /\ Idle.done = FALSE /\ Idle.failed = FALSE /\ Idle.seen = <<>>
    BY DEF Idle
  <2>2. QED
    BY <1>2, <2>1 DEF Walking
<1>10. WalkInv /\ SeenInv /\ NothingMissed /\ WalkSucceeds
  BY <1>9 DEF WalkInv, SeenInv, NothingMissed, WalkSucceeds
<1>11. NothingTwice
  BY <1>9 DEF NothingTwice
<1>12. PageInv
  BY <1>4 DEF PageInv, NoPages
<1>13. DiffInv
  BY <1>4, <1>5 DEF DiffInv
<1>14. HelmInv
  BY <1>2, FS_EmptySet DEF HelmInv, OwnIds
<1>15. ReqInv
  BY <1>2 DEF ReqInv
<1>16. QED
  BY <1>7, <1>8, <1>10, <1>11, <1>12, <1>13, <1>14, <1>15 DEF IInv
-----------------------------------------------------------------------------
(***************************************************************************)
(* Steps that leave the releases alone.                                    *)
(***************************************************************************)
LEMMA ReleasesStay ==
  ASSUME IInv, UNCHANGED <<kind, filter, releaseVars, texts, answer>>, made' \in Nat, made <= made'
  PROVE  /\ PageInv' /\ DiffInv' /\ HelmInv' /\ ReqInv'
         /\ (helm \subseteq Revisions /\ up \subseteq Clusters /\ req \in [Readers -> {None} \cup Requests])'
<1>0. UNCHANGED <<kind, filter, helm, up, req, mem, redis, texts, answer>>
  BY DEF releaseVars
<1>1. PageInv' /\ DiffInv'
  BY <1>0 DEF IInv, PageInv, DiffInv
<1>2. /\ helm \subseteq Revisions /\ up \subseteq Clusters /\ req \in [Readers -> {None} \cup Requests]
      /\ made \in Nat /\ \A x \in Revisions : x.id \in Nat
  <2>1. made \in 0 .. MaxItems /\ MaxItems \in Nat
    BY ItemsAssumption DEF IInv, TypeOK
  <2>2. \A x \in Revisions : x.id \in 1 .. MaxItems
    BY DEF Revisions
  <2>3. QED
    BY <2>1, <2>2 DEF IInv, TypeOK
<1>3. HelmInv'
  <2>1. \A x \in helm : x.id <= made'
    <3>1. \A x \in helm : x.id \in Nat /\ x.id <= made
      BY <1>2 DEF IInv, HelmInv
    <3>2. QED
      BY <1>2, <3>1
  <2>2. QED
    BY <1>0, <2>1 DEF IInv, HelmInv, OwnIds
<1>4. ReqInv'
  <2> SUFFICES ASSUME NEW r \in Readers, req[r] # None
               PROVE  /\ kind = "releases"
                      /\ FoundInv(req[r])' /\ GotInv(req[r])' /\ QuietInv(req[r])'
    BY <1>0 DEF ReqInv
  <2>1. kind = "releases" /\ FoundInv(req[r]) /\ GotInv(req[r]) /\ QuietInv(req[r])
    BY DEF IInv, ReqInv
  <2>2. \A y \in req[r].found : y.id <= made'
    <3>1. \A y \in req[r].found : y.id <= made /\ y.id \in Nat
      BY <1>2, <2>1 DEF FoundInv, LiveGood, helmReleaseToType
    <3>2. QED
      BY <1>2, <3>1
  <2>3. FoundInv(req[r])'
    BY <1>0, <2>1, <2>2 DEF FoundInv, OwnIds
  <2>4. GotInv(req[r])'
    BY <1>0, <2>1 DEF GotInv
  <2>5. QuietInv(req[r])'
    BY <1>0, <2>1 DEF QuietInv, Asked, Live, filterReleases
  <2>6. QED
    BY <2>1, <2>3, <2>4, <2>5
<1>5. QED
  BY <1>0, <1>1, <1>2, <1>3, <1>4

(***************************************************************************)
(* A walk starts.                                                          *)
(***************************************************************************)
LEMMA StartWalkStep ==
  ASSUME IInv, NEW l, StartWalk(l)
  PROVE  IInv'
<1>1. /\ kind \in Stored /\ walk.page = 0 /\ walk = Idle
      /\ UNCHANGED <<store, kind, filter, list, made, releaseVars, texts, answer>>
      /\ walk' = [Idle EXCEPT !.page = 1, !.limit = Limit(l), !.before = Range(Ids(Shown))]
  BY DEF StartWalk, WalkStep, IInv, WalkInv
<1>2. /\ walk'.page = 1 /\ walk'.limit = Limit(l) /\ walk'.before = Range(Ids(Shown))
      /\ walk'.seen = <<>> /\ walk'.counted = None /\ walk'.done = FALSE /\ walk'.failed = FALSE
      /\ walk' = [page |-> 1, limit |-> Limit(l), before |-> Range(Ids(Shown)), seen |-> <<>>,
                  counted |-> None, grew |-> FALSE, shrunk |-> FALSE, torn |-> FALSE,
                  done |-> FALSE, failed |-> FALSE]
  BY <1>1 DEF Idle
<1>3. /\ Shown \in Seq(Rows) /\ Len(Shown) \in 0 .. MaxItems /\ made \in 0 .. MaxItems
      /\ \A i \in 1 .. Len(Shown) : Shown[i].id \in 1 .. made
  BY <1>1, ShownRows DEF IInv, TypeOK
<1>4. Range(Ids(Shown)) = {Shown[i].id : i \in 1 .. Len(Shown)}
  <2>1. made \in Nat
    BY <1>3, ItemsAssumption
  <2>2. QED
    BY <1>3, <2>1, IdsOf
<1>5. Limit(l) \in 1 .. Bound - 1 /\ Bound \in Nat
  BY <1>1, LimitPositive, BoundAssumption
<1>6. Shown' = Shown
  BY <1>1, ShownStays
<1>15. made' \in Nat /\ made <= made'
  BY <1>1, <1>3, ItemsAssumption
<1>7. TypeOK'
  <2>1. /\ 1 \in 0 .. MaxItems /\ Range(Ids(Shown)) \in SUBSET (1 .. made) /\ <<>> \in Seq(1 .. made)
    BY <1>3, <1>4, ItemsAssumption
  <2>2. walk' \in [page : 0 .. MaxItems, limit : 1 .. Bound - 1, before : SUBSET (1 .. made),
                   seen : Seq(1 .. made), counted : 0 .. MaxItems \cup {None}, grew : BOOLEAN,
                   shrunk : BOOLEAN, torn : BOOLEAN, done : BOOLEAN, failed : BOOLEAN]
    BY <1>2, <1>5, <2>1
  <2>3. (helm \subseteq Revisions /\ up \subseteq Clusters /\ req \in [Readers -> {None} \cup Requests])'
    BY <1>1, <1>15, ReleasesStay
  <2>4. QED
    BY <1>1, <2>2, <2>3 DEF IInv, TypeOK
<1>8. ListInv'
  BY <1>1 DEF IInv, ListInv, DistinctIds
<1>9. WalkInv'
  BY <1>1, <1>2 DEF WalkInv
<1>10. SeenInv'
  <2>1. \A i \in 1 .. Len(Shown) : ~Before(i)'
    BY <1>2, <1>3, <1>5 DEF Before
  <2>2. Covered'
    BY <1>2, <1>4, <1>6, <2>1 DEF Covered
  <2>3. Range(walk'.seen) = {}
    BY <1>2 DEF Range
  <2>4. Passed'
    BY <1>6, <2>3 DEF Passed
  <2>5. Counted'
    BY <1>2 DEF Counted
  <2>6. QED
    BY <2>2, <2>4, <2>5 DEF SeenInv
<1>11. NothingTwice'
  BY <1>2 DEF NothingTwice
<1>12. NothingMissed' /\ WalkSucceeds'
  BY <1>2 DEF NothingMissed, WalkSucceeds
<1>13. PageInv' /\ DiffInv' /\ HelmInv' /\ ReqInv'
  BY <1>1, <1>15, ReleasesStay
<1>14. QED
  BY <1>7, <1>8, <1>9, <1>10, <1>11, <1>12, <1>13 DEF IInv

(***************************************************************************)
(* A page is taken: its rows are those on the places behind the pages      *)
(* before it, so they are new if no row came, and with them, unless the    *)
(* page ended early, every covered place was seen; the last page covers    *)
(* them all.                                                               *)
(***************************************************************************)
LEMMA TakeStep ==
  ASSUME IInv, Walking, NEW items \in Seq(Rows \cup Releases \cup Range(Archive)),
         NEW total \in 0 .. MaxItems, NEW torn \in BOOLEAN, NEW a,
         a = [items |-> items, pages |-> PageCount(total, walk.limit)],
         IsPart(items, Shown, (walk.page - 1) * walk.limit, walk.limit),
         torn \/ IsCut(items, Shown, (walk.page - 1) * walk.limit, walk.limit),
         ~walk.shrunk /\ ~walk.torn => total = Len(Shown), Take(a, torn)
  PROVE  IInv'
<1> DEFINE d == (walk.page - 1) * walk.limit
           n == PageCount(total, walk.limit)
           seen == walk.seen \o Ids(items)
<1>1. /\ kind \in Stored /\ walk.page \in Nat \ {0} /\ walk.page \in 0 .. MaxItems
      /\ walk.limit \in 1 .. Bound - 1 /\ walk.limit \in Nat \ {0}
      /\ MaxItems \in Nat /\ made \in Nat /\ made \in 0 .. MaxItems /\ ~walk.done /\ ~walk.failed
      /\ walk.before \in SUBSET (1 .. made) /\ walk.seen \in Seq(1 .. made)
      /\ walk.grew \in BOOLEAN /\ walk.shrunk \in BOOLEAN /\ walk.torn \in BOOLEAN
  <2>1. /\ walk.page \in 0 .. MaxItems /\ walk.limit \in 1 .. Bound - 1 /\ made \in 0 .. MaxItems
        /\ walk.before \in SUBSET (1 .. made) /\ walk.seen \in Seq(1 .. made)
        /\ walk.grew \in BOOLEAN /\ walk.shrunk \in BOOLEAN /\ walk.torn \in BOOLEAN
    BY DEF IInv, TypeOK
  <2>2. walk.page > 0 /\ ~walk.done /\ ~walk.failed /\ kind \in Stored
    BY DEF IInv, WalkInv, WalkSucceeds, Walking
  <2>3. QED
    BY <2>1, <2>2, ItemsAssumption, BoundAssumption
<1>2. /\ Shown \in Seq(Rows) /\ Len(Shown) \in 0 .. MaxItems /\ DistinctIds(Shown)
      /\ \A i \in 1 .. Len(Shown) : Shown[i].id \in 1 .. made
  BY <1>1, ShownRows
<1>3. /\ n \in Int
      /\ walk.page >= n => total <= walk.page * walk.limit
      /\ walk.page < n => walk.page * walk.limit < total
  BY <1>1, PageCountReaches
<1>4. d \in Nat /\ walk.page * walk.limit = d + walk.limit
  BY <1>1, Product
<1>5. /\ \A i \in 1 .. Len(items) : d + i \in 1 .. Len(Shown) /\ i <= walk.limit /\ items[i] = Shown[d + i]
      /\ ~torn => \A i \in 1 .. Len(Shown) : d < i /\ i <= d + walk.limit => i - d \in 1 .. Len(items)
  BY DEF IsCut, IsPart
<1> HIDE DEF n, d
<1>6. \A i \in 1 .. Len(items) : items[i].id \in 1 .. made
  BY <1>2, <1>5
<1>7. /\ Ids(items) \in Seq(1 .. made) /\ Len(Ids(items)) = Len(items) /\ Len(items) \in Nat
      /\ \A i \in 1 .. Len(items) : Ids(items)[i] = items[i].id
      /\ Range(Ids(items)) = {items[i].id : i \in 1 .. Len(items)}
  <2>1. Len(items) \in Nat
    BY LenProperties
  <2>2. /\ Ids(items) \in Seq(1 .. made) /\ Len(Ids(items)) = Len(items)
        /\ \A i \in 1 .. Len(items) : Ids(items)[i] = items[i].id
        /\ Range(Ids(items)) = {items[i].id : i \in 1 .. Len(items)}
    BY <1>1, <1>6, IdsOf
  <2>3. QED
    BY <2>1, <2>2
<1>8. /\ seen \in Seq(1 .. made) /\ Len(seen) = Len(walk.seen) + Len(items) /\ Len(walk.seen) \in Nat
      /\ \A i \in 1 .. Len(walk.seen) + Len(items) :
           seen[i] = IF i <= Len(walk.seen) THEN walk.seen[i] ELSE Ids(items)[i - Len(walk.seen)]
      /\ Range(seen) = Range(walk.seen) \cup Range(Ids(items))
  <2>1. Len(walk.seen) \in Nat
    BY <1>1, LenProperties
  <2>2. /\ seen \in Seq(1 .. made) /\ Len(seen) = Len(walk.seen) + Len(Ids(items))
        /\ \A i \in 1 .. Len(walk.seen) + Len(Ids(items)) :
             seen[i] = IF i <= Len(walk.seen) THEN walk.seen[i] ELSE Ids(items)[i - Len(walk.seen)]
    <3>1. walk.seen \in Seq(1 .. made) /\ Ids(items) \in Seq(1 .. made)
      BY <1>1, <1>7
    <3>2. QED
      BY <3>1, ConcatProperties
  <2>3. Range(seen) = Range(walk.seen) \cup Range(Ids(items))
    BY <1>1, <1>7, RangeConcatenation
  <2>4. QED
    BY <1>7, <2>1, <2>2, <2>3
<1>9. a # Failed /\ a.items = items /\ a.pages = n
  <2>1. a \in [items : Seq(Rows \cup Releases \cup Range(Archive)), pages : Int]
    BY <1>3 DEF n
  <2>2. QED
    BY <2>1, FailedAssumption DEF n
<1> DEFINE cut == walk.torn \/ torn
<1>10. /\ UNCHANGED <<store, kind, filter, list, made, releaseVars, texts, answer>>
       /\ walk' = [walk EXCEPT !.seen = @ \o Ids(a.items), !.counted = None,
                               !.page = IF @ < a.pages THEN @ + 1 ELSE @,
                               !.torn = @ \/ torn,
                               !.done = walk.page >= a.pages]
  BY <1>9 DEF Take, WalkStep
<1>11. /\ walk' = [walk EXCEPT !.seen = seen, !.counted = None,
                               !.page = IF walk.page < n THEN walk.page + 1 ELSE walk.page,
                               !.torn = cut, !.done = walk.page >= n]
  BY <1>9, <1>10
<1> HIDE DEF seen
<1>26. cut \in BOOLEAN /\ (~cut => ~walk.torn /\ ~torn)
  BY <1>1
<1> HIDE DEF cut
<1>27. made' \in Nat /\ made <= made'
  BY <1>1, <1>10
<1>12. /\ walk'.seen = seen /\ walk'.counted = None /\ walk'.limit = walk.limit
       /\ walk'.page = IF walk.page < n THEN walk.page + 1 ELSE walk.page
       /\ walk'.done = (walk.page >= n) /\ walk'.failed = walk.failed /\ walk'.before = walk.before
       /\ walk'.grew = walk.grew /\ walk'.shrunk = walk.shrunk /\ walk'.torn = cut
  BY <1>11 DEF IInv, TypeOK
<1>13. Shown' = Shown
  BY <1>10, ShownStays
<1>14. walk.page < n => walk.page + 1 \in 0 .. MaxItems /\ walk.page * walk.limit < MaxItems
  <2> SUFFICES ASSUME walk.page < n PROVE walk.page + 1 \in 0 .. MaxItems /\ walk.page * walk.limit < MaxItems
    OBVIOUS
  <2>1. walk.page * walk.limit < MaxItems /\ walk.page * walk.limit \in Nat
    BY <1>1, <1>3, <1>4
  <2>2. walk.page * 1 <= walk.page * walk.limit
    <3>1. 1 \in Int /\ walk.limit \in Int /\ 1 <= walk.limit /\ walk.page \in Nat
      BY <1>1
    <3>2. 1 * walk.page <= walk.limit * walk.page
      BY <3>1, ProductGrows
    <3>3. QED
      BY <3>1, <3>2
  <2>3. walk.page * 1 = walk.page
    BY <1>1
  <2>4. QED
    BY <1>1, <2>1, <2>2, <2>3
<1>15. TypeOK'
  <2>1. walk' \in [page : 0 .. MaxItems, limit : 1 .. Bound - 1, before : SUBSET (1 .. made),
                   seen : Seq(1 .. made), counted : 0 .. MaxItems \cup {None}, grew : BOOLEAN,
                   shrunk : BOOLEAN, torn : BOOLEAN, done : BOOLEAN, failed : BOOLEAN]
    <3>1. walk \in [page : 0 .. MaxItems, limit : 1 .. Bound - 1, before : SUBSET (1 .. made),
                    seen : Seq(1 .. made), counted : 0 .. MaxItems \cup {None}, grew : BOOLEAN,
                    shrunk : BOOLEAN, torn : BOOLEAN, done : BOOLEAN, failed : BOOLEAN]
      BY DEF IInv, TypeOK
    <3>2. (IF walk.page < n THEN walk.page + 1 ELSE walk.page) \in 0 .. MaxItems
      BY <1>1, <1>14
    <3> DEFINE next == IF walk.page < n THEN walk.page + 1 ELSE walk.page
               last == walk.page >= n
    <3>3. /\ next \in 0 .. MaxItems /\ seen \in Seq(1 .. made) /\ last \in BOOLEAN
          /\ walk' = [walk EXCEPT !.seen = seen, !.counted = None, !.page = next, !.torn = cut,
                                  !.done = last]
      BY <1>8, <1>11, <3>2
    <3> HIDE DEF next, last
    <3>4. QED
      BY <1>26, <3>1, <3>3
  <2>2. (helm \subseteq Revisions /\ up \subseteq Clusters /\ req \in [Readers -> {None} \cup Requests])'
    BY <1>10, <1>27, ReleasesStay
  <2>3. QED
    BY <1>10, <2>1, <2>2 DEF IInv, TypeOK
<1>16. ListInv'
  BY <1>10 DEF IInv, ListInv, DistinctIds
<1>17. WalkInv'
  <2>1. walk'.page # 0
    BY <1>1, <1>12
  <2>2. walk'.page > 1 => (walk'.page - 1) * walk'.limit < MaxItems
    <3>1. CASE walk.page < n
      <4>1. walk'.page - 1 = walk.page
        BY <1>1, <1>12, <3>1
      <4>2. QED
        BY <1>12, <1>14, <3>1, <4>1
    <3>2. CASE ~(walk.page < n)
      <4>1. walk'.page = walk.page
        BY <1>12, <3>2
      <4>2. QED
        BY <1>12, <4>1 DEF IInv, WalkInv
    <3>3. QED
      BY <3>1, <3>2
  <2>3. QED
    BY <1>1, <1>10, <1>12, <2>1, <2>2 DEF WalkInv
<1>18. ASSUME NEW i \in 1 .. Len(Shown), ~walk.grew, Shown[i].id \notin Tied, Shown[i].id \in Range(seen)
       PROVE  i <= d + walk.limit
  <2>1. CASE Shown[i].id \in Range(walk.seen)
    <3>1. i <= d
      BY <1>18, <2>1 DEF IInv, SeenInv, Passed, Before, d
    <3>2. QED
      BY <1>1, <1>2, <1>4, <3>1
  <2>2. CASE Shown[i].id \in Range(Ids(items))
    <3>1. PICK k \in 1 .. Len(items) : Shown[i].id = items[k].id
      BY <1>7, <2>2
    <3>2. d + k \in 1 .. Len(Shown) /\ k <= walk.limit /\ Shown[i].id = Shown[d + k].id
      BY <1>5, <3>1
    <3>3. i = d + k
      BY <1>2, <3>2 DEF DistinctIds
    <3>4. QED
      BY <1>1, <1>2, <1>4, <1>7, <3>2, <3>3
  <2>3. QED
    BY <1>8, <1>18, <2>1, <2>2
<1>19. ASSUME ~walk.shrunk, ~cut, NEW b \in walk.before \ Tied
       PROVE  \E i \in 1 .. Len(Shown) : Shown[i].id = b /\ (i <= d + walk.limit => b \in Range(seen))
  <2>1. PICK i \in 1 .. Len(Shown) : Shown[i].id = b /\ (i <= d => b \in Range(walk.seen))
    BY <1>19, <1>26 DEF IInv, SeenInv, Covered, Before, d
  <2>2. ASSUME d < i, i <= d + walk.limit PROVE b \in Range(seen)
    <3>1. i - d \in 1 .. Len(items) /\ d + (i - d) = i
      BY <1>2, <1>4, <1>5, <1>19, <1>26, <2>2
    <3>2. items[i - d].id = b
      BY <1>5, <2>1, <3>1
    <3>3. QED
      BY <1>7, <1>8, <3>1, <3>2
  <2>3. i <= d + walk.limit => b \in Range(seen)
    BY <1>1, <1>4, <1>8, <2>1, <2>2
  <2>4. QED
    BY <2>1, <2>3
<1>28. Tied' = Tied
  BY <1>10 DEF Tied, ByTime
<1>20. SeenInv'
  <2> SUFFICES ASSUME Walking' PROVE Covered' /\ Passed' /\ Counted'
    BY DEF SeenInv
  <2>1. walk.page < n
    <3>1. ~walk'.done
      BY DEF Walking
    <3>2. ~(walk.page >= n)
      BY <1>12, <3>1, Zenon
    <3>3. QED
      BY <1>1, <1>3, <3>2
  <2>2. (walk'.page - 1) * walk'.limit = d + walk.limit
    <3>1. walk'.page - 1 = walk.page
      BY <1>1, <1>12, <2>1
    <3>2. QED
      BY <1>4, <1>12, <3>1
  <2>3. Covered'
    BY <1>12, <1>13, <1>19, <1>28, <2>2 DEF Covered, Before
  <2>4. Passed'
    BY <1>12, <1>13, <1>18, <1>28, <2>2 DEF Passed, Before
  <2>5. Counted'
    BY <1>12 DEF Counted
  <2>6. QED
    BY <2>3, <2>4, <2>5
<1>21. NothingTwice'
  <2> SUFFICES ASSUME ~walk.grew
               PROVE  \A i, j \in 1 .. Len(seen) : seen[i] = seen[j] /\ seen[i] \notin Tied => i = j
    BY <1>12, <1>28 DEF NothingTwice
  <2>1. \A i, j \in 1 .. Len(walk.seen) : walk.seen[i] = walk.seen[j] /\ walk.seen[i] \notin Tied => i = j
    BY DEF IInv, NothingTwice
  <2>2. \A i, j \in 1 .. Len(items) : items[i].id = items[j].id => i = j
    <3>1. TAKE i, j \in 1 .. Len(items)
    <3>2. HAVE items[i].id = items[j].id
    <3>3. /\ d + i \in 1 .. Len(Shown) /\ d + j \in 1 .. Len(Shown)
          /\ Shown[d + i].id = Shown[d + j].id
      BY <1>5, <3>2
    <3>4. d + i = d + j
      BY <1>2, <3>3 DEF DistinctIds
    <3>5. QED
      BY <1>4, <1>7, <3>4
  <2>3. \A i \in 1 .. Len(walk.seen), j \in 1 .. Len(items) :
          walk.seen[i] \notin Tied => walk.seen[i] # items[j].id
    <3>1. SUFFICES ASSUME NEW i \in 1 .. Len(walk.seen), NEW j \in 1 .. Len(items),
                          walk.seen[i] \notin Tied, walk.seen[i] = items[j].id
                   PROVE  FALSE
      OBVIOUS
    <3>2. items[j].id \in Range(walk.seen)
      BY <1>1, <3>1, RangeEquality
    <3>3. d + j \in 1 .. Len(Shown) /\ Shown[d + j].id \in Range(walk.seen) /\ Shown[d + j].id \notin Tied
      BY <1>5, <3>1, <3>2
    <3>4. d + j <= d
      BY <3>3 DEF IInv, SeenInv, Passed, Before, d
    <3>5. QED
      BY <1>4, <1>7, <3>4
  <2>4. ASSUME NEW i \in 1 .. Len(seen), NEW j \in 1 .. Len(seen), seen[i] = seen[j], seen[i] \notin Tied
        PROVE  i = j
    <3> DEFINE m == Len(walk.seen)
               k == Len(items)
    <3>0. m \in Nat /\ k \in Nat /\ i \in 1 .. m + k /\ j \in 1 .. m + k
      BY <1>7, <1>8
    <3>1. /\ i <= m => i \in 1 .. m /\ seen[i] = walk.seen[i]
          /\ ~(i <= m) => i - m \in 1 .. k /\ seen[i] = items[i - m].id
      <4>1. seen[i] = IF i <= m THEN walk.seen[i] ELSE Ids(items)[i - m]
        BY <1>8, <3>0
      <4>2. /\ i <= m => i \in 1 .. m
            /\ ~(i <= m) => i - m \in 1 .. k
        BY <3>0
      <4>3. ~(i <= m) => Ids(items)[i - m] = items[i - m].id
        BY <1>7, <4>2
      <4>4. QED
        BY <4>1, <4>2, <4>3
    <3>2. /\ j <= m => j \in 1 .. m /\ seen[j] = walk.seen[j]
          /\ ~(j <= m) => j - m \in 1 .. k /\ seen[j] = items[j - m].id
      <4>1. seen[j] = IF j <= m THEN walk.seen[j] ELSE Ids(items)[j - m]
        BY <1>8, <3>0
      <4>2. /\ j <= m => j \in 1 .. m
            /\ ~(j <= m) => j - m \in 1 .. k
        BY <3>0
      <4>3. ~(j <= m) => Ids(items)[j - m] = items[j - m].id
        BY <1>7, <4>2
      <4>4. QED
        BY <4>1, <4>2, <4>3
    <3>3. CASE i <= m /\ j <= m
      BY <2>1, <2>4, <3>1, <3>2, <3>3
    <3>4. CASE i <= m /\ ~(j <= m)
      BY <2>3, <2>4, <3>1, <3>2, <3>4
    <3>5. CASE ~(i <= m) /\ j <= m
      BY <2>3, <2>4, <3>1, <3>2, <3>5
    <3>6. CASE ~(i <= m) /\ ~(j <= m)
      <4>1. i - m = j - m
        BY <2>2, <2>4, <3>1, <3>2, <3>6
      <4>2. QED
        BY <3>0, <4>1
    <3>7. QED
      BY <3>3, <3>4, <3>5, <3>6
  <2>5. QED
    BY <2>4
<1>22. NothingMissed'
  <2> SUFFICES ASSUME walk.page >= n, ~walk.shrunk, ~cut, NEW b \in walk.before \ Tied
               PROVE  b \in Range(seen)
    BY <1>12, <1>28 DEF NothingMissed
  <2>1. Len(Shown) <= d + walk.limit
    BY <1>3, <1>4, <1>26
  <2>2. PICK i \in 1 .. Len(Shown) : Shown[i].id = b /\ (i <= d + walk.limit => b \in Range(seen))
    BY <1>19
  <2>3. i <= d + walk.limit
    BY <1>1, <1>2, <1>4, <2>1
  <2>4. QED
    BY <2>2, <2>3
<1>23. WalkSucceeds'
  BY <1>1, <1>12 DEF WalkSucceeds
<1>24. PageInv' /\ DiffInv' /\ HelmInv' /\ ReqInv'
  BY <1>10, <1>27, ReleasesStay
<1>25. QED
  BY <1>15, <1>16, <1>17, <1>20, <1>21, <1>22, <1>23, <1>24 DEF IInv

(***************************************************************************)
(* The memory store's pages.                                               *)
(***************************************************************************)
LEMMA MemPageStep ==
  ASSUME IInv, MemPage
  PROVE  IInv'
<1> DEFINE w == Window(Shown, walk.page, walk.limit)
<1>1. Walking /\ Take(paginate(Shown, walk.page, walk.limit), FALSE)
  BY DEF MemPage
<1>2. /\ kind \in Stored /\ walk.page \in Nat \ {0} /\ walk.limit \in 1 .. Bound - 1
      /\ walk.page > 1 => (walk.page - 1) * walk.limit < MaxItems
  <2>1. walk.page \in 0 .. MaxItems /\ walk.limit \in 1 .. Bound - 1
    BY DEF IInv, TypeOK
  <2>2. walk.page > 0 /\ kind \in Stored /\ (walk.page > 1 => (walk.page - 1) * walk.limit < MaxItems)
    BY <1>1 DEF IInv, WalkInv, Walking
  <2>3. QED
    BY <2>1, <2>2, ItemsAssumption
<1>3. Shown \in Seq(Rows) /\ Len(Shown) \in 0 .. MaxItems
  BY <1>2, ShownRows
<1>4. Shown \in Seq(Rows \cup Releases \cup Range(Archive))
  <2>1. Rows \subseteq Rows \cup Releases \cup Range(Archive)
    OBVIOUS
  <2>2. QED
    BY <1>3, <2>1, SeqMonotonic
<1>5. /\ IsCut(w, Shown, (walk.page - 1) * walk.limit, walk.limit)
      /\ w \in Seq(Rows \cup Releases \cup Range(Archive))
  BY <1>2, <1>4, PageIsCut
<1>6. w # Failed
  BY <1>5, FailedAssumption
<1>7. AtLeastOne(walk.limit, 20) = walk.limit /\ AtLeastOne(walk.page, 1) = walk.page
  BY <1>2, BoundAssumption DEF AtLeastOne
<1>8. paginate(Shown, walk.page, walk.limit) = [items |-> w, pages |-> PageCount(Len(Shown), walk.limit)]
  BY <1>6, <1>7 DEF paginate, Paged
<1>9. IsPart(w, Shown, (walk.page - 1) * walk.limit, walk.limit)
  BY <1>5 DEF IsCut
<1> HIDE DEF w
<1>10. QED
  BY <1>1, <1>3, <1>5, <1>8, <1>9, TakeStep

(***************************************************************************)
(* Postgres's pages, whole or ended early.                                 *)
(***************************************************************************)
LEMMA PgPageStep ==
  ASSUME IInv, PgPage
  PROVE  IInv'
<1> DEFINE w == LimitOffset(Shown, walk.page, walk.limit)
           S == Rows \cup Releases \cup Range(Archive)
           d == (walk.page - 1) * walk.limit
<1>1. PICK n \in 0 .. Len(w) :
        Take(buildPaginated(SubSeq(w, 1, n), walk.limit, walk.counted), n < Len(w))
  BY DEF PgPage
<1>2. Walking /\ walk.counted # None
  BY DEF PgPage
<1>3. /\ kind \in Stored /\ walk.page \in Nat \ {0} /\ walk.limit \in 1 .. Bound - 1
      /\ walk.page > 1 => (walk.page - 1) * walk.limit < MaxItems
  <2>1. walk.page \in 0 .. MaxItems /\ walk.limit \in 1 .. Bound - 1
    BY DEF IInv, TypeOK
  <2>2. walk.page > 0 /\ kind \in Stored /\ (walk.page > 1 => (walk.page - 1) * walk.limit < MaxItems)
    BY <1>2 DEF IInv, WalkInv, Walking
  <2>3. QED
    BY <2>1, <2>2, ItemsAssumption
<1>4. Shown \in Seq(S)
  <2>1. Shown \in Seq(Rows)
    BY <1>3, ShownRows
  <2>2. QED
    BY <2>1, SeqMonotonic
<1>5. IsCut(w, Shown, d, walk.limit) /\ w \in Seq(S)
  BY <1>3, <1>4, PageIsCut
<1> DEFINE items == SubSeq(w, 1, n)
           torn  == n < Len(w)
<1>6. buildPaginated(items, walk.limit, walk.counted) =
        [items |-> items, pages |-> PageCount(walk.counted, walk.limit)]
  BY DEF buildPaginated
<1>7. walk.counted \in 0 .. MaxItems
  BY <1>2 DEF IInv, TypeOK
<1>8. ~walk.shrunk /\ ~walk.torn => walk.counted = Len(Shown)
  BY <1>2 DEF IInv, SeenInv, Counted
<1> HIDE DEF w, S, d
<1>9. /\ items \in Seq(S) /\ IsPart(items, Shown, d, walk.limit)
      /\ n = Len(w) => items = w
  <2>1. IsPart(w, Shown, d, walk.limit)
    BY <1>5 DEF IsCut
  <2>2. QED
    BY <1>5, <2>1, FirstOfPage
<1>10. torn \in BOOLEAN /\ (torn \/ n = Len(w))
  BY <1>5
<1>11. torn \/ IsCut(items, Shown, d, walk.limit)
  BY <1>5, <1>9, <1>10
<1>12. Take(buildPaginated(items, walk.limit, walk.counted), torn)
  BY <1>1
<1> HIDE DEF items, torn
<1>13. QED
  BY <1>2, <1>6, <1>7, <1>8, <1>9, <1>10, <1>11, <1>12, TakeStep DEF S, d

(***************************************************************************)
(* Steps of the walk that show nothing: the list stays, and so do the page *)
(* and what was seen; what is counted is the number of rows, or the walk   *)
(* is torn; it may end, torn.                                              *)
(***************************************************************************)
LEMMA ShowNothing ==
  ASSUME IInv, Walking, WalkStep, NEW n \in 0 .. MaxItems \cup {None}, NEW torn \in BOOLEAN,
         NEW done \in BOOLEAN, walk' = [walk EXCEPT !.counted = n, !.torn = torn, !.done = done],
         walk.torn => torn, torn \/ (n = Len(Shown) /\ ~done), done => n = None
  PROVE  IInv'
<1>1. UNCHANGED <<store, kind, filter, list, made, releaseVars, texts, answer>>
  BY DEF WalkStep
<1>2. walk \in [page : 0 .. MaxItems, limit : 1 .. Bound - 1, before : SUBSET (1 .. made),
                seen : Seq(1 .. made), counted : 0 .. MaxItems \cup {None}, grew : BOOLEAN,
                shrunk : BOOLEAN, torn : BOOLEAN, done : BOOLEAN, failed : BOOLEAN]
  BY DEF IInv, TypeOK
<1>3. /\ walk'.page = walk.page /\ walk'.limit = walk.limit /\ walk'.before = walk.before
      /\ walk'.seen = walk.seen /\ walk'.counted = n /\ walk'.grew = walk.grew
      /\ walk'.shrunk = walk.shrunk /\ walk'.torn = torn /\ walk'.done = done
      /\ walk'.failed = walk.failed
  BY <1>2
<1>4. kind \in Stored /\ walk.page > 0 /\ ~walk.done
  BY DEF IInv, WalkInv, Walking
<1>5. Shown' = Shown /\ Tied' = Tied
  BY <1>1, ShownStays DEF Tied, ByTime
<1>6. made' \in Nat /\ made <= made'
  BY <1>1, ItemsAssumption DEF IInv, TypeOK
<1>7. /\ (helm \subseteq Revisions /\ up \subseteq Clusters /\ req \in [Readers -> {None} \cup Requests])'
      /\ PageInv' /\ DiffInv' /\ HelmInv' /\ ReqInv'
  BY <1>1, <1>6, ReleasesStay
<1>8. TypeOK'
  BY <1>1, <1>2, <1>7 DEF IInv, TypeOK
<1>9. ListInv'
  BY <1>1 DEF IInv, ListInv, DistinctIds
<1>10. WalkInv'
  <2>1. walk'.page # 0
    BY <1>2, <1>3, <1>4
  <2>2. walk'.counted # None => Walking'
    BY <1>3, <1>4 DEF Walking
  <2>3. QED
    BY <1>1, <1>3, <1>4, <2>1, <2>2 DEF IInv, WalkInv
<1>11. SeenInv'
  <2>1. Covered /\ Passed
    BY DEF IInv, SeenInv
  <2>2. Covered'
    BY <1>3, <1>5, <2>1 DEF Covered, Before
  <2>3. Passed'
    BY <1>3, <1>5, <2>1 DEF Passed, Before
  <2>4. Counted'
    BY <1>3, <1>5 DEF Counted
  <2>5. QED
    BY <2>2, <2>3, <2>4 DEF SeenInv
<1>12. NothingTwice' /\ NothingMissed' /\ WalkSucceeds'
  BY <1>3, <1>5 DEF IInv, NothingTwice, NothingMissed, WalkSucceeds
<1>13. QED
  BY <1>7, <1>8, <1>9, <1>10, <1>11, <1>12 DEF IInv

(***************************************************************************)
(* Postgres counts, or fails to.                                           *)
(***************************************************************************)
LEMMA PgCountStep ==
  ASSUME IInv, PgCount
  PROVE  IInv'
<1>1. Walking /\ WalkStep
  BY DEF PgCount
<1>2. walk \in [page : 0 .. MaxItems, limit : 1 .. Bound - 1, before : SUBSET (1 .. made),
                seen : Seq(1 .. made), counted : 0 .. MaxItems \cup {None}, grew : BOOLEAN,
                shrunk : BOOLEAN, torn : BOOLEAN, done : BOOLEAN, failed : BOOLEAN]
  BY DEF IInv, TypeOK
<1>3. kind \in Stored /\ ~walk.done
  BY <1>1 DEF IInv, WalkInv, Walking
<1>4. Len(Shown) \in 0 .. MaxItems /\ MaxItems \in Nat
  BY <1>3, ShownRows, ItemsAssumption
<1>5. CASE walk' = [walk EXCEPT !.counted = Len(Shown)]
  <2>1. walk' = [walk EXCEPT !.counted = Len(Shown), !.torn = walk.torn, !.done = FALSE]
    BY <1>2, <1>3, <1>5
  <2>2. QED
    BY <1>1, <1>2, <1>4, <2>1, ShowNothing
<1>6. CASE walk' = [walk EXCEPT !.counted = 0, !.torn = TRUE]
  <2>1. walk.done = FALSE /\ 0 \in 0 .. MaxItems
    BY <1>2, <1>3, <1>4
  <2>2. walk' = [walk EXCEPT !.counted = 0, !.torn = TRUE, !.done = FALSE]
    BY <1>2, <1>6, <2>1
  <2>3. QED
    BY <1>1, <2>1, <2>2, ShowNothing
<1>7. QED
  BY <1>5, <1>6 DEF PgCount

(***************************************************************************)
(* Postgres refuses to read.                                               *)
(***************************************************************************)
LEMMA PgPageFailsStep ==
  ASSUME IInv, PgPageFails
  PROVE  IInv'
<1>1. /\ Walking /\ WalkStep
      /\ walk' = [walk EXCEPT !.counted = None, !.torn = TRUE, !.done = TRUE]
  BY DEF PgPageFails
<1>2. QED
  BY <1>1, ShowNothing

-----------------------------------------------------------------------------
(***************************************************************************)
(* A list shows rows of its own with certain tags.                         *)
(***************************************************************************)
LEMMA WantedTags ==
  ASSUME filter \in {"", "new"}
  PROVE  Wanted = Mine(Tags) \/ Wanted = Mine({"new"})
BY Zenon DEF Wanted

(***************************************************************************)
(* What a list shows after a change of the list alone.                     *)
(***************************************************************************)
LEMMA ShownAfter ==
  ASSUME kind \in Stored, UNCHANGED <<kind, filter>>
  PROVE  Shown' = Only(list', Wanted)
<1>1. Shown' = Only(list', Wanted')
  BY DEF Shown, Wanted, Stored, ListAuditEvents, ListApprovals, ListDrift, ListReleaseHistory
<1>2. Wanted' = Wanted
  BY DEF Wanted
<1>3. QED
  BY <1>1, <1>2

(***************************************************************************)
(* The place of a new row is within the list.                              *)
(***************************************************************************)
LEMMA AheadInList ==
  ASSUME NEW id, Len(list) \in Nat
  PROVE  Ahead(id) \in 0 .. Len(list)
<1> DEFINE I == {i \in 1 .. Len(list) : Time[list[i].id] > Time[id]}
<1>1. IsFiniteSet(1 .. Len(list)) /\ Cardinality(1 .. Len(list)) = Len(list)
  <2>1. 1 \in Int /\ Len(list) \in Int
    OBVIOUS
  <2>2. /\ IsFiniteSet(1 .. Len(list))
        /\ Cardinality(1 .. Len(list)) = IF 1 > Len(list) THEN 0 ELSE Len(list) - 1 + 1
    BY <2>1, FS_Interval
  <2>3. QED
    BY <2>2
<1>2. I \in SUBSET (1 .. Len(list))
  OBVIOUS
<1> HIDE DEF I
<1>3. IsFiniteSet(I) /\ Cardinality(I) <= Len(list)
  BY <1>1, <1>2, FS_Subset
<1>4. Cardinality(I) \in Nat
  BY <1>3, FS_CardinalityType
<1>5. Ahead(id) = Cardinality(I) \/ Ahead(id) = 0
  BY DEF Ahead, I
<1>6. QED
  BY <1>3, <1>4, <1>5

(***************************************************************************)
(* A new row somewhere in the list: somewhere in what is shown, or not     *)
(* there at all.                                                           *)
(***************************************************************************)
LEMMA OnlyInserted ==
  ASSUME NEW S, NEW s \in Seq(S), NEW n \in 0 .. Len(s), NEW x \in S, NEW W
  PROVE  LET t == SubSeq(s, 1, n) \o <<x>> \o SubSeq(s, n + 1, Len(s))
         IN  /\ t \in Seq(S) /\ Inserted(t, s, n, x)
             /\ x \in W => \E m : Inserted(Only(t, W), Only(s, W), m, x)
             /\ x \notin W => Only(t, W) = Only(s, W)
<1> DEFINE p == SubSeq(s, 1, n)
           q == SubSeq(s, n + 1, Len(s))
           e == <<x>>
           t == p \o e \o q
<1>1. p \in Seq(S) /\ q \in Seq(S) /\ s = p \o q /\ Len(p) = n
  BY TwoParts
<1>2. e \in Seq(S) /\ Only(e, W) = IF x \in W THEN e ELSE <<>>
  BY OnlyOne
<1> HIDE DEF p, q
<1>3. t \in Seq(S) /\ Inserted(t, s, n, x)
  BY <1>1, InsertBetween
<1> HIDE DEF e
<1>4. p \o e \in Seq(S)
  BY <1>1, <1>2, ConcatProperties
<1>5. /\ Only(t, W) = Only(p \o e, W) \o Only(q, W)
      /\ Only(p \o e, W) = Only(p, W) \o Only(e, W)
      /\ Only(s, W) = Only(p, W) \o Only(q, W)
  <2> DEFINE l == p \o e
  <2>1. l \in Seq(S)
    BY <1>4
  <2> HIDE DEF l
  <2>2. Only(l \o q, W) = Only(l, W) \o Only(q, W)
    BY <1>1, <2>1, OnlyConcat
  <2>3. Only(p \o e, W) = Only(p, W) \o Only(e, W)
    <3>1. p \in Seq(S) /\ e \in Seq(S)
      BY <1>1, <1>2
    <3>2. QED
      BY ONLY <3>1, OnlyConcat
  <2>4. Only(p \o q, W) = Only(p, W) \o Only(q, W)
    BY <1>1, OnlyConcat
  <2>5. QED
    BY <1>1, <2>2, <2>3, <2>4 DEF l
<1> DEFINE a == Only(p, W)
           b == Only(q, W)
<1>6. a \in Seq(S) /\ b \in Seq(S)
  BY <1>1, OnlyKeeps
<1>7. Only(t, W) = a \o Only(e, W) \o b /\ Only(s, W) = a \o b
  BY <1>5
<1> HIDE DEF a, b, t
<1>8. ASSUME x \in W PROVE Inserted(Only(t, W), Only(s, W), Len(a), x)
  <2>1. Only(t, W) = a \o <<x>> \o b
    BY <1>2, <1>7, <1>8 DEF e
  <2>2. Inserted(a \o <<x>> \o b, a \o b, Len(a), x)
    BY <1>6, InsertBetween
  <2>3. QED
    BY <1>7, <2>1, <2>2
<1>9. ASSUME x \notin W PROVE Only(t, W) = Only(s, W)
  <2>1. Only(t, W) = a \o <<>> \o b
    BY <1>2, <1>7, <1>9
  <2>2. a \o <<>> = a
    BY <1>6, ConcatEmptySeq
  <2>3. QED
    BY <1>7, <2>1, <2>2
<1>10. QED
  BY <1>3, <1>8, <1>9 DEF t, p, q, e

(***************************************************************************)
(* A new row.                                                              *)
(***************************************************************************)
LEMMA InsertStep ==
  ASSUME IInv, NEW g \in {"mine", "other"}, Insert(g)
  PROVE  IInv'
<1> DEFINE x == [id |-> made + 1, group |-> g, tag |-> "new"]
           n == Ahead(made + 1)
           grew == walk.grew \/ (Walking /\ g = "mine")
           torn == walk.torn \/ (walk.counted # None /\ g = "mine")
<1>1. /\ made' = made + 1 /\ kind \in Stored /\ made < MaxItems
      /\ list' = SubSeq(list, 1, n) \o <<x>> \o SubSeq(list, n + 1, Len(list))
      /\ walk' = [walk EXCEPT !.grew = grew, !.torn = torn]
      /\ UNCHANGED <<store, kind, filter, releaseVars, texts, answer>>
  BY DEF Insert
<1>2. walk \in [page : 0 .. MaxItems, limit : 1 .. Bound - 1, before : SUBSET (1 .. made),
                seen : Seq(1 .. made), counted : 0 .. MaxItems \cup {None}, grew : BOOLEAN,
                shrunk : BOOLEAN, torn : BOOLEAN, done : BOOLEAN, failed : BOOLEAN]
  BY DEF IInv, TypeOK
<1>3. /\ made \in 0 .. MaxItems /\ list \in Seq(Rows) /\ DistinctIds(list) /\ Len(list) <= made
      /\ \A i \in 1 .. Len(list) : list[i].id <= made
      /\ Len(list) \in Nat /\ MaxItems \in Nat
  BY ItemsAssumption, LenProperties DEF IInv, TypeOK, ListInv
<1>4. made + 1 \in 1 .. MaxItems /\ made' \in Nat /\ made <= made' /\ made' \in 0 .. MaxItems
  BY <1>1, <1>3
<1>5. x \in Rows /\ x.id = made + 1 /\ x.group = g
  BY <1>4 DEF Rows, Tags
<1>6. n \in 0 .. Len(list)
  BY <1>3, AheadInList
<1> HIDE DEF x, n
<1>7. /\ list' \in Seq(Rows) /\ Inserted(list', list, n, x)
      /\ x \in Wanted => \E m : Inserted(Only(list', Wanted), Only(list, Wanted), m, x)
      /\ x \notin Wanted => Only(list', Wanted) = Only(list, Wanted)
  BY <1>1, <1>3, <1>5, <1>6, OnlyInserted
<1>8. /\ Len(list') = Len(list) + 1
      /\ \A i \in 1 .. Len(list') : list'[i] = IF i <= n THEN list[i]
                                               ELSE IF i = n + 1 THEN x ELSE list[i - 1]
  BY <1>7 DEF Inserted
<1>9. grew \in BOOLEAN /\ torn \in BOOLEAN /\ (walk.grew => grew) /\ (walk.torn => torn)
  BY <1>2
<1>10. /\ Walking /\ g = "mine" => grew
       /\ walk.counted # None /\ g = "mine" => torn
       /\ ~Walking => grew = walk.grew
       /\ walk.counted = None => torn = walk.torn
  BY <1>2
<1> HIDE DEF grew, torn
<1>11. /\ walk'.page = walk.page /\ walk'.limit = walk.limit /\ walk'.before = walk.before
       /\ walk'.seen = walk.seen /\ walk'.counted = walk.counted /\ walk'.grew = grew
       /\ walk'.shrunk = walk.shrunk /\ walk'.torn = torn /\ walk'.done = walk.done
       /\ walk'.failed = walk.failed
  BY <1>1, <1>2
<1>12. Walking' = Walking /\ Tied' = Tied
  BY <1>1, <1>11 DEF Walking, Tied, ByTime
<1>13. /\ (helm \subseteq Revisions /\ up \subseteq Clusters /\ req \in [Readers -> {None} \cup Requests])'
       /\ PageInv' /\ DiffInv' /\ HelmInv' /\ ReqInv'
  BY <1>1, <1>4, ReleasesStay
<1>14. ASSUME NEW i \in 1 .. Len(list')
       PROVE  \/ i <= n /\ i \in 1 .. Len(list) /\ list'[i] = list[i]
              \/ i = n + 1 /\ list'[i] = x
              \/ i > n + 1 /\ i - 1 \in 1 .. Len(list) /\ list'[i] = list[i - 1]
  BY <1>3, <1>6, <1>8
<1>15. TypeOK'
  <2>1. walk.before \in SUBSET (1 .. made') /\ walk.seen \in Seq(1 .. made')
    <3>1. walk.seen \in Seq(1 .. made) /\ walk.before \in SUBSET (1 .. made)
      BY <1>2
    <3>2. 1 .. made \subseteq 1 .. made'
      BY <1>3, <1>4
    <3>3. walk.seen \in Seq(1 .. made')
      BY <3>1, <3>2, SeqMonotonic
    <3>4. QED
      BY <3>1, <3>2, <3>3
  <2>2. walk' \in [page : 0 .. MaxItems, limit : 1 .. Bound - 1, before : SUBSET (1 .. made'),
                   seen : Seq(1 .. made'), counted : 0 .. MaxItems \cup {None}, grew : BOOLEAN,
                   shrunk : BOOLEAN, torn : BOOLEAN, done : BOOLEAN, failed : BOOLEAN]
    BY <1>1, <1>2, <1>9, <2>1
  <2>3. ASSUME NEW i \in 1 .. Len(list') PROVE list'[i].id <= made'
    <3>1. \A j \in 1 .. Len(list) : list[j] \in Rows
      BY <1>3, ElementOfSeq
    <3>2. ASSUME NEW j \in 1 .. Len(list) PROVE list[j].id <= made'
      <4>1. list[j].id \in Int
        BY <3>1 DEF Rows
      <4>2. list[j].id <= made /\ made \in Int
        BY <1>3
      <4>3. QED
        BY <1>1, <4>1, <4>2
    <3>3. x.id <= made'
      BY <1>1, <1>3, <1>5
    <3>4. QED
      BY <1>14, <3>2, <3>3
  <2>4. QED
    BY <1>4, <1>7, <1>13, <2>2, <2>3 DEF TypeOK
<1>16. ListInv'
  <2>1. \A j \in 1 .. Len(list) : list[j].id # x.id
    <3>1. \A j \in 1 .. Len(list) : list[j].id <= made
      BY <1>3
    <3>2. ~(x.id <= made)
      BY <1>3, <1>5
    <3>3. QED
      BY <3>1, <3>2
  <2>2. ASSUME NEW i \in 1 .. Len(list'), NEW j \in 1 .. Len(list'), list'[i].id = list'[j].id
        PROVE  i = j
    <3>1. \/ i = n + 1 /\ list'[i] = x
          \/ i # n + 1 /\ \E k \in 1 .. Len(list) : list'[i] = list[k] /\ i = IF k <= n THEN k ELSE k + 1
      BY <1>3, <1>6, <1>14
    <3>2. \/ j = n + 1 /\ list'[j] = x
          \/ j # n + 1 /\ \E k \in 1 .. Len(list) : list'[j] = list[k] /\ j = IF k <= n THEN k ELSE k + 1
      BY <1>3, <1>6, <1>14
    <3>3. CASE i = n + 1 \/ j = n + 1
      BY <2>1, <2>2, <3>1, <3>2, <3>3
    <3>4. CASE i # n + 1 /\ j # n + 1
      <4>1. PICK k \in 1 .. Len(list) : list'[i] = list[k] /\ i = IF k <= n THEN k ELSE k + 1
        BY <3>1, <3>4
      <4>2. PICK l \in 1 .. Len(list) : list'[j] = list[l] /\ j = IF l <= n THEN l ELSE l + 1
        BY <3>2, <3>4
      <4>3. k = l
        BY <1>3, <2>2, <4>1, <4>2 DEF DistinctIds
      <4>4. QED
        BY <4>1, <4>2, <4>3
    <3>5. QED
      BY <3>3, <3>4
  <2>3. DistinctIds(list')
    BY <2>2 DEF DistinctIds
  <2>4. Len(list') <= made'
    <3>1. Len(list') = Len(list) + 1 /\ made' = made + 1
      BY <1>1, <1>8
    <3>2. Len(list) <= made /\ Len(list) \in Int /\ made \in Int
      BY <1>3
    <3>3. QED
      BY <3>1, <3>2
  <2>5. kind' \in Stored \cup {"releases", "diff"} /\ filter' \in {"", "new"}
    BY <1>1 DEF IInv, ListInv
  <2>6. QED
    BY <2>3, <2>4, <2>5, Zenon DEF ListInv, DistinctIds
<1>17. WalkInv'
  <2>1. walk.page = 0 => walk' = Idle
    <3> SUFFICES ASSUME walk.page = 0 PROVE walk' = Idle
      OBVIOUS
    <3>1. walk = Idle
      BY DEF IInv, WalkInv
    <3>2. ~Walking /\ walk.counted = None
      BY <3>1 DEF Walking, Idle
    <3>3. grew = walk.grew /\ torn = walk.torn
      BY <1>10, <3>2
    <3>4. QED
      BY <1>1, <1>2, <3>1, <3>3
  <2>2. QED
    BY <1>1, <1>11, <1>12, <2>1 DEF IInv, WalkInv
<1>18. SeenInv'
  <2> SUFFICES ASSUME Walking PROVE Covered' /\ Passed' /\ Counted'
    BY <1>12 DEF SeenInv
  <2>1. Covered /\ Passed /\ Counted
    BY DEF IInv, SeenInv
  <2>2. Shown = Only(list, Wanted) /\ Shown' = Only(list', Wanted) /\ Len(Shown) \in Nat
    <3>1. Shown \in Seq(Rows)
      BY <1>1, ShownRows
    <3>2. QED
      BY <1>1, <3>1, ShownWanted, ShownAfter, LenProperties
  <2>3. x \in Wanted => g = "mine"
    <3>1. Wanted = Mine(Tags) \/ Wanted = Mine({"new"})
      BY WantedTags DEF IInv, ListInv
    <3>2. \A tags : x \in Mine(tags) => x.group = "mine"
      BY DEF Mine
    <3>3. QED
      BY <1>5, <3>1, <3>2
  <2>4. CASE x \notin Wanted
    <3>1. Shown' = Shown
      BY <1>7, <2>2, <2>4
    <3>2. Covered'
      BY <1>9, <1>11, <1>12, <2>1, <3>1 DEF Covered, Before
    <3>3. Passed'
      BY <1>9, <1>11, <1>12, <2>1, <3>1 DEF Passed, Before
    <3>4. Counted'
      BY <1>9, <1>11, <2>1, <3>1 DEF Counted
    <3>5. QED
      BY <3>2, <3>3, <3>4
  <2>5. CASE x \in Wanted
    <3>1. PICK m : Inserted(Shown', Shown, m, x)
      BY <1>7, <2>2, <2>5
    <3>2. grew /\ (walk.counted # None => torn)
      BY <1>10, <2>3, <2>5
    <3>3. ASSUME NEW i \in 1 .. Len(Shown)
          PROVE  \E j \in 1 .. Len(Shown') : Shown'[j] = Shown[i] /\ i <= j
      <4>1. /\ m \in 0 .. Len(Shown) /\ Len(Shown') = Len(Shown) + 1
            /\ \A j \in 1 .. Len(Shown') : Shown'[j] = IF j <= m THEN Shown[j]
                                                       ELSE IF j = m + 1 THEN x ELSE Shown[j - 1]
        BY <3>1 DEF Inserted
      <4>2. CASE i <= m
        <5>1. i \in 1 .. Len(Shown') /\ i <= i
          BY <2>2, <4>1
        <5>2. QED
          BY <4>1, <4>2, <5>1
      <4>3. CASE ~(i <= m)
        <5>1. /\ i + 1 \in 1 .. Len(Shown') /\ ~(i + 1 <= m) /\ i + 1 # m + 1 /\ (i + 1) - 1 = i
              /\ i <= i + 1
          BY <2>2, <4>1, <4>3
        <5>2. Shown'[i + 1] = Shown[i]
          BY <4>1, <5>1
        <5>3. QED
          BY <5>1, <5>2
      <4>4. QED
        BY <4>2, <4>3
    <3>4. Covered'
      <4> SUFFICES ASSUME ~walk.shrunk, ~torn, NEW b \in walk.before \ Tied
                   PROVE  \E i \in 1 .. Len(Shown') :
                            Shown'[i].id = b /\ (Before(i)' => b \in Range(walk.seen))
        BY <1>11, <1>12 DEF Covered
      <4>1. PICK i \in 1 .. Len(Shown) : Shown[i].id = b /\ (Before(i) => b \in Range(walk.seen))
        BY <1>9, <2>1 DEF Covered
      <4>2. PICK j \in 1 .. Len(Shown') : Shown'[j] = Shown[i] /\ i <= j
        BY <3>3
      <4> DEFINE d == (walk.page - 1) * walk.limit
      <4>3. j <= d => i <= d
        <5>1. d \in Int
          BY <1>2, <1>3, BoundAssumption
        <5> HIDE DEF d
        <5>2. i \in Int /\ j \in Int
          OBVIOUS
        <5>3. QED
          BY <4>2, <5>1, <5>2
      <4>4. Before(j)' => Before(i)
        <5>1. Before(j)' = (j <= d) /\ Before(i) = (i <= d)
          BY <1>11 DEF Before
        <5>2. QED
          BY <4>3, <5>1
      <4>5. QED
        BY <4>1, <4>2, <4>4
    <3>5. Passed'
      BY <1>11, <3>2 DEF Passed
    <3>6. Counted'
      BY <1>11, <3>2 DEF Counted
    <3>7. QED
      BY <3>4, <3>5, <3>6
  <2>6. QED
    BY <2>4, <2>5
<1>19. NothingTwice' /\ NothingMissed' /\ WalkSucceeds'
  BY <1>9, <1>11, <1>12 DEF IInv, NothingTwice, NothingMissed, WalkSucceeds
<1>20. QED
  BY <1>13, <1>15, <1>16, <1>17, <1>18, <1>19 DEF IInv

-----------------------------------------------------------------------------
(***************************************************************************)
(* Two neighbours in a list, and what lies before and behind them.         *)
(***************************************************************************)
LEMMA Neighbours ==
  ASSUME NEW S, NEW s \in Seq(S), NEW i \in 1 .. Len(s), i < Len(s)
  PROVE  LET p == SubSeq(s, 1, i - 1)
             q == SubSeq(s, i + 2, Len(s))
             m == <<s[i], s[i + 1]>>
         IN  /\ p \in Seq(S) /\ q \in Seq(S) /\ m \in Seq(S) /\ s = p \o m \o q
             /\ Len(p) = i - 1 /\ Len(p) + 2 + Len(q) = Len(s)
<1> DEFINE p == SubSeq(s, 1, i - 1)
           q == SubSeq(s, i + 2, Len(s))
           m == <<s[i], s[i + 1]>>
           t == p \o m \o q
<1>1. /\ Len(s) \in Nat /\ i \in Nat /\ i - 1 \in 0 .. Len(s) /\ i + 1 \in 0 .. Len(s)
      /\ (i + 1) + 1 = i + 2
  BY LenProperties
<1>2. p \in Seq(S) /\ Len(p) = i - 1 /\ \A k \in 1 .. i - 1 : p[k] = s[k]
  BY <1>1, TwoParts
<1>3. /\ q \in Seq(S) /\ Len(q) = Len(s) - (i + 1)
      /\ \A k \in 1 .. Len(s) - (i + 1) : q[k] = s[(i + 1) + k]
  <2> DEFINE n == i + 1
             u == SubSeq(s, n + 1, Len(s))
  <2>1. n \in 0 .. Len(s) /\ u = q
    BY <1>1
  <2> HIDE DEF n
  <2>2. u \in Seq(S) /\ Len(u) = Len(s) - n /\ \A k \in 1 .. Len(s) - n : u[k] = s[n + k]
    BY <2>1, TwoParts
  <2> HIDE DEF u, q
  <2>3. QED
    BY <2>1, <2>2 DEF n
<1>4. m \in Seq(S) /\ Len(m) = 2 /\ m[1] = s[i] /\ m[2] = s[i + 1]
  <2>1. s[i] \in S /\ s[i + 1] \in S
    BY <1>1
  <2>2. QED
    BY <2>1
<1> HIDE DEF p, q, m
<1>5. t \in Seq(S) /\ Parts(t, p, m, q)
  BY <1>2, <1>3, <1>4, ThreeParts
<1> HIDE DEF t
<1>6. /\ Len(t) = Len(s)
      /\ \A k \in 1 .. Len(s) : t[k] = IF k <= i - 1 THEN p[k] ELSE IF k <= (i - 1) + 2 THEN m[k - (i - 1)]
                                       ELSE q[k - (i - 1) - 2]
  <2>1. Len(p) + Len(m) + Len(q) = Len(s)
    BY <1>1, <1>2, <1>3, <1>4
  <2>2. QED
    BY <1>2, <1>4, <1>5, <2>1 DEF Parts
<1>7. ASSUME NEW k \in 1 .. Len(s) PROVE t[k] = s[k]
  <2>1. CASE k <= i - 1
    <3>1. k \in 1 .. i - 1
      BY <1>1, <2>1
    <3>2. QED
      BY <1>2, <1>6, <2>1, <3>1
  <2>2. CASE k = i
    <3>1. ~(k <= i - 1) /\ k <= (i - 1) + 2 /\ k - (i - 1) = 1
      BY <1>1, <2>2
    <3>2. QED
      BY <1>4, <1>6, <2>2, <3>1
  <2>3. CASE k = i + 1
    <3>1. ~(k <= i - 1) /\ k <= (i - 1) + 2 /\ k - (i - 1) = 2
      BY <1>1, <2>3
    <3>2. QED
      BY <1>4, <1>6, <2>3, <3>1
  <2>4. CASE k > i + 1
    <3>1. /\ ~(k <= i - 1) /\ ~(k <= (i - 1) + 2) /\ k - (i - 1) - 2 \in 1 .. Len(s) - (i + 1)
          /\ (i + 1) + (k - (i - 1) - 2) = k
      BY <1>1, <2>4
    <3>2. QED
      BY <1>3, <1>6, <3>1
  <2>5. QED
    BY <1>1, <2>1, <2>2, <2>3, <2>4
<1>8. s = t
  BY <1>5, <1>6, <1>7, SeqEqual
<1>9. Len(p) = i - 1 /\ Len(p) + 2 + Len(q) = Len(s)
  BY <1>1, <1>2, <1>3
<1>10. QED
  BY <1>2, <1>3, <1>4, <1>8, <1>9 DEF p, q, m, t

(***************************************************************************)
(* Neighbours that change places, changed places in what is wanted.        *)
(***************************************************************************)
LEMMA OnlySwapped ==
  ASSUME NEW S, NEW p \in Seq(S), NEW q \in Seq(S), NEW x \in S, NEW y \in S, NEW W
  PROVE  Mixed(Only(p \o <<y, x>> \o q, W), Only(p \o <<x, y>> \o q, W), {x, y})
<1> DEFINE a == Only(<<x>>, W)
           b == Only(<<y>>, W)
           u == Only(p, W)
           v == Only(q, W)
<1>1. a \in Seq({x, y}) /\ a \in Seq(S) /\ b \in Seq({x, y}) /\ b \in Seq(S)
  <2>1. a = IF x \in W THEN <<x>> ELSE <<>>
    BY OnlyOne
  <2>2. b = IF y \in W THEN <<y>> ELSE <<>>
    BY OnlyOne
  <2>3. \A z, T : <<>> \in Seq(T) /\ (z \in T => <<z>> \in Seq(T))
    OBVIOUS
  <2> HIDE DEF a, b
  <2>4. \A T : x \in T => a \in Seq(T)
    BY <2>1, <2>3, Zenon
  <2>5. \A T : y \in T => b \in Seq(T)
    BY <2>2, <2>3, Zenon
  <2>6. QED
    BY <2>4, <2>5
<1>2. u \in Seq(S) /\ v \in Seq(S)
  BY OnlyKeeps
<1>3. ASSUME NEW c \in S, NEW d \in S
      PROVE  Only(p \o <<c, d>> \o q, W) = u \o (Only(<<c>>, W) \o Only(<<d>>, W)) \o v
  <2> DEFINE e == <<c>>
             f == <<d>>
             m == <<c, d>>
             l == p \o m
  <2>1. e \in Seq(S) /\ f \in Seq(S) /\ m \in Seq(S) /\ m = e \o f
    <3>1. e \in Seq(S) /\ f \in Seq(S) /\ m \in Seq(S)
      OBVIOUS
    <3>2. m = e \o f
      <4>1. /\ Len(e) = 1 /\ Len(f) = 1 /\ e[1] = c /\ f[1] = d
            /\ Len(m) = 2 /\ m[1] = c /\ m[2] = d
        OBVIOUS
      <4> HIDE DEF e, f, m
      <4>2. /\ e \o f \in Seq(S) /\ Len(e \o f) = 2
            /\ \A k \in 1 .. 2 : (e \o f)[k] = IF k <= 1 THEN e[k] ELSE f[k - 1]
        <5>1. /\ e \o f \in Seq(S) /\ Len(e \o f) = Len(e) + Len(f)
              /\ \A k \in 1 .. Len(e) + Len(f) :
                   (e \o f)[k] = IF k <= Len(e) THEN e[k] ELSE f[k - Len(e)]
          BY <3>1, ConcatProperties
        <5>2. Len(e) + Len(f) = 2
          BY <4>1
        <5>3. QED
          BY <4>1, <5>1, <5>2
      <4>3. (e \o f)[1] = c /\ (e \o f)[2] = d
        BY <4>1, <4>2
      <4>4. \A k \in 1 .. Len(m) : m[k] = (e \o f)[k]
        <5>1. \A k \in 1 .. 2 : k = 1 \/ k = 2
          OBVIOUS
        <5>2. QED
          BY <4>1, <4>3, <5>1, Zenon
      <4>5. QED
        BY <3>1, <4>1, <4>2, <4>4, SeqEqual
    <3>3. QED
      BY <3>1, <3>2
  <2> HIDE DEF e, f, m
  <2>2. l \in Seq(S)
    BY <2>1, ConcatProperties
  <2>3. Only(m, W) = Only(e, W) \o Only(f, W)
    BY ONLY <2>1, OnlyConcat
  <2>4. Only(l, W) = Only(p, W) \o Only(m, W)
    <3>1. p \in Seq(S) /\ m \in Seq(S)
      BY <2>1
    <3>2. QED
      BY ONLY <3>1, OnlyConcat DEF l
  <2> HIDE DEF l
  <2>5. Only(l \o q, W) = Only(l, W) \o Only(q, W)
    <3>1. l \in Seq(S) /\ q \in Seq(S)
      BY <2>2
    <3>2. QED
      BY ONLY <3>1, OnlyConcat
  <2>6. QED
    BY <2>3, <2>4, <2>5, Zenon DEF e, f, m, l, u, v
<1>4. /\ Only(p \o <<y, x>> \o q, W) = u \o (b \o a) \o v
      /\ Only(p \o <<x, y>> \o q, W) = u \o (a \o b) \o v
  BY <1>3, Zenon DEF a, b
<1> HIDE DEF a, b, u, v
<1> DEFINE m == b \o a
           k == a \o b
<1>5. /\ m \in Seq(S) /\ k \in Seq(S) /\ m \in Seq({x, y}) /\ k \in Seq({x, y}) /\ Len(m) = Len(k)
  <2>1. m \in Seq(S) /\ k \in Seq(S) /\ m \in Seq({x, y}) /\ k \in Seq({x, y})
    BY <1>1, ConcatProperties
  <2>2. Len(m) = Len(b) + Len(a) /\ Len(k) = Len(a) + Len(b) /\ Len(a) \in Nat /\ Len(b) \in Nat
    BY <1>1, ConcatProperties, LenProperties
  <2>3. QED
    BY <2>1, <2>2
<1> HIDE DEF m, k
<1>6. \A i \in 1 .. Len(m) : m[i] \in {x, y} /\ k[i] \in {x, y}
  BY <1>5, ElementOfSeq
<1>7. Mixed(u \o m \o v, u \o k \o v, {x, y})
  BY <1>2, <1>5, <1>6, MixedBetween
<1>8. QED
  BY <1>4, <1>7 DEF m, k

(***************************************************************************)
(* Rows of one time change places.                                         *)
(***************************************************************************)
LEMMA ReorderStep ==
  ASSUME IInv, NEW i \in 1 .. Len(list), Reorder(i)
  PROVE  IInv'
<1> DEFINE x == list[i]
           y == list[i + 1]
           p == SubSeq(list, 1, i - 1)
           q == SubSeq(list, i + 2, Len(list))
<1>1. /\ ByTime /\ i < Len(list) /\ Time[x.id] = Time[y.id] /\ list' = p \o <<y, x>> \o q
      /\ UNCHANGED <<store, kind, filter, made, walk, releaseVars, texts, answer>>
  BY DEF Reorder
<1>2. /\ list \in Seq(Rows) /\ DistinctIds(list) /\ Len(list) <= made /\ made \in Nat
      /\ Len(list) \in Nat
      /\ \A k \in 1 .. Len(list) : list[k].id <= made /\ list[k] \in Rows
  <2>1. list \in Seq(Rows) /\ DistinctIds(list) /\ Len(list) <= made /\ made \in 0 .. MaxItems
    BY DEF IInv, TypeOK, ListInv
  <2>2. \A k \in 1 .. Len(list) : list[k] \in Rows
    BY <2>1, ElementOfSeq
  <2>3. \A k \in 1 .. Len(list) : list[k].id <= made
    BY DEF IInv, TypeOK
  <2>4. QED
    BY <2>1, <2>2, <2>3, ItemsAssumption, LenProperties
<1>3. i + 1 \in 1 .. Len(list) /\ i \in Nat /\ i # i + 1
  BY <1>1, <1>2
<1>4. x \in Rows /\ y \in Rows /\ x.id # y.id
  BY <1>2, <1>3 DEF DistinctIds
<1>5. x.id \in Tied /\ y.id \in Tied
  BY <1>1, <1>4 DEF Tied, Rows
<1>6. /\ p \in Seq(Rows) /\ q \in Seq(Rows) /\ list = p \o <<x, y>> \o q
      /\ Len(p) = i - 1 /\ Len(p) + 2 + Len(q) = Len(list)
  BY <1>1, <1>2, Neighbours
<1> HIDE DEF x, y, p, q
<1>7. kind \in Stored
  BY <1>1 DEF ByTime, Stored
<1>8. Mixed(Only(list', Wanted), Only(list, Wanted), {x, y})
  BY <1>1, <1>4, <1>6, OnlySwapped
<1>9. /\ list' \in Seq(Rows) /\ Len(list') = Len(list)
      /\ \A k \in 1 .. Len(list) :
           list'[k] = IF k = i THEN list[i + 1] ELSE IF k = i + 1 THEN list[i] ELSE list[k]
  <2> DEFINE m == <<y, x>>
             o == <<x, y>>
             s == p \o o \o q
             t == p \o m \o q
  <2>1. /\ m \in Seq(Rows) /\ o \in Seq(Rows) /\ Len(m) = 2 /\ Len(o) = 2
        /\ m[1] = y /\ m[2] = x /\ o[1] = x /\ o[2] = y
    BY <1>4
  <2> HIDE DEF m, o
  <2>2. t \in Seq(Rows) /\ Parts(t, p, m, q) /\ Parts(s, p, o, q)
    BY <1>6, <2>1, ThreeParts
  <2>3. list' = t /\ list = s
    BY <1>1, <1>6 DEF m, o
  <2> HIDE DEF s, t
  <2>4. Len(p) + Len(m) + Len(q) = Len(list) /\ Len(p) + Len(o) + Len(q) = Len(list)
    BY <1>6, <2>1
  <2>5. /\ Len(list') = Len(list)
        /\ \A k \in 1 .. Len(list) :
             /\ list'[k] = IF k <= i - 1 THEN p[k] ELSE IF k <= (i - 1) + 2 THEN m[k - (i - 1)]
                           ELSE q[k - (i - 1) - 2]
             /\ list[k] = IF k <= i - 1 THEN p[k] ELSE IF k <= (i - 1) + 2 THEN o[k - (i - 1)]
                          ELSE q[k - (i - 1) - 2]
    BY <1>6, <2>1, <2>2, <2>3, <2>4 DEF Parts
  <2>6. ASSUME NEW k \in 1 .. Len(list)
        PROVE  list'[k] = IF k = i THEN list[i + 1] ELSE IF k = i + 1 THEN list[i] ELSE list[k]
    <3>1. CASE k = i
      <4>1. ~(k <= i - 1) /\ k <= (i - 1) + 2 /\ k - (i - 1) = 1
        BY <1>3, <3>1
      <4>2. list'[k] = y
        BY <2>1, <2>5, <4>1
      <4>3. QED
        BY <3>1, <4>2 DEF y
    <3>2. CASE k = i + 1
      <4>1. ~(k <= i - 1) /\ k <= (i - 1) + 2 /\ k - (i - 1) = 2 /\ k # i
        BY <1>3, <3>2
      <4>2. list'[k] = x
        BY <2>1, <2>5, <4>1
      <4>3. QED
        BY <3>2, <4>1, <4>2 DEF x
    <3>3. CASE k # i /\ k # i + 1
      <4>1. k <= i - 1 \/ ~(k <= (i - 1) + 2)
        BY <1>3, <3>3
      <4>2. k <= i - 1 => k <= (i - 1) + 2
        BY <1>3
      <4>3. list'[k] = list[k]
        BY <2>5, <4>1, <4>2
      <4>4. QED
        BY <3>3, <4>3
    <3>4. QED
      BY <3>1, <3>2, <3>3
  <2>7. QED
    BY <2>2, <2>3, <2>5, <2>6
<1>10. made' \in Nat /\ made <= made'
  BY <1>1, <1>2
<1>11. /\ (helm \subseteq Revisions /\ up \subseteq Clusters /\ req \in [Readers -> {None} \cup Requests])'
       /\ PageInv' /\ DiffInv' /\ HelmInv' /\ ReqInv'
  BY <1>1, <1>10, ReleasesStay
<1>12. TypeOK'
  <2>1. \A k \in 1 .. Len(list') : list'[k].id <= made'
    BY <1>1, <1>2, <1>3, <1>9
  <2>2. QED
    BY <1>1, <1>9, <1>11, <2>1 DEF IInv, TypeOK
<1>13. ListInv'
  <2>1. ASSUME NEW j \in 1 .. Len(list'), NEW k \in 1 .. Len(list'), list'[j].id = list'[k].id
        PROVE  j = k
    <3> DEFINE f(n) == IF n = i THEN i + 1 ELSE IF n = i + 1 THEN i ELSE n
    <3>1. \A n \in 1 .. Len(list) : f(n) \in 1 .. Len(list) /\ list'[n] = list[f(n)]
      BY <1>3, <1>9
    <3>2. f(j) \in 1 .. Len(list) /\ f(k) \in 1 .. Len(list) /\ list[f(j)].id = list[f(k)].id
      BY <1>9, <2>1, <3>1
    <3>3. f(j) = f(k)
      BY <1>2, <3>2 DEF DistinctIds
    <3>4. QED
      BY <1>3, <3>3
  <2>2. DistinctIds(list')
    BY <2>1 DEF DistinctIds
  <2>3. Len(list') <= made' /\ kind' = kind /\ filter' = filter
    BY <1>1, <1>2, <1>9
  <2>4. kind \in Stored \cup {"releases", "diff"} /\ filter \in {"", "new"}
    BY DEF IInv, ListInv
  <2>5. QED
    BY <2>2, <2>3, <2>4, Zenon DEF ListInv, DistinctIds
<1>14. Tied' = Tied /\ Walking' = Walking
  BY <1>1 DEF Tied, ByTime, Walking
<1>15. WalkInv' /\ NothingTwice' /\ NothingMissed' /\ WalkSucceeds'
  BY <1>1, <1>14 DEF IInv, WalkInv, NothingTwice, NothingMissed, WalkSucceeds
<1>16. SeenInv'
  <2> SUFFICES ASSUME Walking PROVE Covered' /\ Passed' /\ Counted'
    BY <1>14 DEF SeenInv
  <2>1. Covered /\ Passed /\ Counted
    BY DEF IInv, SeenInv
  <2>2. Shown = Only(list, Wanted) /\ Shown' = Only(list', Wanted)
    BY <1>1, <1>7, ShownWanted, ShownAfter
  <2>3. /\ Len(Shown') = Len(Shown)
        /\ \A k \in 1 .. Len(Shown) :
             Shown'[k] = Shown[k] \/ (Shown'[k] \in {x, y} /\ Shown[k] \in {x, y})
    BY <1>8, <2>2 DEF Mixed
  <2>4. \A k \in 1 .. Len(Shown) :
          Shown[k].id \notin Tied \/ Shown'[k].id \notin Tied => Shown'[k] = Shown[k]
    BY <1>5, <2>3
  <2>5. Covered'
    <3> SUFFICES ASSUME ~walk.shrunk, ~walk.torn, NEW b \in walk.before \ Tied
                 PROVE  \E k \in 1 .. Len(Shown') :
                          Shown'[k].id = b /\ (Before(k)' => b \in Range(walk.seen))
      BY <1>1, <1>14 DEF Covered
    <3>1. PICK k \in 1 .. Len(Shown) : Shown[k].id = b /\ (Before(k) => b \in Range(walk.seen))
      BY <2>1 DEF Covered
    <3>2. Shown'[k] = Shown[k] /\ k \in 1 .. Len(Shown')
      BY <2>3, <2>4, <3>1
    <3>3. Before(k)' = Before(k)
      BY <1>1 DEF Before
    <3>4. QED
      BY <3>1, <3>2, <3>3
  <2>6. Passed'
    BY <1>1, <1>14, <2>1, <2>3, <2>4 DEF Passed, Before
  <2>7. Counted'
    BY <1>1, <2>1, <2>3 DEF Counted
  <2>8. QED
    BY <2>5, <2>6, <2>7
<1>17. QED
  BY <1>11, <1>12, <1>13, <1>15, <1>16 DEF IInv

(***************************************************************************)
(* Rows go: what is left moves forward.                                    *)
(***************************************************************************)
LEMMA ChangeStep ==
  ASSUME IInv, NEW new \in Seq(Rows), Change(new), DistinctIds(new), Len(new) <= Len(list),
         \A i \in 1 .. Len(new) : new[i].id <= made,
         kind \in Stored,
         Thinner(new, Wanted, list, Wanted)
  PROVE  IInv'
<1> DEFINE shrunk == walk.shrunk \/ Walking
<1>1. /\ list' = new /\ walk' = [walk EXCEPT !.shrunk = shrunk]
      /\ UNCHANGED <<store, kind, filter, made, releaseVars, texts, answer>>
  BY DEF Change
<1>2. walk \in [page : 0 .. MaxItems, limit : 1 .. Bound - 1, before : SUBSET (1 .. made),
                seen : Seq(1 .. made), counted : 0 .. MaxItems \cup {None}, grew : BOOLEAN,
                shrunk : BOOLEAN, torn : BOOLEAN, done : BOOLEAN, failed : BOOLEAN]
  BY DEF IInv, TypeOK
<1>3. /\ shrunk \in BOOLEAN /\ (walk.shrunk => shrunk) /\ (Walking => shrunk)
      /\ (~Walking => shrunk = walk.shrunk)
  BY <1>2
<1> HIDE DEF shrunk
<1>4. /\ walk'.page = walk.page /\ walk'.limit = walk.limit /\ walk'.before = walk.before
      /\ walk'.seen = walk.seen /\ walk'.counted = walk.counted /\ walk'.grew = walk.grew
      /\ walk'.shrunk = shrunk /\ walk'.torn = walk.torn /\ walk'.done = walk.done
      /\ walk'.failed = walk.failed
  BY <1>1, <1>2
<1>5. Walking' = Walking /\ Tied' = Tied
  BY <1>1, <1>4 DEF Walking, Tied, ByTime
<1>0. made' \in Nat /\ made <= made'
  BY <1>1, ItemsAssumption DEF IInv, TypeOK
<1>11. /\ (helm \subseteq Revisions /\ up \subseteq Clusters /\ req \in [Readers -> {None} \cup Requests])'
       /\ PageInv' /\ DiffInv' /\ HelmInv' /\ ReqInv'
  BY <1>0, <1>1, ReleasesStay
<1>6. TypeOK'
  BY <1>1, <1>2, <1>3, <1>11 DEF IInv, TypeOK
<1>7. ListInv'
  <2>1. DistinctIds(list)' /\ Len(list') <= made'
    <3>1. Len(list) <= made /\ made \in 0 .. MaxItems /\ Len(list) \in Nat /\ Len(new) \in Nat
      BY LenProperties DEF IInv, TypeOK, ListInv
    <3>2. QED
      BY <1>1, <3>1, ItemsAssumption DEF DistinctIds
  <2>2. kind' = kind /\ filter' = filter /\ made' = made /\ list' = new
    BY <1>1
  <2>3. QED
    BY <2>1, <2>2, Zenon DEF IInv, ListInv
<1>8. WalkInv'
  <2>1. walk.page = 0 => walk' = Idle
    <3> SUFFICES ASSUME walk.page = 0 PROVE walk' = Idle
      OBVIOUS
    <3>1. walk = Idle
      BY DEF IInv, WalkInv
    <3>2. ~Walking
      BY <3>1 DEF Walking, Idle
    <3>3. shrunk = walk.shrunk
      BY <1>3, <3>2
    <3>4. QED
      BY <1>1, <1>2, <3>1, <3>3
  <2>2. QED
    BY <1>1, <1>4, <1>5, <2>1 DEF IInv, WalkInv
<1>9. SeenInv'
  <2> SUFFICES ASSUME Walking PROVE Covered' /\ Passed' /\ Counted'
    BY <1>5 DEF SeenInv
  <2>1. kind \in Stored /\ Passed
    BY DEF IInv, WalkInv, SeenInv
  <2>2. Covered' /\ Counted'
    BY <1>3, <1>4 DEF Covered, Counted
  <2>3. Shown = Only(list, Wanted) /\ Shown' = Only(new, Wanted)
    <3>1. Shown = Only(list, Wanted)
      BY <2>1, ShownWanted
    <3>2. Shown' = Only(list', Wanted)
      BY <1>1, <2>1, ShownAfter
    <3>3. QED
      BY <1>1, <3>1, <3>2
  <2>4. Passed'
    <3> SUFFICES ASSUME ~walk.grew, NEW j \in 1 .. Len(Shown'), Shown'[j].id \notin Tied,
                        Shown'[j].id \in Range(walk.seen)
                 PROVE  Before(j)'
      BY <1>4, <1>5 DEF Passed
    <3>1. PICK i \in j .. Len(Shown) : Shown[i].id = Shown'[j].id
      BY <2>3 DEF Thinner
    <3>2. i \in 1 .. Len(Shown) /\ j <= i /\ i \in Int /\ j \in Int
      OBVIOUS
    <3>3. i <= (walk.page - 1) * walk.limit
      BY <2>1, <3>1, <3>2 DEF Passed, Before
    <3>4. (walk.page - 1) * walk.limit \in Int
      BY <1>2, ItemsAssumption, BoundAssumption
    <3> DEFINE d == (walk.page - 1) * walk.limit
    <3>5. j <= d
      <4>1. i <= d /\ d \in Int
        BY <3>3, <3>4
      <4> HIDE DEF d
      <4>2. QED
        BY <3>2, <4>1
    <3>6. QED
      BY <1>4, <3>5 DEF Before
  <2>5. QED
    BY <2>2, <2>4
<1>10. NothingTwice' /\ NothingMissed' /\ WalkSucceeds'
  BY <1>3, <1>4, <1>5 DEF IInv, NothingTwice, NothingMissed, WalkSucceeds
<1>12. QED
  BY <1>6, <1>7, <1>8, <1>9, <1>10, <1>11 DEF IInv

(***************************************************************************)
(* An approval or a drift event is settled.                                *)
(***************************************************************************)
LEMMA ResolveStep ==
  ASSUME IInv, NEW i \in 1 .. Len(list), Resolve(i)
  PROVE  IInv'
<1> DEFINE new == [list EXCEPT ![i].tag = "old"]
<1>1. kind \in {"approvals", "drift"} /\ list[i].tag = "new" /\ Change(new)
  BY DEF Resolve
<1>2. /\ list \in Seq(Rows) /\ DistinctIds(list)
      /\ \A k \in 1 .. Len(list) : list[k].id <= made
  BY DEF IInv, TypeOK, ListInv
<1>3. Len(list) \in Nat /\ list \in [1 .. Len(list) -> Rows]
  BY <1>2, LenProperties
<1>4. list[i] \in Rows
  BY <1>3
<1>5. /\ [list[i] EXCEPT !.tag = "old"] \in Rows
      /\ [list[i] EXCEPT !.tag = "old"].id = list[i].id
      /\ [list[i] EXCEPT !.tag = "old"].group = list[i].group
      /\ [list[i] EXCEPT !.tag = "old"].tag = "old"
  BY <1>4 DEF Rows, Tags
<1>6. /\ new \in Seq(Rows) /\ Len(new) = Len(list)
      /\ \A k \in 1 .. Len(list) : new[k] = IF k = i THEN [list[i] EXCEPT !.tag = "old"] ELSE list[k]
  BY <1>2, <1>5, ExceptSeq
<1> HIDE DEF new
<1>7. \A k \in 1 .. Len(list) : new[k].id = list[k].id
  BY <1>5, <1>6
<1>8. ASSUME NEW k \in 1 .. Len(list), new[k] \in Wanted PROVE list[k] \in Wanted
  <2>1. CASE k # i
    BY <1>6, <1>8, <2>1
  <2>2. CASE k = i
    <3>1. new[i] \in Wanted /\ new[i].tag = "old" /\ new[i].group = list[i].group
      BY <1>5, <1>6, <1>8, <2>2
    <3>2. Wanted = Mine(Tags) \/ Wanted = Mine({"new"})
      BY WantedTags DEF IInv, ListInv
    <3>3. \A tags : new[i] \in Mine(tags) => new[i].tag \in tags /\ new[i].group = "mine"
      BY DEF Mine
    <3>4. Wanted = Mine(Tags) /\ list[i].group = "mine"
      BY <3>1, <3>2, <3>3
    <3>5. list[i] \in Mine(Tags)
      BY <1>4, <3>4 DEF Rows, Mine
    <3>6. QED
      BY <2>2, <3>4, <3>5
  <2>3. QED
    BY <2>1, <2>2
<1>9. Thinner(new, Wanted, list, Wanted)
  <2>1. Matches(new, Wanted, list, Wanted)
    BY <1>6, <1>7, <1>8 DEF Matches
  <2>2. QED
    BY <1>2, <1>6, <2>1, OnlyThins
<1>10. DistinctIds(new)
  BY <1>2, <1>6, <1>7 DEF DistinctIds
<1>11. \A k \in 1 .. Len(new) : new[k].id <= made
  BY <1>2, <1>6, <1>7
<1>12. kind \in Stored /\ Len(new) <= Len(list)
  BY <1>1, <1>3, <1>6 DEF Stored
<1>13. QED
  BY <1>1, <1>6, <1>9, <1>10, <1>11, <1>12, ChangeStep

(***************************************************************************)
(* A row goes with its cluster.                                            *)
(***************************************************************************)
LEMMA CascadeStep ==
  ASSUME IInv, NEW i \in 1 .. Len(list), Cascade(i)
  PROVE  IInv'
<1> DEFINE V == Range(list) \ {list[i]}
           new == Only(list, V)
<1>1. Change(new) /\ kind \in Stored
  BY DEF Cascade, Stored
<1>2. /\ list \in Seq(Rows) /\ DistinctIds(list)
      /\ \A k \in 1 .. Len(list) : list[k].id <= made
  BY DEF IInv, TypeOK, ListInv
<1> HIDE DEF V
<1>3. /\ new \in Seq(Rows) /\ Len(new) <= Len(list) /\ Len(new) \in Nat
      /\ Range(new) = Range(list) \cap V
  BY <1>2, OnlyKeeps
<1>4. DistinctIds(new)
  BY <1>2, OnlyDistinct
<1>5. ASSUME NEW k \in 1 .. Len(new) PROVE \E j \in 1 .. Len(list) : new[k] = list[j]
  <2>1. new[k] \in Range(new)
    BY <1>3, RangeEquality
  <2>2. new[k] \in Range(list)
    BY <1>3, <2>1
  <2>3. QED
    BY <1>2, <2>2, RangeEquality
<1>6. Thinner(new, Wanted, list, Wanted)
  <2>1. Only(new, Wanted) = Only(list, V \cap Wanted)
    BY <1>2, OnlyTwice
  <2>2. Thinner(list, V \cap Wanted, list, Wanted)
    <3>1. Matches(list, V \cap Wanted, list, Wanted)
      BY DEF Matches
    <3>2. QED
      BY <1>2, <3>1, OnlyThins
  <2>3. QED
    BY <2>1, <2>2 DEF Thinner
<1> HIDE DEF new
<1>7. \A k \in 1 .. Len(new) : new[k].id <= made
  BY <1>2, <1>5
<1>8. QED
  BY <1>1, <1>3, <1>4, <1>6, <1>7, ChangeStep
-----------------------------------------------------------------------------
-----------------------------------------------------------------------------
(* A release with the tag that the query asks for.                         *)
Wants(tag) == filter \in {"", "all", tag}

(***************************************************************************)
(* The releases that are asked for.                                        *)
(***************************************************************************)
LEMMA FilterWants ==
  ASSUME NEW rs
  PROVE  filterReleases(rs) = {x \in rs : Wants(x.tag)}
BY Zenon DEF filterReleases, Wants

(***************************************************************************)
(* The releases of other programs.                                         *)
(***************************************************************************)
LEMMA ArchiveRows ==
  /\ Archive \in Seq(Range(Archive)) /\ Range(Archive) = {Archive[1], Archive[2]}
  /\ \A x \in Range(Archive) : x.id \in Nat /\ x.group = "archive" /\ Len(x.ref) = 1
<1>1. \A x, y : <<x, y>> \in Seq({x, y}) /\ Len(<<x, y>>) = 2 /\ <<x, y>>[1] = x /\ <<x, y>>[2] = y
  OBVIOUS
<1>2. \A x, y : Range(<<x, y>>) = {x, y}
  <2> TAKE x, y
  <2> DEFINE s == <<x, y>>
  <2>0. s \in Seq({x, y}) /\ Len(s) = 2 /\ s[1] = x /\ s[2] = y
    BY <1>1
  <2> HIDE DEF s
  <2>1. Range(s) = {s[i] : i \in 1 .. Len(s)}
    BY <2>0, RangeEquality
  <2>2. 1 .. 2 = {1, 2}
    OBVIOUS
  <2>3. Range(s) = {x, y}
    BY <2>0, <2>1, <2>2
  <2>4. QED
    BY <2>3 DEF s
<1> DEFINE x == [id |-> 2, group |-> "archive", tag |-> "old", name |-> "x", ref |-> <<"uuid 2">>]
           y == [id |-> 1, group |-> "archive", tag |-> "new", name |-> "x", ref |-> <<"uuid 1">>]
<1>3. Archive = <<x, y>>
  BY DEF Archive
<1> HIDE DEF x, y
<1>4. /\ Archive \in Seq({x, y}) /\ Range(Archive) = {x, y}
      /\ Archive[1] = x /\ Archive[2] = y
  BY <1>1, <1>2, <1>3, Zenon
<1>5. /\ x.id \in Nat /\ x.group = "archive" /\ Len(x.ref) = 1
      /\ y.id \in Nat /\ y.group = "archive" /\ Len(y.ref) = 1
  BY DEF x, y
<1>6. QED
  BY <1>4, <1>5, Zenon

(***************************************************************************)
(* A live release is good: it is its revision, with an id of three parts.  *)
(***************************************************************************)
LEMMA LiveIsGood ==
  ASSUME NEW x \in Revisions
  PROVE  /\ helmReleaseToType(x) \in LiveGood /\ helmReleaseToType(x) \in Releases
         /\ helmReleaseToType(x).id = x.id /\ helmReleaseToType(x).tag = x.tag
         /\ x.id \in 1 .. MaxItems
<1>1. x.id \in 1 .. MaxItems /\ x.group \in Clusters /\ x.tag \in Tags /\ x.name \in Names
  BY DEF Revisions
<1>2. <<x.group, x.tag, x.name>> \in Clusters \X Tags \X Names
  BY <1>1
<1>3. helmReleaseToType(x) \in Releases
  BY <1>1, <1>2 DEF helmReleaseToType, Releases
<1>4. helmReleaseToType(x).id = x.id /\ helmReleaseToType(x).tag = x.tag
  BY DEF helmReleaseToType
<1>5. helmReleaseToType(x) \in LiveGood
  BY DEF LiveGood
<1>6. QED
  BY <1>1, <1>3, <1>4, <1>5

(***************************************************************************)
(* Good releases are pages' items, and their ids are numbers.              *)
(***************************************************************************)
LEMMA GoodItems ==
  /\ Good \subseteq Releases \cup Range(Archive)
  /\ \A x \in Good : x.id \in Nat
  /\ GoodPages \subseteq ReleasePages
<1>1. \A x \in LiveGood : x \in Releases /\ x.id \in 1 .. MaxItems
  BY LiveIsGood DEF LiveGood
<1>2. \A x \in Range(Archive) : x.id \in Nat
  BY ArchiveRows, Zenon
<1>3. Good \subseteq Releases \cup Range(Archive) /\ \A x \in Good : x.id \in Nat
  BY <1>1, <1>2, ItemsAssumption DEF Good
<1>4. Seq(Good) \subseteq Seq(Releases \cup Range(Archive))
  BY <1>3, SeqMonotonic
<1>5. GoodPages \subseteq ReleasePages
  BY <1>4 DEF GoodPages, ReleasePages
<1>6. QED
  BY <1>3, <1>5

(***************************************************************************)
(* The number of pages is a number.                                        *)
(***************************************************************************)
LEMMA PageCountType ==
  ASSUME NEW total \in Int
  PROVE  PageCount(total, PageSize) \in Int
<1> DEFINE a == Wrap(Wrap(total + PageSize) - 1)
<1>1. \A x \in Int : Wrap(x) \in Int
  BY BoundAssumption DEF Wrap
<1>2. a \in Int
  BY <1>1 DEF PageSize
<1> HIDE DEF a
<1>3. Quotient(a, 1) \in Int
  BY <1>2 DEF Quotient
<1>4. QED
  BY <1>3 DEF PageCount, PageSize, a

(***************************************************************************)
(* A page of good releases.                                                *)
(***************************************************************************)
LEMMA GoodPage ==
  ASSUME NEW s \in Seq(Good), NEW p \in PageNos
  PROVE  /\ Window(s, p, PageSize) \in Seq(Good) /\ Window(s, p, PageSize) # Failed
         /\ LimitOffset(s, p, PageSize) \in Seq(Good)
         /\ IsCut(Window(s, p, PageSize), s, (p - 1) * PageSize, PageSize)
<1> DEFINE S == Rows \cup Releases \cup Range(Archive)
<1>1. s \in Seq(S)
  <2>1. Good \subseteq S
    BY GoodItems
  <2>2. QED
    BY <2>1, SeqMonotonic
<1>2. /\ p \in Nat \ {0} /\ PageSize \in 1 .. Bound - 1 /\ (p - 1) * PageSize < MaxItems
  BY ItemsAssumption, BoundAssumption DEF PageSize
<1>3. /\ IsCut(Window(s, p, PageSize), s, (p - 1) * PageSize, PageSize)
      /\ Window(s, p, PageSize) \in Seq(S)
      /\ IsPart(LimitOffset(s, p, PageSize), s, (p - 1) * PageSize, PageSize)
      /\ LimitOffset(s, p, PageSize) \in Seq(S)
  BY <1>1, <1>2, PageIsCut DEF IsCut
<1>4. IsPart(Window(s, p, PageSize), s, (p - 1) * PageSize, PageSize)
  BY <1>3 DEF IsCut
<1>5. ASSUME NEW w \in Seq(S), IsPart(w, s, (p - 1) * PageSize, PageSize)
      PROVE  w \in Seq(Good) /\ w # Failed
  <2>1. \A i \in 1 .. Len(w) : w[i] \in Good
    BY <1>5, ElementOfSeq DEF IsPart
  <2>2. Range(w) \subseteq Good
    BY <1>5, <2>1, RangeEquality
  <2>3. w \in Seq(Good)
    BY <1>5, <2>2, SeqOfRange, SeqMonotonic
  <2>4. QED
    BY <1>5, <2>3, FailedAssumption
<1> HIDE DEF S
<1>6. QED
  BY <1>3, <1>4, <1>5
-----------------------------------------------------------------------------
(***************************************************************************)
(* In a finite set of things with ids of their own every rank is taken.    *)
(***************************************************************************)
LEMMA Ranks ==
  ASSUME NEW R, IsFiniteSet(R), \A x \in R : x.id \in Nat, OwnIds(R),
         NEW k \in 1 .. Cardinality(R)
  PROVE  \E x \in R : Cardinality({y \in R : y.id <= x.id}) = k
<1> DEFINE upTo(x) == {y \in R : y.id <= x.id}
           place   == [x \in R |-> Cardinality(upTo(x))]
           n       == Cardinality(R)
<1>1. ASSUME NEW x \in R
      PROVE  IsFiniteSet(upTo(x)) /\ Cardinality(upTo(x)) \in 1 .. n
  <2>1. upTo(x) \in SUBSET R /\ x \in upTo(x)
    OBVIOUS
  <2> HIDE DEF upTo
  <2>2. IsFiniteSet(upTo(x)) /\ Cardinality(upTo(x)) <= n
    BY <2>1, FS_Subset
  <2>3. Cardinality(upTo(x)) \in Nat /\ Cardinality(upTo(x)) # 0 /\ n \in Nat
    BY <2>1, <2>2, FS_CardinalityType, FS_EmptySet
  <2>4. QED
    BY <2>2, <2>3
<1>2. ASSUME NEW x \in R, NEW y \in R, x.id < y.id
      PROVE  Cardinality(upTo(x)) < Cardinality(upTo(y))
  <2>1. upTo(x) \in SUBSET upTo(y) /\ y \in upTo(y) /\ y \notin upTo(x)
    BY <1>2
  <2> HIDE DEF upTo
  <2>2. Cardinality(upTo(x)) <= Cardinality(upTo(y)) /\ Cardinality(upTo(x)) # Cardinality(upTo(y))
    BY <1>1, <2>1, FS_Subset
  <2>3. QED
    BY <1>1, <2>2
<1>3. place \in [R -> 1 .. n] /\ \A x \in R : place[x] = Cardinality(upTo(x))
  BY <1>1
<1> HIDE DEF place, upTo
<1>4. ASSUME NEW x \in R, NEW y \in R, place[x] = place[y] PROVE x = y
  <2>1. ~(x.id < y.id) /\ ~(y.id < x.id)
    BY <1>1, <1>2, <1>3, <1>4
  <2>2. x.id = y.id
    BY <2>1
  <2>3. QED
    BY <2>2 DEF OwnIds
<1>5. place \in Injection(R, 1 .. n)
  BY <1>3, <1>4 DEF Injection, IsInjective
<1>6. n \in Nat /\ IsFiniteSet(1 .. n) /\ Cardinality(1 .. n) = n
  BY FS_CardinalityType, FS_Interval
<1>7. place \in Surjection(R, 1 .. n)
  BY <1>5, <1>6, FS_Injection
<1>8. \E x \in R : place[x] = k
  BY <1>7 DEF Surjection
<1>9. QED
  BY <1>3, <1>8 DEF upTo

(***************************************************************************)
(* Sorting by time: the k-th release is the one of rank k.                 *)
(***************************************************************************)
LEMMA Sorting ==
  ASSUME NEW R, IsFiniteSet(R), R \subseteq Good, OwnIds(R)
  PROVE  /\ sortReleases(R) \in Seq(Good) /\ Len(sortReleases(R)) = Cardinality(R)
         /\ Cardinality(R) \in Nat
         /\ \A k \in 1 .. Cardinality(R) :
              /\ sortReleases(R)[k] \in R
              /\ Cardinality({y \in R : y.id <= sortReleases(R)[k].id}) = k
<1> DEFINE place(x) == Cardinality({y \in R : y.id <= x.id})
           s == sortReleases(R)
<1>1. Cardinality(R) \in Nat /\ \A x \in R : x.id \in Nat
  BY FS_CardinalityType, GoodItems
<1>2. ASSUME NEW k \in 1 .. Cardinality(R) PROVE \E x \in R : place(x) = k
  BY <1>1, Ranks
<1>3. s = [k \in 1 .. Cardinality(R) |-> CHOOSE x \in R : place(x) = k]
  BY DEF sortReleases
<1> HIDE DEF place, s
<1>4. ASSUME NEW k \in 1 .. Cardinality(R) PROVE s[k] \in R /\ place(s[k]) = k
  BY <1>2, <1>3
<1>5. s \in Seq(Good) /\ Len(s) = Cardinality(R)
  <2>1. s = [k \in 1 .. Cardinality(R) |-> s[k]] /\ \A k \in 1 .. Cardinality(R) : s[k] \in Good
    BY <1>3, <1>4
  <2>2. s \in [1 .. Cardinality(R) -> Good]
    BY <2>1
  <2>3. \A n \in Nat : s \in [1 .. n -> Good] => s \in Seq(Good) /\ Len(s) = n
    OBVIOUS
  <2>4. QED
    BY <1>1, <2>2, <2>3, Zenon
<1>6. QED
  BY <1>1, <1>4, <1>5 DEF s, place

(***************************************************************************)
(* Pages of live releases.                                                 *)
(***************************************************************************)
LEMMA LivePage ==
  ASSUME NEW found, IsFiniteSet(found), found \subseteq LiveGood, OwnIds(found), NEW p \in PageNos
  PROVE  LET R == filterReleases(found)
             s == sortReleases(R)
         IN  /\ IsFiniteSet(R) /\ R \subseteq Good /\ OwnIds(R)
             /\ Live(found, p).items = Window(s, p, PageSize)
             /\ Live(found, p) \in GoodPages
<1> DEFINE R == filterReleases(found)
           s == sortReleases(R)
           w == Window(s, p, PageSize)
<1>1. R \subseteq found
  BY FilterWants
<1> HIDE DEF R
<1>2. IsFiniteSet(R) /\ R \subseteq Good /\ OwnIds(R)
  BY <1>1, FS_Subset DEF Good, OwnIds
<1>3. s \in Seq(Good) /\ Len(s) \in Nat
  BY <1>2, Sorting
<1>4. Live(found, p) = paginateReleases(s, p, PageSize)
  BY DEF Live, R
<1> HIDE DEF s
<1>5. w \in Seq(Good) /\ w # Failed
  BY <1>3, GoodPage
<1>6. AtLeastOne(PageSize, 25) = PageSize /\ AtLeastOne(p, 1) = p
  BY ItemsAssumption DEF AtLeastOne, PageSize
<1>7. Live(found, p) = [items |-> w, pages |-> PageCount(Len(s), PageSize)]
  BY <1>4, <1>5, <1>6 DEF paginateReleases, Paged
<1>8. PageCount(Len(s), PageSize) \in Int
  BY <1>3, PageCountType
<1> HIDE DEF w
<1>9. Live(found, p) \in GoodPages /\ Live(found, p).items = w
  BY <1>5, <1>7, <1>8 DEF GoodPages
<1>10. QED
  BY <1>2, <1>9 DEF R, s, w

(***************************************************************************)
(* A page of stored releases, whole or ended early.                        *)
(***************************************************************************)
LEMMA StoredPage ==
  ASSUME NEW p \in PageNos, NEW page \in PgListReleases(p)
  PROVE  page \in GoodPages
<1> DEFINE rows == Only(Archive, filterReleases(Range(Archive)))
           w    == LimitOffset(rows, p, PageSize)
<1>1. Archive \in Seq(Good)
  <2>1. Range(Archive) \subseteq Good
    BY DEF Good
  <2>2. QED
    BY <2>1, ArchiveRows, SeqMonotonic
<1>2. rows \in Seq(Good) /\ Len(rows) \in Nat
  BY <1>1, OnlyKeeps
<1>3. PICK n \in 0 .. Len(w), total \in {0, Len(rows)} :
        page = buildPaginated(SubSeq(w, 1, n), PageSize, total)
  BY DEF PgListReleases
<1> HIDE DEF rows
<1>4. w \in Seq(Good)
  BY <1>2, GoodPage
<1> HIDE DEF w
<1>5. SubSeq(w, 1, n) \in Seq(Good)
  BY <1>4, FirstOfPage
<1>6. PageCount(total, PageSize) \in Int
  BY <1>2, PageCountType
<1>7. QED
  BY <1>3, <1>5, <1>6 DEF buildPaginated, GoodPages

-----------------------------------------------------------------------------
(***************************************************************************)
(* The first of one, two or three.                                         *)
(***************************************************************************)
LEMMA Heads ==
  /\ \A x : Head(<<x>>) = x
  /\ \A x, y : Head(<<x, y>>) = x
  /\ \A x, y, z : Head(<<x, y, z>>) = x
<1>1. ASSUME NEW x PROVE Head(<<x>>) = x
  OBVIOUS
<1>2. ASSUME NEW x, NEW y PROVE Head(<<x, y>>) = x
  OBVIOUS
<1>3. ASSUME NEW x, NEW y, NEW z PROVE Head(<<x, y, z>>) = x
  OBVIOUS
<1>4. QED
  BY <1>1, <1>2, <1>3

(***************************************************************************)
(* The stages of a request, and the one that follows.                      *)
(***************************************************************************)
LEMMA NextStage ==
  ASSUME NEW todo \in Stages
  PROVE  /\ todo \in Seq({"live", "redis", "store", "redis set", "mem"}) /\ todo # <<>>
         /\ Head(todo) = "live" => Tail(todo) \in Stages /\ Head(Tail(todo)) = "redis"
         /\ Head(todo) = "redis" => Tail(todo) \in Stages /\ Head(Tail(todo)) = "store"
         /\ Head(todo) = "redis set" => Tail(todo) \in Stages /\ Head(Tail(todo)) = "mem"
<1> DEFINE S == {"live", "redis", "store", "redis set", "mem"}
<1>1. ASSUME NEW x \in S, NEW y \in S, NEW z \in S
      PROVE  /\ <<x>> \in Seq(S) /\ <<x, y>> \in Seq(S) /\ <<x, y, z>> \in Seq(S)
             /\ <<x>> # <<>> /\ <<x, y>> # <<>> /\ <<x, y, z>> # <<>>
             /\ Head(<<x>>) = x /\ Head(<<x, y>>) = x /\ Head(<<x, y, z>>) = x
             /\ Tail(<<x, y>>) = <<y>> /\ Tail(<<x, y, z>>) = <<y, z>>
  <2> HIDE DEF S
  <2>1. <<x>> \in Seq(S) /\ <<x>> # <<>> /\ Head(<<x>>) = x
    OBVIOUS
  <2>2. /\ <<x, y>> \in Seq(S) /\ <<x, y>> # <<>> /\ Len(<<x, y>>) = 2 /\ <<x, y>>[2] = y
        /\ Head(<<x, y>>) = x
    OBVIOUS
  <2>3. /\ <<x, y, z>> \in Seq(S) /\ <<x, y, z>> # <<>> /\ Len(<<x, y, z>>) = 3
        /\ <<x, y, z>>[2] = y /\ <<x, y, z>>[3] = z /\ Head(<<x, y, z>>) = x
    OBVIOUS
  <2>4. ASSUME NEW s \in Seq(S), s # <<>>
        PROVE  /\ Tail(s) \in Seq(S) /\ Len(s) = 2 => Tail(s) = <<s[2]>>
               /\ Len(s) = 3 => Tail(s) = <<s[2], s[3]>>
    <3> DEFINE t == Tail(s)
    <3>1. t \in Seq(S) /\ Len(t) = Len(s) - 1 /\ \A i \in 1 .. Len(t) : t[i] = s[i + 1]
      BY <2>4, HeadTailProperties
    <3> HIDE DEF t
    <3>2. ASSUME Len(s) = 2 PROVE t = <<s[2]>>
      <4>1. Len(t) = 1
        BY <3>1, <3>2
      <4>2. t[1] = s[2]
        BY <3>1, <4>1
      <4>3. QED
        BY <3>1, <4>1, <4>2
    <3>3. ASSUME Len(s) = 3 PROVE t = <<s[2], s[3]>>
      <4>1. Len(t) = 2
        BY <3>1, <3>3
      <4>2. t[1] = s[2] /\ t[2] = s[3]
        BY <3>1, <4>1
      <4>3. QED
        BY <3>1, <4>1, <4>2
    <3>4. QED
      BY <3>1, <3>2, <3>3 DEF t
  <2>5. QED
    BY <2>1, <2>2, <2>3, <2>4
<1>2. "live" \in S /\ "redis" \in S /\ "store" \in S /\ "redis set" \in S /\ "mem" \in S
  OBVIOUS
<1> HIDE DEF S
<1>3. /\ Head(<<"live", "redis", "store">>) = "live" /\ Head(<<"redis", "store">>) = "redis"
      /\ Head(<<"store">>) = "store" /\ Head(<<"redis set", "mem">>) = "redis set"
      /\ Head(<<"mem">>) = "mem"
  <2>1. Head(<<"live", "redis", "store">>) = "live"
    BY Heads, Zenon
  <2>2. Head(<<"redis", "store">>) = "redis" /\ Head(<<"redis set", "mem">>) = "redis set"
    BY Heads, Zenon
  <2>3. Head(<<"store">>) = "store" /\ Head(<<"mem">>) = "mem"
    BY Heads, Zenon
  <2>4. QED
    BY <2>1, <2>2, <2>3
<1>4. /\ Tail(<<"live", "redis", "store">>) = <<"redis", "store">>
      /\ Tail(<<"redis", "store">>) = <<"store">> /\ Tail(<<"redis set", "mem">>) = <<"mem">>
  <2>1. \A x, y, z \in S : Tail(<<x, y>>) = <<y>> /\ Tail(<<x, y, z>>) = <<y, z>>
    BY <1>1
  <2>2. Tail(<<"live", "redis", "store">>) = <<"redis", "store">>
    BY ONLY <2>1, <1>2
  <2>3. Tail(<<"redis", "store">>) = <<"store">> /\ Tail(<<"redis set", "mem">>) = <<"mem">>
    BY ONLY <2>1, <1>2
  <2>4. QED
    BY <2>2, <2>3
<1>5. /\ <<"live", "redis", "store">> \in Seq(S) /\ <<"redis", "store">> \in Seq(S)
      /\ <<"store">> \in Seq(S) /\ <<"redis set", "mem">> \in Seq(S) /\ <<"mem">> \in Seq(S)
      /\ <<"live", "redis", "store">> # <<>> /\ <<"redis", "store">> # <<>>
      /\ <<"store">> # <<>> /\ <<"redis set", "mem">> # <<>> /\ <<"mem">> # <<>>
  BY <1>1, <1>2
<1>6. <<"redis", "store">> \in Stages /\ <<"store">> \in Stages /\ <<"mem">> \in Stages
  BY Zenon DEF Stages
<1> DEFINE a == <<"live", "redis", "store">>
           b == <<"redis", "store">>
           c == <<"store">>
           d == <<"redis set", "mem">>
           e == <<"mem">>
<1>7. todo = a \/ todo = b \/ todo = c \/ todo = d \/ todo = e
  BY Zenon DEF Stages
<1>8. /\ Head(a) = "live" /\ Head(b) = "redis" /\ Head(c) = "store" /\ Head(d) = "redis set"
      /\ Head(e) = "mem" /\ Tail(a) = b /\ Tail(b) = c /\ Tail(d) = e
      /\ b \in Stages /\ c \in Stages /\ e \in Stages
  BY <1>3, <1>4, <1>6
<1>9. \A s \in {a, b, c, d, e} : s \in Seq(S) /\ s # <<>>
  BY <1>5
<1> HIDE DEF a, b, c, d, e
<1>10. todo \in Seq(S) /\ todo # <<>>
  BY <1>7, <1>9
<1>11. Head(todo) = "live" => Tail(todo) \in Stages /\ Head(Tail(todo)) = "redis"
  BY <1>7, <1>8
<1>12. Head(todo) = "redis" => Tail(todo) \in Stages /\ Head(Tail(todo)) = "store"
  BY <1>7, <1>8
<1>13. Head(todo) = "redis set" => Tail(todo) \in Stages /\ Head(Tail(todo)) = "mem"
  BY <1>7, <1>8
<1>14. QED
  BY <1>10, <1>11, <1>12, <1>13 DEF S

(***************************************************************************)
(* What the clusters listed.                                               *)
(***************************************************************************)
LEMMA AskedReleases ==
  ASSUME IInv
  PROVE  /\ Asked(Clusters) = {} /\ (Asked({}) = {} => helm = {})
         /\ \A c \in Clusters : HelmListReleases(c) \subseteq LiveGood
         /\ \A c \in Clusters, left \in SUBSET Clusters :
              c \in left => Asked(left \ {c}) = Asked(left) \cup HelmListReleases(c)
<1>1. helm \subseteq Revisions /\ \A x \in Revisions : x.group \in Clusters
  BY DEF IInv, TypeOK, Revisions
<1>2. Asked(Clusters) = {}
  BY <1>1 DEF Asked
<1>3. Asked({}) = {} => helm = {}
  BY DEF Asked
<1>4. \A c \in Clusters : HelmListReleases(c) \subseteq LiveGood
  BY <1>1 DEF HelmListReleases, LiveGood
<1>5. ASSUME NEW c \in Clusters, NEW left \in SUBSET Clusters, c \in left
      PROVE  Asked(left \ {c}) = Asked(left) \cup HelmListReleases(c)
  <2>1. {y \in helm : y.group \notin left \ {c}} = {y \in helm : y.group \notin left} \cup {y \in helm : y.group = c}
    BY <1>5
  <2>2. QED
    BY <2>1 DEF Asked, HelmListReleases
<1>6. QED
  BY <1>2, <1>3, <1>4, <1>5

(***************************************************************************)
(* Some revisions as releases: finitely many, each with an id.             *)
(***************************************************************************)
LEMMA LiveImage ==
  ASSUME IInv, NEW V \in SUBSET helm
  PROVE  LET F == {helmReleaseToType(x) : x \in V}
         IN  /\ IsFiniteSet(F) /\ F \subseteq LiveGood /\ OwnIds(F)
             /\ \A y \in F : y.id <= made
             /\ \A x \in helm, y \in F : x.id = y.id => y = helmReleaseToType(x)
<1> DEFINE F == {helmReleaseToType(x) : x \in V}
           f == [x \in V |-> helmReleaseToType(x)]
<1>1. /\ helm \subseteq Revisions /\ IsFiniteSet(helm) /\ OwnIds(helm)
      /\ \A x \in helm : x.id <= made
  BY DEF IInv, TypeOK, HelmInv
<1>2. \A x \in helm : /\ helmReleaseToType(x) \in LiveGood
                      /\ helmReleaseToType(x).id = x.id
  BY <1>1, LiveIsGood
<1>3. IsFiniteSet(F)
  <2>1. f \in [V -> F] /\ \A x \in V : f[x] = helmReleaseToType(x)
    OBVIOUS
  <2>2. \A y \in F : \E x \in V : y = helmReleaseToType(x)
    OBVIOUS
  <2> HIDE DEF f, F
  <2>3. f \in Surjection(V, F)
    BY <2>1, <2>2 DEF Surjection
  <2>4. IsFiniteSet(V)
    BY <1>1, FS_Subset
  <2>5. QED
    BY <2>3, <2>4, FS_Surjection
<1>4. F \subseteq LiveGood
  BY <1>2
<1>5. OwnIds(F)
  BY <1>1, <1>2 DEF OwnIds
<1>6. \A y \in F : y.id <= made
  BY <1>1, <1>2
<1>7. \A x \in helm, y \in F : x.id = y.id => y = helmReleaseToType(x)
  BY <1>1, <1>2 DEF OwnIds
<1>8. QED
  BY <1>3, <1>4, <1>5, <1>6, <1>7
-----------------------------------------------------------------------------
(***************************************************************************)
(* Steps that leave the list and the walk alone.                           *)
(***************************************************************************)
LEMMA QuietStep ==
  ASSUME IInv, UNCHANGED <<store, kind, filter, list, walk>>, made' \in 0 .. MaxItems, made <= made',
         (helm \subseteq Revisions /\ up \subseteq Clusters /\ req \in [Readers -> {None} \cup Requests])',
         PageInv', DiffInv', HelmInv', ReqInv'
  PROVE  IInv'
<1>1. walk \in [page : 0 .. MaxItems, limit : 1 .. Bound - 1, before : SUBSET (1 .. made),
                seen : Seq(1 .. made), counted : 0 .. MaxItems \cup {None}, grew : BOOLEAN,
                shrunk : BOOLEAN, torn : BOOLEAN, done : BOOLEAN, failed : BOOLEAN]
  BY DEF IInv, TypeOK
<1>2. made \in Int /\ made' \in Int /\ list \in Seq(Rows)
  BY ItemsAssumption DEF IInv, TypeOK
<1>3. 1 .. made \subseteq 1 .. made'
  BY <1>2
<1>4. walk.before \in SUBSET (1 .. made') /\ walk.seen \in Seq(1 .. made')
  <2>1. walk.seen \in Seq(1 .. made) /\ walk.before \in SUBSET (1 .. made)
    BY <1>1
  <2>2. walk.seen \in Seq(1 .. made')
    BY <1>3, <2>1, SeqMonotonic
  <2>3. QED
    BY <1>3, <2>1, <2>2
<1>5. walk' \in [page : 0 .. MaxItems, limit : 1 .. Bound - 1, before : SUBSET (1 .. made'),
                 seen : Seq(1 .. made'), counted : 0 .. MaxItems \cup {None}, grew : BOOLEAN,
                 shrunk : BOOLEAN, torn : BOOLEAN, done : BOOLEAN, failed : BOOLEAN]
  BY <1>1, <1>4
<1>6. \A i \in 1 .. Len(list) : list[i].id <= made'
  <2>1. ASSUME NEW i \in 1 .. Len(list) PROVE list[i].id <= made'
    <3>1. list[i] \in Rows
      BY <1>2, ElementOfSeq
    <3>2. list[i].id \in Int
      BY <3>1 DEF Rows
    <3>3. list[i].id <= made
      BY DEF IInv, TypeOK
    <3>4. QED
      BY <1>2, <3>2, <3>3
  <2>2. QED
    BY <2>1
<1>7. TypeOK'
  BY <1>2, <1>5, <1>6 DEF TypeOK
<1>8. ListInv'
  <2>1. DistinctIds(list) /\ Len(list) <= made
    BY DEF IInv, ListInv
  <2>2. Len(list) <= made'
    BY <1>2, <2>1, LenProperties
  <2>3. kind \in Stored \cup {"releases", "diff"} /\ filter \in {"", "new"}
    BY DEF IInv, ListInv
  <2>4. QED
    BY <2>1, <2>2, <2>3, Zenon DEF ListInv, DistinctIds
<1>9. Shown' = Shown /\ Walking' = Walking /\ Tied' = Tied
  BY ShownStays DEF Walking, Tied, ByTime
<1>10. WalkInv' /\ NothingTwice' /\ NothingMissed' /\ WalkSucceeds'
  BY <1>9 DEF IInv, WalkInv, NothingTwice, NothingMissed, WalkSucceeds
<1>11. SeenInv'
  BY <1>9 DEF IInv, SeenInv, Covered, Passed, Counted, Before
<1>12. QED
  BY <1>7, <1>8, <1>10, <1>11 DEF IInv

(* A request that is as far as a request may be.                           *)
Sound(q) == q \in Requests /\ FoundInv(q) /\ GotInv(q) /\ QuietInv(q)

(***************************************************************************)
(* A request moves on, or ends.                                            *)
(***************************************************************************)
LEMMA RequestMoves ==
  ASSUME IInv, NEW r \in Readers, NEW q, q = None \/ Sound(q), kind = "releases",
         Go(r, q), RequestStep, PageInv'
  PROVE  IInv'
<1>1. UNCHANGED <<store, kind, filter, list, made, walk, helm, up, texts>> /\ req' = [req EXCEPT ![r] = q]
  BY DEF Go, RequestStep
<1>2. made' \in 0 .. MaxItems /\ made <= made'
  BY <1>1, ItemsAssumption DEF IInv, TypeOK
<1>3. req \in [Readers -> {None} \cup Requests] /\ helm \subseteq Revisions /\ up \subseteq Clusters
  BY DEF IInv, TypeOK
<1>4. (helm \subseteq Revisions /\ up \subseteq Clusters /\ req \in [Readers -> {None} \cup Requests])'
  BY <1>1, <1>3 DEF Sound
<1>5. DiffInv'
  BY <1>1 DEF DiffInv
<1>6. HelmInv'
  BY <1>1 DEF IInv, HelmInv, OwnIds
<1>7. ReqInv'
  <2> SUFFICES ASSUME NEW s \in Readers, req'[s] # None
               PROVE  kind' = "releases" /\ FoundInv(req[s])' /\ GotInv(req[s])' /\ QuietInv(req[s])'
    BY DEF ReqInv
  <2>1. FoundInv(req'[s]) /\ GotInv(req'[s]) /\ QuietInv(req'[s])
    <3>1. CASE s = r
      BY <1>1, <1>3, <3>1 DEF Sound
    <3>2. CASE s # r
      <4>1. req'[s] = req[s]
        BY <1>1, <1>3, <3>2
      <4>2. QED
        BY <4>1 DEF IInv, ReqInv
    <3>3. QED
      BY <3>1, <3>2
  <2>2. FoundInv(req[s])'
    BY <1>1, <2>1 DEF FoundInv, OwnIds
  <2>3. GotInv(req[s])'
    BY <2>1 DEF GotInv
  <2>4. QuietInv(req[s])'
    BY <1>1, <2>1 DEF QuietInv, Asked, Live, filterReleases
  <2>5. QED
    BY <1>1, <2>2, <2>3, <2>4
<1>8. QED
  BY <1>1, <1>2, <1>4, <1>5, <1>6, <1>7, QuietStep

-----------------------------------------------------------------------------
(***************************************************************************)
(* A request under way.                                                    *)
(***************************************************************************)
LEMMA UnderWay ==
  ASSUME IInv, NEW r \in Readers, req[r] # None
  PROVE  Sound(req[r]) /\ kind = "releases"
BY DEF IInv, TypeOK, ReqInv, Sound

(***************************************************************************)
(* Its next stage, when it has nothing yet, or keeps what it has.          *)
(***************************************************************************)
LEMMA GoesOn ==
  ASSUME IInv, NEW r \in Readers, req[r] # None, Head(req[r].todo) \in {"live", "redis", "redis set"},
         Head(req[r].todo) = "live" => req[r].left = {} /\ req[r].found = {}
  PROVE  Sound([req[r] EXCEPT !.todo = Tail(req[r].todo)])
<1> DEFINE o == req[r]
           q == [o EXCEPT !.todo = Tail(o.todo)]
<1>1. o \in Requests /\ FoundInv(o) /\ GotInv(o) /\ QuietInv(o)
  BY UnderWay DEF Sound
<1>2. o.todo \in Stages
  BY <1>1 DEF FoundInv
<1>3. /\ Tail(o.todo) \in Stages
      /\ Tail(o.todo) \in Seq({"live", "redis", "store", "redis set", "mem"})
      /\ Head(o.todo) = "live" => Head(Tail(o.todo)) = "redis"
      /\ Head(o.todo) = "redis" => Head(Tail(o.todo)) = "store"
      /\ Head(o.todo) = "redis set" => Head(Tail(o.todo)) = "mem"
  BY <1>2, NextStage
<1> HIDE DEF o
<1>4. /\ q \in Requests /\ q.todo = Tail(o.todo) /\ q.page = o.page /\ q.left = o.left
      /\ q.found = o.found /\ q.got = o.got /\ q.quiet = o.quiet
  BY <1>1, <1>3 DEF Requests
<1> HIDE DEF q
<1>5. FoundInv(q)
  BY <1>1, <1>3, <1>4 DEF FoundInv
<1>6. GotInv(q)
  BY <1>1, <1>3, <1>4 DEF GotInv, o
<1>7. QuietInv(q)
  <2>1. o.quiet => helm = {} /\ up = Clusters
    <3>1. ASSUME o.quiet, Head(o.todo) = "live" PROVE helm = {}
      <4>1. o.found = Asked(o.left) /\ o.left = {} /\ o.found = {}
        BY <1>1, <3>1 DEF QuietInv, o
      <4>2. QED
        BY <4>1, AskedReleases
    <3>2. QED
      BY <1>1, <3>1 DEF QuietInv, o
  <2>2. Head(q.todo) \in {"redis", "store", "mem"}
    BY <1>3, <1>4 DEF o
  <2>3. QED
    BY <1>4, <2>1, <2>2 DEF QuietInv
<1>8. QED
  BY <1>4, <1>5, <1>6, <1>7 DEF Sound, q, o

(***************************************************************************)
(* It has its page.                                                        *)
(***************************************************************************)
LEMMA HasPage ==
  ASSUME IInv, NEW r \in Readers, req[r] # None, NEW page \in GoodPages,
         NEW todo \in {<<"mem">>, <<"redis set", "mem">>},
         req[r].quiet => \/ helm = {}
                         \/ todo = <<"mem">> /\ page = Live(Asked({}), req[r].page)
  PROVE  Sound([req[r] EXCEPT !.got = page, !.todo = todo])
<1> DEFINE o == req[r]
           q == [o EXCEPT !.got = page, !.todo = todo]
<1>1. o \in Requests /\ FoundInv(o) /\ QuietInv(o)
  BY UnderWay DEF Sound
<1>2. /\ todo \in Stages
      /\ todo = <<"mem">> => Head(todo) = "mem"
      /\ todo = <<"redis set", "mem">> => Head(todo) = "redis set"
  <2>1. todo \in Stages
    BY Zenon DEF Stages
  <2>2. Head(<<"mem">>) = "mem"
    BY Heads, Zenon
  <2>3. Head(<<"redis set", "mem">>) = "redis set"
    BY Heads, Zenon
  <2>4. QED
    BY <2>1, <2>2, <2>3
<1>3. page \in ReleasePages /\ todo \in Seq({"live", "redis", "store", "redis set", "mem"})
  BY <1>2, GoodItems, NextStage
<1> HIDE DEF o
<1>4. /\ q \in Requests /\ q.todo = todo /\ q.page = o.page /\ q.left = o.left
      /\ q.found = o.found /\ q.got = page /\ q.quiet = o.quiet
  BY <1>1, <1>3 DEF Requests
<1> HIDE DEF q
<1>5. FoundInv(q)
  BY <1>1, <1>2, <1>4 DEF FoundInv
<1>6. GotInv(q)
  BY <1>4 DEF GotInv
<1>7. QuietInv(q)
  <2>1. o.quiet => up = Clusters
    BY <1>1 DEF QuietInv
  <2>2. o.quiet => helm = {} \/ (Head(todo) = "mem" /\ page = Live(Asked({}), o.page))
    BY <1>2 DEF o
  <2>3. Head(todo) \in {"mem", "redis set"}
    BY <1>2
  <2>4. QED
    BY <1>4, <2>1, <2>2, <2>3 DEF QuietInv
<1>8. QED
  BY <1>4, <1>5, <1>6, <1>7 DEF Sound, q, o

(***************************************************************************)
(* A request arrives.                                                      *)
(***************************************************************************)
LEMMA ListStep ==
  ASSUME IInv, NEW r \in Readers, NEW p \in PageNos, listReleasesHandler(r, p)
  PROVE  IInv'
<1>1. kind = "releases" /\ req[r] = None /\ RequestStep /\ UNCHANGED <<kind, mem, redis>>
  BY DEF listReleasesHandler, RequestStep
<1>2. /\ mem \in [PageNos -> {None} \cup GoodPages] /\ redis \in [PageNos -> {None} \cup GoodPages]
      /\ answer # None => answer \in GoodPages
  BY <1>1 DEF IInv, PageInv
<1>3. CASE mem[p] # None
  <2>1. answer' = mem[p] /\ req' = req
    BY <1>3 DEF listReleasesHandler
  <2>2. PageInv'
    BY <1>1, <1>2, <1>3, <2>1 DEF PageInv
  <2>3. Go(r, None)
    <3>1. req \in [Readers -> {None} \cup Requests]
      BY DEF IInv, TypeOK
    <3>2. QED
      BY <1>1, <2>1, <3>1 DEF Go
  <2>4. QED
    BY <1>1, <2>2, <2>3, RequestMoves
<1>4. CASE mem[p] = None
  <2> DEFINE q == [page |-> p, todo |-> ListReleases, left |-> Clusters, found |-> {},
                   got |-> None, quiet |-> up = Clusters]
  <2>1. Go(r, q) /\ answer' = answer
    BY <1>4 DEF listReleasesHandler
  <2>2. PageInv'
    BY <1>1, <1>2, <2>1 DEF PageInv
  <2>3. /\ q.page = p /\ q.todo = <<"live", "redis", "store">> /\ q.left = Clusters /\ q.found = {}
        /\ q.got = None /\ (q.quiet => up = Clusters)
    BY DEF ListReleases
  <2>4. q.todo \in Stages /\ Head(q.todo) = "live"
    <3>1. <<"live", "redis", "store">> \in Stages
      BY Zenon DEF Stages
    <3>2. Head(<<"live", "redis", "store">>) = "live"
      BY Heads, Zenon
    <3>3. QED
      BY <2>3, <3>1, <3>2
  <2>5. q \in Requests
    <3>1. ListReleases \in Seq({"live", "redis", "store", "redis set", "mem"})
      BY <2>3, <2>4, NextStage
    <3>2. QED
      BY <3>1 DEF Requests
  <2> HIDE DEF q
  <2>6. FoundInv(q)
    BY <2>3, <2>4, FS_EmptySet DEF FoundInv, OwnIds
  <2>7. GotInv(q)
    BY <2>4 DEF GotInv
  <2>8. QuietInv(q)
    BY <2>3, <2>4, AskedReleases DEF QuietInv
  <2>9. QED
    BY <1>1, <2>1, <2>2, <2>5, <2>6, <2>7, <2>8, RequestMoves DEF Sound
<1>5. QED
  BY <1>3, <1>4

(***************************************************************************)
(* A cluster is asked.                                                     *)
(***************************************************************************)
LEMMA FetchStep ==
  ASSUME IInv, NEW r \in Readers, NEW c \in Clusters, fetchLiveReleases(r, c)
  PROVE  IInv'
<1> DEFINE o == req[r]
           new == IF c \in up THEN HelmListReleases(c) ELSE {}
           q == [o EXCEPT !.left = o.left \ {c}, !.found = o.found \cup new]
<1>1. /\ req[r] # None /\ Head(o.todo) = "live" /\ c \in o.left /\ Go(r, q) /\ RequestStep
      /\ UNCHANGED <<mem, redis, answer>>
  BY DEF fetchLiveReleases, Doing
<1>2. o \in Requests /\ FoundInv(o) /\ QuietInv(o) /\ kind = "releases"
  BY <1>1, UnderWay DEF Sound
<1>3. PageInv'
  BY <1>1 DEF IInv, PageInv, RequestStep
<1>4. /\ IsFiniteSet(new) /\ new \subseteq LiveGood /\ OwnIds(new) /\ \A y \in new : y.id <= made
      /\ \A x \in helm, y \in new : x.id = y.id => y = helmReleaseToType(x)
      /\ \A y \in new : \E x \in helm : y = helmReleaseToType(x)
  <2> DEFINE V == {y \in helm : y.group = c}
  <2>1. V \in SUBSET helm /\ HelmListReleases(c) = {helmReleaseToType(x) : x \in V}
    BY DEF HelmListReleases
  <2> HIDE DEF V
  <2>2. /\ IsFiniteSet(HelmListReleases(c)) /\ HelmListReleases(c) \subseteq LiveGood
        /\ OwnIds(HelmListReleases(c)) /\ \A y \in HelmListReleases(c) : y.id <= made
        /\ \A x \in helm, y \in HelmListReleases(c) : x.id = y.id => y = helmReleaseToType(x)
    BY <2>1, LiveImage
  <2>3. \A y \in HelmListReleases(c) : \E x \in helm : y = helmReleaseToType(x)
    BY <2>1
  <2>4. CASE c \in up
    BY <2>2, <2>3, <2>4
  <2>5. CASE c \notin up
    BY <2>5, FS_EmptySet DEF OwnIds
  <2>6. QED
    BY <2>4, <2>5
<1> HIDE DEF new, o
<1>5. \A x \in Revisions : helmReleaseToType(x).id = x.id
  BY LiveIsGood
<1>6. helm \subseteq Revisions
  BY DEF IInv, TypeOK
<1>7. LiveGood \subseteq Releases
  BY LiveIsGood DEF LiveGood
<1>8. /\ q \in Requests /\ q.todo = o.todo /\ q.page = o.page /\ q.left = o.left \ {c}
      /\ q.found = o.found \cup new /\ q.got = o.got /\ q.quiet = o.quiet
  BY <1>2, <1>4, <1>7 DEF Requests
<1> HIDE DEF q
<1>9. FoundInv(q)
  <2>1. /\ o.todo \in Stages /\ o.found \subseteq LiveGood
        /\ IsFiniteSet(o.found) /\ OwnIds(o.found) /\ \A y \in o.found : y.id <= made
        /\ \A x \in helm, y \in o.found : x.id = y.id => y = helmReleaseToType(x)
    BY <1>2 DEF FoundInv
  <2>2. IsFiniteSet(q.found)
    <3>1. IsFiniteSet(o.found \cup new)
      BY <1>4, <2>1, FS_Union
    <3>2. QED
      BY <1>8, <3>1
  <2>3. OwnIds(q.found)
    <3>1. \A x \in o.found, y \in new : x.id = y.id => x = y
      BY <1>4, <1>5, <1>6, <2>1
    <3>2. QED
      BY <1>4, <1>8, <2>1, <3>1 DEF OwnIds
  <2>4. \A x \in helm, y \in q.found : x.id = y.id => y = helmReleaseToType(x)
    BY <1>4, <1>8, <2>1
  <2>5. \A y \in q.found : y.id <= made
    BY <1>4, <1>8, <2>1
  <2>6. QED
    BY <1>4, <1>8, <2>1, <2>2, <2>3, <2>4, <2>5 DEF FoundInv
<1>10. GotInv(q)
  BY <1>1, <1>8 DEF GotInv
<1>11. QuietInv(q)
  <2> SUFFICES ASSUME q.quiet PROVE up = Clusters /\ q.found = Asked(q.left)
    BY <1>1, <1>8 DEF QuietInv
  <2>1. up = Clusters /\ o.found = Asked(o.left)
    BY <1>1, <1>2, <1>8 DEF QuietInv
  <2>2. new = HelmListReleases(c)
    BY <2>1 DEF new
  <2>3. o.left \in SUBSET Clusters
    BY <1>2 DEF Requests
  <2>4. Asked(o.left \ {c}) = Asked(o.left) \cup HelmListReleases(c)
    BY <1>1, <2>3, AskedReleases
  <2>5. QED
    BY <1>8, <2>1, <2>2, <2>4
<1>12. Sound(q)
  BY <1>8, <1>9, <1>10, <1>11 DEF Sound
<1>13. Go(r, q)
  BY <1>1 DEF q, new, o
<1>14. QED
  BY <1>1, <1>2, <1>3, <1>12, <1>13, RequestMoves

(***************************************************************************)
(* All clusters have been asked.                                           *)
(***************************************************************************)
LEMMA FetchedStep ==
  ASSUME IInv, NEW r \in Readers, Fetched(r)
  PROVE  IInv'
<1> DEFINE o == req[r]
           q == IF o.found = {} THEN [o EXCEPT !.todo = Tail(o.todo)]
                ELSE [o EXCEPT !.got = Live(o.found, o.page), !.todo = <<"mem">>]
<1>1. /\ req[r] # None /\ Head(o.todo) = "live" /\ o.left = {} /\ Go(r, q) /\ RequestStep
      /\ UNCHANGED <<mem, redis, answer>>
  BY DEF Fetched, Doing, Missed, Got
<1>2. o \in Requests /\ FoundInv(o) /\ QuietInv(o) /\ kind = "releases"
  BY <1>1, UnderWay DEF Sound
<1>3. PageInv'
  BY <1>1 DEF IInv, PageInv, RequestStep
<1>4. Sound(q)
  <2>1. CASE o.found = {}
    <3>1. Sound([req[r] EXCEPT !.todo = Tail(req[r].todo)])
      BY <1>1, <2>1, GoesOn
    <3>2. QED
      BY <2>1, <3>1
  <2>2. CASE o.found # {}
    <3> DEFINE page == Live(o.found, o.page)
    <3>1. page \in GoodPages
      <4>1. IsFiniteSet(o.found) /\ o.found \subseteq LiveGood /\ OwnIds(o.found) /\ o.page \in PageNos
        BY <1>2 DEF FoundInv, Requests
      <4>2. QED
        BY <4>1, LivePage
    <3>2. o.quiet => page = Live(Asked({}), o.page)
      BY <1>1, <1>2 DEF QuietInv
    <3> HIDE DEF page
    <3>3. Sound([req[r] EXCEPT !.got = page, !.todo = <<"mem">>])
      BY <1>1, <3>1, <3>2, HasPage
    <3>4. QED
      BY <2>2, <3>3 DEF page
  <2>3. QED
    BY <2>1, <2>2
<1> HIDE DEF q
<1>5. QED
  BY <1>1, <1>2, <1>3, <1>4, RequestMoves

(***************************************************************************)
(* Redis is asked.                                                         *)
(***************************************************************************)
LEMMA RedisGetStep ==
  ASSUME IInv, NEW r \in Readers, RedisGet(r)
  PROVE  IInv'
<1> DEFINE o == req[r]
           page == redis[o.page]
<1>1. /\ req[r] # None /\ Head(o.todo) = "redis" /\ RequestStep /\ UNCHANGED <<mem, redis, answer>>
      /\ \/ page # None /\ Go(r, [o EXCEPT !.got = page, !.todo = <<"mem">>])
         \/ Go(r, [o EXCEPT !.todo = Tail(o.todo)])
  BY DEF RedisGet, Doing, Missed, Got
<1>2. o \in Requests /\ QuietInv(o) /\ kind = "releases"
  BY <1>1, UnderWay DEF Sound
<1>3. PageInv'
  BY <1>1 DEF IInv, PageInv, RequestStep
<1>4. Sound([o EXCEPT !.todo = Tail(o.todo)])
  BY <1>1, GoesOn
<1>5. page # None => Sound([o EXCEPT !.got = page, !.todo = <<"mem">>])
  <2> SUFFICES ASSUME page # None PROVE Sound([o EXCEPT !.got = page, !.todo = <<"mem">>])
    OBVIOUS
  <2>1. page \in GoodPages
    <3>1. o.page \in PageNos /\ redis \in [PageNos -> {None} \cup GoodPages]
      BY <1>2 DEF Requests, IInv, PageInv
    <3>2. QED
      BY <3>1
  <2>2. o.quiet => helm = {}
    BY <1>1, <1>2 DEF QuietInv
  <2> HIDE DEF page
  <2>3. QED
    BY <1>1, <2>1, <2>2, HasPage
<1> HIDE DEF page
<1>6. QED
  BY <1>1, <1>2, <1>3, <1>4, <1>5, RequestMoves

(***************************************************************************)
(* Postgres is asked.                                                      *)
(***************************************************************************)
LEMMA StoreReadStep ==
  ASSUME IInv, NEW r \in Readers, StoreRead(r)
  PROVE  IInv'
<1> DEFINE o == req[r]
<1>1. /\ req[r] # None /\ Head(o.todo) = "store" /\ RequestStep /\ UNCHANGED <<mem, redis, answer>>
      /\ \/ \E page \in PgListReleases(o.page) :
              Go(r, [o EXCEPT !.got = page, !.todo = <<"redis set", "mem">>])
         \/ Go(r, None)
  BY DEF StoreRead, Doing, Got
<1>2. o \in Requests /\ QuietInv(o) /\ kind = "releases"
  BY <1>1, UnderWay DEF Sound
<1>3. PageInv'
  BY <1>1 DEF IInv, PageInv, RequestStep
<1>4. ASSUME NEW page \in PgListReleases(o.page)
      PROVE  Sound([o EXCEPT !.got = page, !.todo = <<"redis set", "mem">>])
  <2>1. page \in GoodPages
    <3>1. o.page \in PageNos
      BY <1>2 DEF Requests
    <3>2. QED
      BY <3>1, StoredPage
  <2>2. o.quiet => helm = {}
    BY <1>1, <1>2 DEF QuietInv
  <2>3. QED
    BY <1>1, <2>1, <2>2, HasPage
<1>5. QED
  BY <1>1, <1>2, <1>3, <1>4, RequestMoves

(***************************************************************************)
(* The page goes to Redis.                                                 *)
(***************************************************************************)
LEMMA RedisSetStep ==
  ASSUME IInv, NEW r \in Readers, RedisSet(r)
  PROVE  IInv'
<1> DEFINE o == req[r]
<1>1. /\ req[r] # None /\ Head(o.todo) = "redis set" /\ RequestStep /\ UNCHANGED <<mem, answer>>
      /\ redis' = redis \/ redis' = [redis EXCEPT ![o.page] = o.got]
      /\ Go(r, [o EXCEPT !.todo = Tail(o.todo)])
  BY DEF RedisSet, Doing, Missed
<1>2. o \in Requests /\ GotInv(o) /\ kind = "releases"
  BY <1>1, UnderWay DEF Sound
<1>3. o.page \in PageNos /\ o.got \in GoodPages
  BY <1>1, <1>2 DEF Requests, GotInv
<1>4. Sound([o EXCEPT !.todo = Tail(o.todo)])
  BY <1>1, GoesOn
<1>5. PageInv'
  <2>1. /\ mem \in [PageNos -> {None} \cup GoodPages] /\ redis \in [PageNos -> {None} \cup GoodPages]
        /\ answer # None => answer \in GoodPages
    BY <1>2 DEF IInv, PageInv
  <2> HIDE DEF o
  <2>2. redis' \in [PageNos -> {None} \cup GoodPages]
    BY <1>1, <1>3, <2>1
  <2>3. QED
    BY <1>1, <2>1, <2>2 DEF PageInv
<1>6. QED
  BY <1>1, <1>2, <1>4, <1>5, RequestMoves

(***************************************************************************)
(* The page goes to the memory and to the client.                          *)
(***************************************************************************)
LEMMA MemSetStep ==
  ASSUME IInv, NEW r \in Readers, MemSet(r)
  PROVE  IInv'
<1> DEFINE o == req[r]
<1>1. /\ req[r] # None /\ Head(o.todo) = "mem" /\ RequestStep /\ redis' = redis
      /\ mem' = [mem EXCEPT ![o.page] = o.got] /\ answer' = o.got /\ Go(r, None)
  BY DEF MemSet, Doing
<1>2. o \in Requests /\ GotInv(o) /\ kind = "releases"
  BY <1>1, UnderWay DEF Sound
<1>3. o.page \in PageNos /\ o.got \in GoodPages
  BY <1>1, <1>2 DEF Requests, GotInv
<1>4. PageInv'
  <2>1. mem \in [PageNos -> {None} \cup GoodPages] /\ redis \in [PageNos -> {None} \cup GoodPages]
    BY DEF IInv, PageInv
  <2> HIDE DEF o
  <2>2. mem' \in [PageNos -> {None} \cup GoodPages]
    BY <1>1, <1>3, <2>1
  <2>3. QED
    BY <1>1, <1>3, <2>1, <2>2 DEF PageInv
<1>5. QED
  BY <1>1, <1>2, <1>4, RequestMoves

(***************************************************************************)
(* A cached page expires.                                                  *)
(***************************************************************************)
LEMMA ExpireStep ==
  ASSUME IInv, NEW p \in PageNos, Expire(p)
  PROVE  IInv'
<1>1. UNCHANGED <<store, kind, filter, list, made, walk, helm, up, req, texts, answer>>
  BY DEF Expire
<1>2. /\ mem \in [PageNos -> {None} \cup GoodPages] /\ redis \in [PageNos -> {None} \cup GoodPages]
      /\ kind = "releases" /\ answer # None => answer \in GoodPages
  BY DEF IInv, PageInv
<1>3. mem' \in [PageNos -> {None} \cup GoodPages] /\ redis' \in [PageNos -> {None} \cup GoodPages]
  <2>1. \/ mem' = [mem EXCEPT ![p] = None] /\ redis' = redis
        \/ redis' = [redis EXCEPT ![p] = None] /\ mem' = mem
    BY DEF Expire
  <2>2. QED
    BY <1>2, <2>1
<1>4. PageInv'
  BY <1>1, <1>2, <1>3 DEF PageInv
<1>5. DiffInv'
  BY <1>1 DEF IInv, DiffInv
<1>6. made' \in 0 .. MaxItems /\ made <= made'
  BY <1>1, ItemsAssumption DEF IInv, TypeOK
<1>7. (helm \subseteq Revisions /\ up \subseteq Clusters /\ req \in [Readers -> {None} \cup Requests])'
  BY <1>1 DEF IInv, TypeOK
<1>8. HelmInv'
  BY <1>1 DEF IInv, HelmInv, OwnIds
<1>9. ReqInv'
  <2> SUFFICES ASSUME NEW r \in Readers, req[r] # None
               PROVE  /\ kind = "releases"
                      /\ FoundInv(req[r])' /\ GotInv(req[r])' /\ QuietInv(req[r])'
    BY <1>1 DEF ReqInv
  <2>1. kind = "releases" /\ FoundInv(req[r]) /\ GotInv(req[r]) /\ QuietInv(req[r])
    BY DEF IInv, ReqInv
  <2>2. FoundInv(req[r])'
    BY <1>1, <2>1 DEF FoundInv, OwnIds
  <2>3. GotInv(req[r])'
    BY <1>1, <2>1 DEF GotInv
  <2>4. QuietInv(req[r])'
    BY <1>1, <2>1 DEF QuietInv, Asked, Live, filterReleases
  <2>5. QED
    BY <2>1, <2>2, <2>3, <2>4
<1>10. QED
  BY <1>1, <1>4, <1>5, <1>6, <1>7, <1>8, <1>9, QuietStep
-----------------------------------------------------------------------------
(***************************************************************************)
(* The clusters change, and no request is quiet.                           *)
(***************************************************************************)
LEMMA Disturbed ==
  ASSUME IInv, Disturb, helm' \subseteq Revisions, up' \subseteq Clusters,
         made' \in 0 .. MaxItems, made <= made', HelmInv',
         \A r \in Readers : req[r] # None =>
           \A x \in helm', y \in req[r].found : x.id = y.id => y = helmReleaseToType(x)
  PROVE  IInv'
<1>1. /\ UNCHANGED <<store, kind, filter, list, walk, mem, redis, texts, answer>>
      /\ req' = [r \in Readers |-> IF req[r] = None THEN None ELSE [req[r] EXCEPT !.quiet = FALSE]]
  BY DEF Disturb
<1>2. PageInv' /\ DiffInv'
  BY <1>1 DEF IInv, PageInv, DiffInv
<1>3. made \in Int /\ made' \in Int
  BY ItemsAssumption DEF IInv, TypeOK
<1>4. ASSUME NEW r \in Readers, req'[r] # None
      PROVE  req'[r] \in Requests /\ kind = "releases" /\ FoundInv(req[r])' /\ GotInv(req[r])' /\ QuietInv(req[r])'
  <2> DEFINE o == req[r]
             q == [o EXCEPT !.quiet = FALSE]
  <2>1. o # None /\ req'[r] = q
    BY <1>1, <1>4
  <2>2. o \in Requests /\ FoundInv(o) /\ GotInv(o) /\ kind = "releases"
    BY <2>1, UnderWay DEF Sound
  <2>3. \A x \in helm', y \in o.found : x.id = y.id => y = helmReleaseToType(x)
    BY <2>1
  <2> HIDE DEF o
  <2>4. /\ q \in Requests /\ q.todo = o.todo /\ q.found = o.found /\ q.got = o.got /\ q.quiet = FALSE
    BY <2>2 DEF Requests
  <2> HIDE DEF q
  <2>5. \A y \in o.found : y.id <= made'
    <3>1. \A y \in o.found : y.id \in Int
      <4>1. \A y \in LiveGood : y.id \in Int
        BY LiveIsGood DEF LiveGood
      <4>2. QED
        BY <2>2, <4>1 DEF FoundInv
    <3>2. QED
      BY <1>3, <2>2, <3>1 DEF FoundInv
  <2>6. FoundInv(req[r])'
    BY <2>1, <2>2, <2>3, <2>4, <2>5 DEF FoundInv, OwnIds
  <2>7. GotInv(req[r])'
    BY <2>1, <2>2, <2>4 DEF GotInv
  <2>8. QuietInv(req[r])'
    BY <2>1, <2>4 DEF QuietInv
  <2>9. QED
    BY <2>1, <2>2, <2>4, <2>6, <2>7, <2>8
<1>5. ReqInv'
  BY <1>1, <1>4 DEF ReqInv
<1>6. req' \in [Readers -> {None} \cup Requests]
  <2>1. \A r \in Readers : req'[r] \in {None} \cup Requests
    BY <1>4
  <2>2. req' = [r \in Readers |-> req'[r]]
    BY <1>1
  <2>3. QED
    BY <2>1, <2>2
<1>7. (helm \subseteq Revisions /\ up \subseteq Clusters /\ req \in [Readers -> {None} \cup Requests])'
  BY <1>6
<1>8. QED
  BY <1>1, <1>2, <1>5, <1>7, QuietStep

(***************************************************************************)
(* Helm installs or upgrades.                                              *)
(***************************************************************************)
LEMMA DeployStep ==
  ASSUME IInv, NEW c \in Clusters, NEW t \in Tags, NEW n \in Names, Deploy(c, t, n)
  PROVE  IInv'
<1> DEFINE z == [id |-> made + 1, group |-> c, tag |-> t, name |-> n]
<1>1. made < MaxReleases /\ made' = made + 1 /\ helm' = helm \cup {z} /\ Disturb /\ up' = up
  BY DEF Deploy
<1>2. /\ made \in 0 .. MaxItems /\ MaxItems \in Nat /\ MaxReleases \in 0 .. MaxItems
      /\ helm \subseteq Revisions /\ up \subseteq Clusters
      /\ IsFiniteSet(helm) /\ OwnIds(helm) /\ \A x \in helm : x.id <= made
  BY ItemsAssumption DEF IInv, TypeOK, HelmInv
<1>3. made + 1 \in 1 .. MaxItems /\ made' \in 0 .. MaxItems /\ made <= made' /\ made \in Int
  BY <1>1, <1>2
<1>4. z \in Revisions /\ z.id = made + 1
  BY <1>3 DEF Revisions
<1> HIDE DEF z
<1>5. \A x \in helm : x.id \in Int /\ x.id < z.id /\ x.id <= made'
  <2>1. \A x \in helm : x.id \in Int
    BY <1>2 DEF Revisions
  <2>2. QED
    BY <1>1, <1>2, <1>3, <1>4, <2>1
<1>6. HelmInv'
  <2>1. IsFiniteSet(helm \cup {z})
    BY <1>2, FS_AddElement
  <2>2. OwnIds(helm \cup {z})
    BY <1>2, <1>5 DEF OwnIds
  <2>3. z.id <= made'
    BY <1>1, <1>3, <1>4
  <2>4. QED
    BY <1>1, <1>5, <2>1, <2>2, <2>3 DEF HelmInv, OwnIds
<1>7. ASSUME NEW r \in Readers, req[r] # None, NEW x \in helm', NEW y \in req[r].found, x.id = y.id
      PROVE  y = helmReleaseToType(x)
  <2>1. FoundInv(req[r])
    BY <1>7, UnderWay DEF Sound
  <2>2. y.id <= made
    BY <2>1 DEF FoundInv
  <2>3. x # z
    BY <1>3, <1>4, <1>7, <2>2
  <2>4. x \in helm
    BY <1>1, <2>3
  <2>5. QED
    BY <1>7, <2>1, <2>4 DEF FoundInv
<1>8. helm' \subseteq Revisions /\ up' \subseteq Clusters
  BY <1>1, <1>2, <1>4
<1>9. QED
  BY <1>1, <1>3, <1>6, <1>7, <1>8, Disturbed

(***************************************************************************)
(* Helm removes the record of a revision, or a cluster goes away or comes  *)
(* back.                                                                   *)
(***************************************************************************)
LEMMA ClusterStep ==
  ASSUME IInv, Disturb, made' = made, helm' \subseteq helm, up' \subseteq Clusters
  PROVE  IInv'
<1>1. /\ made \in 0 .. MaxItems /\ made <= made
      /\ helm \subseteq Revisions
      /\ IsFiniteSet(helm) /\ OwnIds(helm) /\ \A x \in helm : x.id <= made
  BY ItemsAssumption DEF IInv, TypeOK, HelmInv
<1>2. HelmInv'
  <2>1. IsFiniteSet(helm')
    BY <1>1, FS_Subset
  <2>2. OwnIds(helm')
    BY <1>1 DEF OwnIds
  <2>3. QED
    BY <1>1, <2>1, <2>2 DEF HelmInv, OwnIds
<1>3. ASSUME NEW r \in Readers, req[r] # None, NEW x \in helm', NEW y \in req[r].found, x.id = y.id
      PROVE  y = helmReleaseToType(x)
  <2>1. FoundInv(req[r])
    BY <1>3, UnderWay DEF Sound
  <2>2. QED
    BY <1>3, <2>1 DEF FoundInv
<1>4. QED
  BY <1>1, <1>2, <1>3, Disturbed

(***************************************************************************)
(* A diff, or no step at all.                                              *)
(***************************************************************************)
LEMMA DiffStep ==
  ASSUME IInv, UNCHANGED <<store, kind, filter, list, made, walk, releaseVars, texts>>,
         answer' = answer \/ (kind = "diff" /\ answer' = lineDiff(texts[1], texts[2]))
  PROVE  IInv'
<1>1. UNCHANGED <<store, kind, filter, list, made, walk, helm, up, req, mem, redis, texts>>
  BY DEF releaseVars
<1>2. /\ mem \in [PageNos -> {None} \cup GoodPages] /\ redis \in [PageNos -> {None} \cup GoodPages]
      /\ kind = "releases" /\ answer # None => answer \in GoodPages
  BY DEF IInv, PageInv
<1>3. PageInv'
  <2>1. kind = "releases" /\ answer' # None => answer' \in GoodPages
    BY <1>2
  <2>2. QED
    BY <1>1, <1>2, <2>1 DEF PageInv
<1>4. DiffInv'
  <2> SUFFICES ASSUME kind = "diff"
               PROVE  /\ texts \in Manifests \X Manifests
                      /\ answer' = None \/ answer' = lineDiff(texts[1], texts[2])
    BY <1>1, Zenon DEF DiffInv
  <2>1. /\ texts \in Manifests \X Manifests
        /\ answer = None \/ answer = lineDiff(texts[1], texts[2])
    BY Zenon DEF IInv, DiffInv
  <2>2. QED
    BY <2>1, Zenon
<1>5. made' \in 0 .. MaxItems /\ made <= made'
  BY <1>1, ItemsAssumption DEF IInv, TypeOK
<1>6. (helm \subseteq Revisions /\ up \subseteq Clusters /\ req \in [Readers -> {None} \cup Requests])'
  BY <1>1 DEF IInv, TypeOK
<1>7. HelmInv'
  BY <1>1 DEF IInv, HelmInv, OwnIds
<1>8. ReqInv'
  <2> SUFFICES ASSUME NEW r \in Readers, req[r] # None
               PROVE  /\ kind = "releases"
                      /\ FoundInv(req[r])' /\ GotInv(req[r])' /\ QuietInv(req[r])'
    BY <1>1 DEF ReqInv
  <2>1. kind = "releases" /\ FoundInv(req[r]) /\ GotInv(req[r]) /\ QuietInv(req[r])
    BY DEF IInv, ReqInv
  <2>2. FoundInv(req[r])'
    BY <1>1, <2>1 DEF FoundInv, OwnIds
  <2>3. GotInv(req[r])'
    BY <1>1, <2>1 DEF GotInv
  <2>4. QuietInv(req[r])'
    BY <1>1, <2>1 DEF QuietInv, Asked, Live, filterReleases
  <2>5. QED
    BY <2>1, <2>2, <2>3, <2>4
<1>9. QED
  BY <1>1, <1>3, <1>4, <1>5, <1>6, <1>7, <1>8, QuietStep

(***************************************************************************)
(* Every step keeps the invariant.                                         *)
(***************************************************************************)
LEMMA Preserved == IInv /\ [Next]_vars => IInv'
<1> SUFFICES ASSUME IInv, [Next]_vars PROVE IInv'
  OBVIOUS
<1>1. CASE \E l \in Limits : StartWalk(l)
  BY <1>1, StartWalkStep
<1>2. CASE MemPage
  BY <1>2, MemPageStep
<1>3. CASE PgCount
  BY <1>3, PgCountStep
<1>4. CASE PgPage
  BY <1>4, PgPageStep
<1>5. CASE PgPageFails
  BY <1>5, PgPageFailsStep
<1>6. CASE \E g \in {"mine", "other"} : Insert(g)
  BY <1>6, InsertStep
<1>7. CASE \E i \in 1 .. Len(list) : Reorder(i) \/ Resolve(i) \/ Cascade(i)
  BY <1>7, ReorderStep, ResolveStep, CascadeStep
<1>8. ASSUME NEW r \in Readers,
             \/ \E p \in PageNos : listReleasesHandler(r, p)
             \/ \E c \in Clusters : fetchLiveReleases(r, c)
             \/ Fetched(r) \/ RedisGet(r) \/ StoreRead(r) \/ RedisSet(r) \/ MemSet(r)
      PROVE  IInv'
  BY <1>8, ListStep, FetchStep, FetchedStep, RedisGetStep, StoreReadStep, RedisSetStep, MemSetStep
<1>9. CASE \E p \in PageNos : Expire(p)
  BY <1>9, ExpireStep
<1>10. CASE \E c \in Clusters : Outage(c)
  <2>1. PICK c \in Clusters : Outage(c)
    BY <1>10
  <2>2. Disturb /\ made' = made /\ helm' = helm /\ up' \subseteq Clusters
    BY <2>1 DEF Outage, IInv, TypeOK
  <2>3. QED
    BY <2>2, ClusterStep
<1>11. CASE \E c \in Clusters, t \in Tags, n \in Names : Deploy(c, t, n)
  BY <1>11, DeployStep
<1>12. CASE \E x \in helm : Forget(x)
  <2>1. Disturb /\ made' = made /\ helm' \subseteq helm /\ up' \subseteq Clusters
    BY <1>12 DEF Forget, IInv, TypeOK
  <2>2. QED
    BY <2>1, ClusterStep
<1>13. CASE Diff
  <2>1. /\ UNCHANGED <<store, kind, filter, list, made, walk, releaseVars, texts>>
        /\ kind = "diff" /\ answer' = lineDiff(texts[1], texts[2])
    BY <1>13 DEF Diff
  <2>2. QED
    BY <2>1, DiffStep
<1>14. CASE UNCHANGED vars
  <2>1. UNCHANGED <<store, kind, filter, list, made, walk, releaseVars, texts, answer>>
    BY <1>14 DEF vars
  <2>2. QED
    BY <2>1, DiffStep
<1>15. QED
  BY <1>1, <1>2, <1>3, <1>4, <1>5, <1>6, <1>7, <1>8, <1>9, <1>10, <1>11, <1>12, <1>13, <1>14
     DEF Next

(* The lines of a diff, those that are not of a type, and their contents.  *)
DiffLines   == [type : {"unchanged", "added", "removed"}, content : Lines]
Kept(type)  == {l \in DiffLines : l.type # type}
Contents(s) == [k \in 1 .. Len(s) |-> s[k].content]

(* The first n lines of a manifest, and blank lines when it is shorter.    *)
Blank     == ""
Padded(a, n) == [i \in 1 .. n |-> LineAt(a, i)]

(***************************************************************************)
(* The contents of one diff after another.                                 *)
(***************************************************************************)
LEMMA ContentsConcat ==
  ASSUME NEW s \in Seq(DiffLines), NEW t \in Seq(DiffLines)
  PROVE  Contents(s \o t) = Contents(s) \o Contents(t) /\ Contents(s) \in Seq(Lines)
<1>1. ASSUME NEW u \in Seq(DiffLines)
      PROVE  /\ Contents(u) \in Seq(Lines) /\ Len(Contents(u)) = Len(u) /\ Len(u) \in Nat
             /\ \A k \in 1 .. Len(u) : Contents(u)[k] = u[k].content
  <2>1. ASSUME NEW k \in 1 .. Len(u) PROVE u[k].content \in Lines
    <3>1. u[k] \in DiffLines
      BY ElementOfSeq
    <3>2. QED
      BY <3>1 DEF DiffLines
  <2>2. Len(u) \in Nat
    BY LenProperties
  <2>3. Contents(u) = [k \in 1 .. Len(u) |-> u[k].content]
    BY DEF Contents
  <2> DEFINE c == Contents(u)
  <2> HIDE DEF c
  <2>4. c \in [1 .. Len(u) -> Lines] /\ \A k \in 1 .. Len(u) : c[k] = u[k].content
    BY <2>1, <2>3 DEF c
  <2>5. c \in Seq(Lines) /\ Len(c) = Len(u)
    BY <2>2, <2>4
  <2>6. QED
    BY <2>2, <2>4, <2>5 DEF c
<1>2. /\ s \o t \in Seq(DiffLines) /\ Len(s \o t) = Len(s) + Len(t)
      /\ \A i \in 1 .. Len(s) + Len(t) : (s \o t)[i] = IF i <= Len(s) THEN s[i] ELSE t[i - Len(s)]
  BY ConcatProperties
<1> DEFINE c == Contents(s \o t)
           d == Contents(s)
           e == Contents(t)
<1>3. /\ d \in Seq(Lines) /\ Len(d) = Len(s) /\ Len(s) \in Nat
      /\ \A k \in 1 .. Len(s) : d[k] = s[k].content
      /\ e \in Seq(Lines) /\ Len(e) = Len(t) /\ Len(t) \in Nat
      /\ \A k \in 1 .. Len(t) : e[k] = t[k].content
  BY <1>1
<1>4. /\ c \in Seq(Lines) /\ Len(c) = Len(s) + Len(t)
      /\ \A k \in 1 .. Len(s) + Len(t) : c[k] = (s \o t)[k].content
  BY <1>1, <1>2
<1> HIDE DEF c, d, e
<1>5. /\ d \o e \in Seq(Lines) /\ Len(d \o e) = Len(s) + Len(t)
      /\ \A i \in 1 .. Len(s) + Len(t) : (d \o e)[i] = IF i <= Len(s) THEN d[i] ELSE e[i - Len(s)]
  <2>1. /\ d \o e \in Seq(Lines) /\ Len(d \o e) = Len(d) + Len(e)
        /\ \A i \in 1 .. Len(d) + Len(e) : (d \o e)[i] = IF i <= Len(d) THEN d[i] ELSE e[i - Len(d)]
    <3>1. d \in Seq(Lines) /\ e \in Seq(Lines)
      BY <1>3
    <3>2. QED
      BY <3>1, ConcatProperties
  <2>2. QED
    BY <1>3, <2>1
<1>6. ASSUME NEW i \in 1 .. Len(s) + Len(t) PROVE c[i] = (d \o e)[i]
  <2>1. CASE i <= Len(s)
    <3>1. i \in 1 .. Len(s)
      BY <1>3, <2>1
    <3>2. QED
      BY <1>2, <1>3, <1>4, <1>5, <2>1, <3>1
  <2>2. CASE ~(i <= Len(s))
    <3>1. i - Len(s) \in 1 .. Len(t)
      BY <1>3, <2>2
    <3>2. QED
      BY <1>2, <1>3, <1>4, <1>5, <2>2, <3>1
  <2>3. QED
    BY <2>1, <2>2
<1>7. c = d \o e
  BY <1>4, <1>5, <1>6, SeqEqual
<1>8. QED
  BY <1>3, <1>7 DEF c, d, e

(***************************************************************************)
(* A blank line is no line.                                                *)
(***************************************************************************)
LEMMA BlankLine ==
  /\ Blank \notin Lines
  /\ \A a, i : LineAt(a, i) = IF i <= Len(a) THEN a[i] ELSE Blank
BY LinesAssumption, Zenon DEF Blank, LineAt

(***************************************************************************)
(* The diff of one place.                                                  *)
(***************************************************************************)
LEMMA DiffAtCases ==
  ASSUME NEW a, NEW b, NEW n
  PROVE  LET u == LineAt(a, n)
             v == LineAt(b, n)
         IN  /\ u = v /\ u = Blank => DiffAt(a, b, n) = <<>>
             /\ u = v /\ u # Blank => DiffAt(a, b, n) = <<Line("unchanged", u)>>
             /\ u # v /\ u = Blank => DiffAt(a, b, n) = <<Line("added", v)>>
             /\ u # v /\ v = Blank => DiffAt(a, b, n) = <<Line("removed", u)>>
             /\ u # v /\ u # Blank /\ v # Blank =>
                  DiffAt(a, b, n) = <<Line("removed", u), Line("added", v)>>
<1> DEFINE u == LineAt(a, n)
           v == LineAt(b, n)
<1>1. DiffAt(a, b, n) = CASE u = v            -> IF u = Blank THEN <<>> ELSE <<Line("unchanged", u)>>
                          [] u # v /\ u = Blank -> <<Line("added", v)>>
                          [] u # v /\ v = Blank -> <<Line("removed", u)>>
                          [] OTHER              -> <<Line("removed", u), Line("added", v)>>
  BY Zenon DEF DiffAt, Blank
<1> HIDE DEF u, v
<1>2. u = v /\ u = Blank => DiffAt(a, b, n) = <<>>
  BY <1>1, Zenon
<1>3. u = v /\ u # Blank => DiffAt(a, b, n) = <<Line("unchanged", u)>>
  BY <1>1, Zenon
<1>4. u # v /\ u = Blank => DiffAt(a, b, n) = <<Line("added", v)>>
  BY <1>1
<1>5. u # v /\ v = Blank => DiffAt(a, b, n) = <<Line("removed", u)>>
  BY <1>1
<1>6. u # v /\ u # Blank /\ v # Blank => DiffAt(a, b, n) = <<Line("removed", u), Line("added", v)>>
  BY <1>1
<1>7. QED
  BY <1>2, <1>3, <1>4, <1>5, <1>6, Zenon DEF u, v

(***************************************************************************)
(* One line of a diff, kept or not.                                        *)
(***************************************************************************)
LEMMA OneLine ==
  ASSUME NEW y \in {"unchanged", "added", "removed"}, NEW c \in Lines, NEW w
  PROVE  /\ Line(y, c) \in DiffLines /\ <<Line(y, c)>> \in Seq(DiffLines)
         /\ Only(<<Line(y, c)>>, Kept(w)) \in Seq(DiffLines)
         /\ Contents(Only(<<Line(y, c)>>, Kept(w))) = IF y = w THEN <<>> ELSE <<c>>
<1> DEFINE l == Line(y, c)
<1>1. l \in DiffLines /\ l.type = y /\ l.content = c
  BY DEF Line, DiffLines
<1> HIDE DEF l
<1>2. <<l>> \in Seq(DiffLines)
  BY <1>1
<1>3. Only(<<l>>, Kept(w)) \in Seq(DiffLines)
  BY <1>2, OnlyKeeps
<1>4. l \in Kept(w) <=> y # w
  BY <1>1 DEF Kept
<1>5. Only(<<l>>, Kept(w)) = IF y = w THEN <<>> ELSE <<l>>
  BY <1>4, OnlyOne, Zenon
<1>6. Contents(<<>>) = <<>>
  BY DEF Contents
<1>7. Contents(<<l>>) = <<c>>
  <2>1. Len(<<l>>) = 1 /\ <<l>>[1] = l
    OBVIOUS
  <2>2. Contents(<<l>>) = [k \in 1 .. 1 |-> <<l>>[k].content]
    BY <2>1 DEF Contents
  <2>3. Contents(<<l>>) = [k \in 1 .. 1 |-> c]
    <3>1. \A k \in 1 .. 1 : <<l>>[k].content = c
      <4>1. TAKE k \in 1 .. 1
      <4>2. k = 1
        OBVIOUS
      <4>3. QED
        BY <1>1, <2>1, <4>2
    <3>2. QED
      BY <2>2, <3>1
  <2>4. [k \in 1 .. 1 |-> c] = <<c>>
    OBVIOUS
  <2>5. QED
    BY <2>3, <2>4
<1>8. Contents(Only(<<l>>, Kept(w))) = IF y = w THEN <<>> ELSE <<c>>
  BY <1>5, <1>6, <1>7, Zenon
<1>9. QED
  BY <1>1, <1>2, <1>3, <1>8 DEF l

(* The manifest that remains without the added or the removed lines.       *)
Side(w, a, b) == IF w = "added" THEN a ELSE b

(***************************************************************************)
(* A line without its change is the old line or the new one.               *)
(***************************************************************************)
LEMMA DiffAtKeeps ==
  ASSUME NEW a, NEW b, NEW n, NEW w \in {"added", "removed"},
         LineAt(a, n) \in Lines \cup {Blank}, LineAt(b, n) \in Lines \cup {Blank}
  PROVE  /\ DiffAt(a, b, n) \in Seq(DiffLines)
         /\ Contents(Only(DiffAt(a, b, n), Kept(w))) = Only(<<LineAt(Side(w, a, b), n)>>, Lines)
<1> DEFINE u == LineAt(a, n)
           v == LineAt(b, n)
           d == DiffAt(a, b, n)
           z == LineAt(Side(w, a, b), n)
<1>1. /\ u = v /\ u = Blank => d = <<>>
      /\ u = v /\ u # Blank => d = <<Line("unchanged", u)>>
      /\ u # v /\ u = Blank => d = <<Line("added", v)>>
      /\ u # v /\ v = Blank => d = <<Line("removed", u)>>
      /\ u # v /\ u # Blank /\ v # Blank => d = <<Line("removed", u), Line("added", v)>>
  BY DiffAtCases
<1>2. z = IF w = "added" THEN u ELSE v
  BY DEF Side
<1>3. u \in Lines \cup {Blank} /\ v \in Lines \cup {Blank} /\ Blank \notin Lines
  BY BlankLine
<1>4. Only(<<z>>, Lines) = IF z \in Lines THEN <<z>> ELSE <<>>
  BY OnlyOne
<1>5. /\ <<>> \in Seq(DiffLines) /\ Only(<<>>, Kept(w)) = <<>> /\ Contents(<<>>) = <<>>
  BY OnlyEmpty DEF Contents
<1> HIDE DEF u, v, d, z
<1>6. \A c \in Lines, y \in {"unchanged", "added", "removed"} :
        /\ <<Line(y, c)>> \in Seq(DiffLines)
        /\ Contents(Only(<<Line(y, c)>>, Kept(w))) = IF y = w THEN <<>> ELSE <<c>>
  BY OneLine
<1>7. CASE u = v /\ u = Blank
  <2>1. z \notin Lines /\ d = <<>>
    BY <1>1, <1>2, <1>3, <1>7
  <2>2. QED
    BY <1>4, <1>5, <2>1, Zenon DEF d, z
<1>8. CASE u = v /\ u # Blank
  <2>1. z = u /\ z \in Lines /\ d = <<Line("unchanged", u)>> /\ "unchanged" # w
    BY <1>1, <1>2, <1>3, <1>8
  <2>2. d \in Seq(DiffLines) /\ Contents(Only(d, Kept(w))) = <<z>>
    BY <1>6, <2>1
  <2>3. QED
    BY <1>4, <2>1, <2>2, Zenon DEF d, z
<1>9. CASE u # v /\ u = Blank
  <2>1. v \in Lines /\ u \notin Lines /\ d = <<Line("added", v)>>
    BY <1>1, <1>3, <1>9
  <2>2. d \in Seq(DiffLines) /\ Contents(Only(d, Kept(w))) = IF "added" = w THEN <<>> ELSE <<v>>
    BY <1>6, <2>1
  <2>3. Contents(Only(d, Kept(w))) = Only(<<z>>, Lines)
    BY <1>2, <1>4, <2>1, <2>2, Zenon
  <2>4. QED
    BY <2>2, <2>3 DEF d, z
<1>10. CASE u # v /\ v = Blank
  <2>1. u \in Lines /\ v \notin Lines /\ d = <<Line("removed", u)>>
    BY <1>1, <1>3, <1>10
  <2>2. d \in Seq(DiffLines) /\ Contents(Only(d, Kept(w))) = IF "removed" = w THEN <<>> ELSE <<u>>
    BY <1>6, <2>1
  <2>3. "removed" = w <=> w # "added"
    OBVIOUS
  <2>4. Contents(Only(d, Kept(w))) = Only(<<z>>, Lines)
    BY <1>2, <1>4, <2>1, <2>2, <2>3, Zenon
  <2>5. QED
    BY <2>2, <2>4 DEF d, z
<1>11. CASE u # v /\ u # Blank /\ v # Blank
  <2> DEFINE p == <<Line("removed", u)>>
             q == <<Line("added", v)>>
  <2>1. u \in Lines /\ v \in Lines /\ d = <<Line("removed", u), Line("added", v)>>
    BY <1>1, <1>3, <1>11
  <2>2. d = p \o q
    BY <2>1
  <2>3. /\ p \in Seq(DiffLines) /\ Contents(Only(p, Kept(w))) = IF "removed" = w THEN <<>> ELSE <<u>>
        /\ q \in Seq(DiffLines) /\ Contents(Only(q, Kept(w))) = IF "added" = w THEN <<>> ELSE <<v>>
    BY <1>6, <2>1
  <2> HIDE DEF p, q
  <2>4. d \in Seq(DiffLines)
    BY <2>2, <2>3, ConcatProperties
  <2>5. Only(d, Kept(w)) = Only(p, Kept(w)) \o Only(q, Kept(w))
    BY <2>2, <2>3, OnlyConcat
  <2>6. Only(p, Kept(w)) \in Seq(DiffLines) /\ Only(q, Kept(w)) \in Seq(DiffLines)
    BY <2>3, OnlyKeeps
  <2>7. Contents(Only(d, Kept(w))) = Contents(Only(p, Kept(w))) \o Contents(Only(q, Kept(w)))
    BY <2>5, <2>6, ContentsConcat
  <2>8. /\ <<u>> \in Seq(Lines) /\ <<v>> \in Seq(Lines)
        /\ <<u>> \o <<>> = <<u>> /\ <<>> \o <<v>> = <<v>>
    BY <2>1, ConcatEmptySeq
  <2>9. CASE w = "added"
    <3>1. Contents(Only(d, Kept(w))) = <<u>> /\ z = u
      BY <1>2, <2>3, <2>7, <2>8, <2>9
    <3>2. QED
      BY <1>4, <2>1, <2>4, <3>1, Zenon DEF d, z
  <2>10. CASE w = "removed"
    <3>1. Contents(Only(d, Kept(w))) = <<v>> /\ z = v
      BY <1>2, <2>3, <2>7, <2>8, <2>10
    <3>2. QED
      BY <1>4, <2>1, <2>4, <3>1, Zenon DEF d, z
  <2>11. QED
    BY <2>9, <2>10
<1>12. QED
  BY <1>7, <1>8, <1>9, <1>10, <1>11

(***************************************************************************)
(* A manifest of any length is its lines and then blank ones.              *)
(***************************************************************************)
LEMMA PaddedLines ==
  ASSUME NEW a \in Seq(Lines \cup {Blank})
  PROVE  /\ \A n \in Nat \ {0} : LineAt(a, n) \in Lines \cup {Blank}
         /\ \A n \in Nat : Padded(a, n) \in Seq(Lines \cup {Blank})
         /\ \A n \in Nat : Padded(a, n + 1) = Padded(a, n) \o <<LineAt(a, n + 1)>>
         /\ Padded(a, 0) = <<>> /\ Padded(a, Len(a)) = a
<1> DEFINE S == Lines \cup {Blank}
<1>1. Len(a) \in Nat /\ \A i \in 1 .. Len(a) : a[i] \in S
  BY LenProperties, ElementOfSeq
<1>2. \A i : LineAt(a, i) = IF i <= Len(a) THEN a[i] ELSE Blank
  BY BlankLine
<1>3. Blank \in S
  OBVIOUS
<1>0. a \in Seq(S)
  OBVIOUS
<1> HIDE DEF S
<1>4. ASSUME NEW n \in Nat \ {0} PROVE LineAt(a, n) \in S
  <2>1. CASE n <= Len(a)
    <3>1. n \in 1 .. Len(a)
      BY <1>1, <2>1
    <3>2. QED
      BY <1>1, <1>2, <2>1, <3>1
  <2>2. CASE ~(n <= Len(a))
    BY <1>2, <1>3, <2>2
  <2>3. QED
    BY <2>1, <2>2
<1>5. ASSUME NEW n \in Nat
      PROVE  /\ Padded(a, n) \in Seq(S) /\ Len(Padded(a, n)) = n
             /\ \A i \in 1 .. n : Padded(a, n)[i] = LineAt(a, i)
  <2> DEFINE p == Padded(a, n)
  <2>1. p = [i \in 1 .. n |-> LineAt(a, i)]
    BY DEF Padded
  <2>2. \A i \in 1 .. n : LineAt(a, i) \in S
    BY <1>4
  <2> HIDE DEF p
  <2>3. p \in [1 .. n -> S] /\ \A i \in 1 .. n : p[i] = LineAt(a, i)
    BY <2>1, <2>2
  <2>4. p \in Seq(S) /\ Len(p) = n
    BY <2>3
  <2>5. QED
    BY <2>3, <2>4 DEF p
<1>6. ASSUME NEW n \in Nat
      PROVE  Padded(a, n + 1) = Padded(a, n) \o <<LineAt(a, n + 1)>>
  <2> DEFINE p == Padded(a, n)
             q == Padded(a, n + 1)
             z == <<LineAt(a, n + 1)>>
  <2>1. n + 1 \in Nat /\ n + 1 \in Nat \ {0}
    OBVIOUS
  <2>2. /\ p \in Seq(S) /\ Len(p) = n /\ \A i \in 1 .. n : p[i] = LineAt(a, i)
        /\ q \in Seq(S) /\ Len(q) = n + 1 /\ \A i \in 1 .. n + 1 : q[i] = LineAt(a, i)
    BY <1>5, <2>1
  <2>3. z \in Seq(S) /\ Len(z) = 1 /\ z[1] = LineAt(a, n + 1)
    <3>1. LineAt(a, n + 1) \in S
      BY <1>4, <2>1
    <3>2. QED
      BY <3>1
  <2> HIDE DEF p, q, z
  <2>4. /\ p \o z \in Seq(S) /\ Len(p \o z) = n + 1
        /\ \A i \in 1 .. n + 1 : (p \o z)[i] = IF i <= n THEN p[i] ELSE z[i - n]
    <3>1. /\ p \o z \in Seq(S) /\ Len(p \o z) = Len(p) + Len(z)
          /\ \A i \in 1 .. Len(p) + Len(z) : (p \o z)[i] = IF i <= Len(p) THEN p[i] ELSE z[i - Len(p)]
      BY <2>2, <2>3, ConcatProperties
    <3>2. QED
      BY <2>2, <2>3, <3>1
  <2>5. ASSUME NEW i \in 1 .. n + 1 PROVE q[i] = (p \o z)[i]
    <3>1. CASE i <= n
      <4>1. i \in 1 .. n
        BY <3>1
      <4>2. QED
        BY <2>2, <2>4, <3>1, <4>1
    <3>2. CASE ~(i <= n)
      <4>1. i = n + 1 /\ i - n = 1
        BY <3>2
      <4>2. QED
        BY <2>2, <2>3, <2>4, <3>2, <4>1
    <3>3. QED
      BY <3>1, <3>2
  <2>6. q = p \o z
    BY <2>2, <2>4, <2>5, SeqEqual
  <2>7. QED
    BY <2>6 DEF p, q, z
<1>7. Padded(a, 0) = <<>>
  <2>1. Padded(a, 0) \in Seq(S) /\ Len(Padded(a, 0)) = 0
    BY <1>5
  <2>2. QED
    BY <2>1, EmptySeq
<1>8. Padded(a, Len(a)) = a
  <2> DEFINE p == Padded(a, Len(a))
  <2>1. p \in Seq(S) /\ Len(p) = Len(a) /\ \A i \in 1 .. Len(a) : p[i] = LineAt(a, i)
    BY <1>1, <1>5
  <2> HIDE DEF p
  <2>2. \A i \in 1 .. Len(a) : p[i] = a[i]
    BY <1>1, <1>2, <2>1
  <2>3. p = a
    BY <1>0, <2>1, <2>2, SeqEqual
  <2>4. QED
    BY <2>3 DEF p
<1>9. QED
  BY <1>4, <1>5, <1>6, <1>7, <1>8, Zenon DEF S

(***************************************************************************)
(* Blank lines at the end are left out.                                    *)
(***************************************************************************)
LEMMA PaddedOnly ==
  ASSUME NEW a \in Seq(Lines \cup {Blank}), NEW m \in Nat, Len(a) <= m
  PROVE  Only(Padded(a, m), Lines) = Only(a, Lines)
<1> DEFINE S == Lines \cup {Blank}
           T == {k \in Nat : Only(Padded(a, Len(a) + k), Lines) = Only(a, Lines)}
<1>1. Len(a) \in Nat
  BY LenProperties
<1>2. 0 \in T
  <2>1. Len(a) + 0 = Len(a) /\ Padded(a, Len(a)) = a
    BY <1>1, PaddedLines
  <2>2. QED
    BY <2>1
<1>3. ASSUME NEW k \in T PROVE k + 1 \in T
  <2> DEFINE n == Len(a) + k
  <2>1. n \in Nat /\ k \in Nat /\ Len(a) + (k + 1) = n + 1 /\ ~(n + 1 <= Len(a))
        /\ Only(Padded(a, n), Lines) = Only(a, Lines)
    BY <1>1
  <2> HIDE DEF n, T
  <2>2. Padded(a, n) \in Seq(S) /\ Padded(a, n + 1) = Padded(a, n) \o <<LineAt(a, n + 1)>>
    BY <2>1, PaddedLines
  <2>3. LineAt(a, n + 1) = Blank /\ Blank \notin Lines
    BY <2>1, BlankLine
  <2>4. <<Blank>> \in Seq(S)
    OBVIOUS
  <2>5. Only(<<Blank>>, Lines) = <<>>
    BY <2>3, OnlyOne, Zenon
  <2>6. Only(Padded(a, n) \o <<Blank>>, Lines) = Only(Padded(a, n), Lines) \o Only(<<Blank>>, Lines)
    <3> DEFINE p == Padded(a, n)
               e == <<Blank>>
    <3>1. p \in Seq(S) /\ e \in Seq(S)
      BY <2>2, <2>4
    <3> HIDE DEF p, e, S
    <3>2. Only(p \o e, Lines) = Only(p, Lines) \o Only(e, Lines)
      BY <3>1, OnlyConcat
    <3>3. QED
      BY <3>2 DEF p, e
  <2>7. Only(Padded(a, n), Lines) \o <<>> = Only(Padded(a, n), Lines)
    <3>1. Only(Padded(a, n), Lines) \in Seq(S)
      BY <2>2, OnlyKeeps
    <3>2. QED
      BY <3>1, ConcatEmptySeq
  <2>8. Only(Padded(a, n + 1), Lines) = Only(a, Lines)
    BY <2>1, <2>2, <2>3, <2>5, <2>6, <2>7, Zenon
  <2>9. QED
    BY <2>1, <2>8 DEF T
<1> HIDE DEF T
<1>4. T \subseteq Nat
  BY DEF T
<1>5. T = Nat
  BY <1>2, <1>3, <1>4, SetInduction
<1>6. m - Len(a) \in T /\ Len(a) + (m - Len(a)) = m
  BY <1>1, <1>5
<1>7. QED
  BY <1>6 DEF T
-----------------------------------------------------------------------------
(* What lineDiff has written after every place up to m.                    *)
DiffLoop(a, b, m, f) == f = [n \in 0 .. m |-> IF n = 0 THEN <<>> ELSE f[n - 1] \o DiffAt(a, b, n)]

(***************************************************************************)
(* The loop over the places of two manifests.                              *)
(***************************************************************************)
LEMMA DiffLoopRuns ==
  ASSUME NEW a, NEW b, NEW m \in Nat
  PROVE  \E f : DiffLoop(a, b, m, f)
<1> DEFINE T == {n \in Nat : \E f : DiffLoop(a, b, n, f)}
<1>1. 0 \in T
  <2>1. DiffLoop(a, b, 0, [n \in 0 .. 0 |-> <<>>])
    BY DEF DiffLoop
  <2>2. QED
    BY <2>1
<1>2. ASSUME NEW n \in T PROVE n + 1 \in T
  <2>1. PICK f : DiffLoop(a, b, n, f)
    OBVIOUS
  <2> DEFINE next == f[n] \o DiffAt(a, b, n + 1)
             g    == [k \in 0 .. n + 1 |-> IF k = n + 1 THEN next ELSE f[k]]
  <2>2. n \in Nat /\ n + 1 \in Nat
    OBVIOUS
  <2>3. \A k \in 0 .. n : f[k] = IF k = 0 THEN <<>> ELSE f[k - 1] \o DiffAt(a, b, k)
    BY <2>1 DEF DiffLoop
  <2>4. ASSUME NEW k \in 0 .. n + 1
        PROVE  g[k] = IF k = 0 THEN <<>> ELSE g[k - 1] \o DiffAt(a, b, k)
    BY <2>2, <2>3
  <2>5. DiffLoop(a, b, n + 1, g)
    BY <2>4 DEF DiffLoop
  <2>6. QED
    BY <2>2, <2>5
<1> HIDE DEF T
<1>3. T \subseteq Nat
  BY DEF T
<1>4. T = Nat
  BY <1>1, <1>2, <1>3, SetInduction
<1>5. QED
  BY <1>4 DEF T

(***************************************************************************)
(* Without one kind of changes a diff is one of the two manifests.         *)
(***************************************************************************)
LEMMA LineDiffKeeps ==
  ASSUME NEW a \in Seq(Lines \cup {Blank}), NEW b \in Seq(Lines \cup {Blank}),
         NEW w \in {"added", "removed"}
  PROVE  /\ lineDiff(a, b) \in Seq(DiffLines)
         /\ Contents(Only(lineDiff(a, b), Kept(w))) = Only(Side(w, a, b), Lines)
<1> DEFINE S == Lines \cup {Blank}
           m == IF Len(a) > Len(b) THEN Len(a) ELSE Len(b)
           side == Side(w, a, b)
           f == CHOOSE f : DiffLoop(a, b, m, f)
           T == {n \in Nat : n <= m => /\ f[n] \in Seq(DiffLines)
                                       /\ Contents(Only(f[n], Kept(w))) = Only(Padded(side, n), Lines)}
<1>1. lineDiff(a, b) = f[m]
  BY Zenon DEF lineDiff, DiffLoop
<1>2. Len(a) \in Nat /\ Len(b) \in Nat /\ m \in Nat /\ Len(a) <= m /\ Len(b) <= m
  BY LenProperties
<1>3. side \in Seq(S) /\ (side = a \/ side = b)
  BY DEF Side
<1> HIDE DEF m
<1>4. DiffLoop(a, b, m, f)
  BY <1>2, DiffLoopRuns
<1> HIDE DEF f, side
<1>5. \A n \in 0 .. m : f[n] = IF n = 0 THEN <<>> ELSE f[n - 1] \o DiffAt(a, b, n)
  BY <1>4 DEF DiffLoop
<1>6. 0 \in T
  <2>1. 0 \in 0 .. m
    BY <1>2
  <2>2. f[0] = <<>>
    BY <1>5, <2>1
  <2>3. f[0] \in Seq(DiffLines)
    BY <2>2
  <2>4. Contents(<<>>) = <<>> /\ Padded(side, 0) = <<>>
    BY <1>3, PaddedLines DEF Contents
  <2>5. Contents(Only(f[0], Kept(w))) = Only(Padded(side, 0), Lines)
    BY <2>2, <2>4, OnlyEmpty, Zenon
  <2>6. QED
    BY <2>3, <2>5
<1>7. ASSUME NEW n \in T PROVE n + 1 \in T
  <2>1. n \in Nat
    OBVIOUS
  <2> SUFFICES ASSUME n + 1 <= m
               PROVE  /\ f[n + 1] \in Seq(DiffLines)
                      /\ Contents(Only(f[n + 1], Kept(w))) = Only(Padded(side, n + 1), Lines)
    BY <2>1
  <2>2. f[n] \in Seq(DiffLines) /\ Contents(Only(f[n], Kept(w))) = Only(Padded(side, n), Lines)
    BY <1>2, <2>1
  <2> HIDE DEF T
  <2> DEFINE d == DiffAt(a, b, n + 1)
             z == LineAt(side, n + 1)
  <2>3. f[n + 1] = f[n] \o d
    <3>1. n + 1 \in 0 .. m /\ n + 1 # 0 /\ (n + 1) - 1 = n
      BY <1>2, <2>1
    <3>2. QED
      BY <1>5, <3>1
  <2>4. d \in Seq(DiffLines) /\ Contents(Only(d, Kept(w))) = Only(<<z>>, Lines)
    <3>1. LineAt(a, n + 1) \in S /\ LineAt(b, n + 1) \in S
      <4>1. n + 1 \in Nat \ {0}
        BY <2>1
      <4>2. QED
        BY <4>1, PaddedLines
    <3>2. QED
      BY <3>1, DiffAtKeeps DEF side
  <2>5. /\ Padded(side, n + 1) = Padded(side, n) \o <<z>>
        /\ Padded(side, n) \in Seq(S) /\ <<z>> \in Seq(S)
    <3>1. n + 1 \in Nat \ {0}
      BY <2>1
    <3>2. z \in S
      BY <1>3, <3>1, PaddedLines
    <3>3. <<z>> \in Seq(S)
      BY <3>2
    <3> HIDE DEF z, S
    <3>4. \A k \in Nat : Padded(side, k) \in Seq(S) /\ Padded(side, k + 1) = Padded(side, k) \o <<LineAt(side, k + 1)>>
      BY <1>3, PaddedLines DEF S
    <3>5. QED
      BY <2>1, <3>3, <3>4 DEF z
  <2> HIDE DEF d, z
  <2>6. Only(f[n] \o d, Kept(w)) = Only(f[n], Kept(w)) \o Only(d, Kept(w))
    BY <2>2, <2>4, OnlyConcat
  <2>7. Only(f[n], Kept(w)) \in Seq(DiffLines) /\ Only(d, Kept(w)) \in Seq(DiffLines)
    BY <2>2, <2>4, OnlyKeeps
  <2>8. Contents(Only(f[n] \o d, Kept(w))) = Contents(Only(f[n], Kept(w))) \o Contents(Only(d, Kept(w)))
    BY <2>6, <2>7, ContentsConcat
  <2>9. Only(Padded(side, n) \o <<z>>, Lines) = Only(Padded(side, n), Lines) \o Only(<<z>>, Lines)
    <3> DEFINE p == Padded(side, n)
               e == <<z>>
    <3>1. p \in Seq(S) /\ e \in Seq(S)
      BY <2>5
    <3> HIDE DEF p, e, S
    <3>2. Only(p \o e, Lines) = Only(p, Lines) \o Only(e, Lines)
      BY <3>1, OnlyConcat
    <3>3. QED
      BY <3>2 DEF p, e
  <2>10. f[n + 1] \in Seq(DiffLines)
    BY <2>2, <2>3, <2>4, ConcatProperties
  <2>11. Contents(Only(f[n + 1], Kept(w))) = Only(Padded(side, n + 1), Lines)
    BY <2>2, <2>3, <2>4, <2>5, <2>8, <2>9, Zenon
  <2>12. QED
    BY <2>10, <2>11
<1> HIDE DEF T
<1>8. T \subseteq Nat
  BY DEF T
<1>9. m \in T
  BY <1>2, <1>6, <1>7, <1>8, SetInduction
<1>10. f[m] \in Seq(DiffLines) /\ Contents(Only(f[m], Kept(w))) = Only(Padded(side, m), Lines)
  BY <1>2, <1>9 DEF T
<1>11. Len(side) <= m
  BY <1>2, <1>3
<1>12. Only(Padded(side, m), Lines) = Only(side, Lines)
  BY <1>2, <1>3, <1>11, PaddedOnly
<1>13. QED
  BY <1>1, <1>10, <1>12 DEF side

-----------------------------------------------------------------------------
(***************************************************************************)
(* As many ids as things with ids of their own.                            *)
(***************************************************************************)
LEMMA AsManyIds ==
  ASSUME NEW Q, IsFiniteSet(Q), OwnIds(Q)
  PROVE  Cardinality({x.id : x \in Q}) = Cardinality(Q)
<1> DEFINE f == [x \in Q |-> x.id]
           I == {x.id : x \in Q}
<1>1. f \in [Q -> I] /\ \A x \in Q : f[x] = x.id
  OBVIOUS
<1> HIDE DEF f
<1>2. f \in Injection(Q, I)
  BY <1>1 DEF Injection, IsInjective, OwnIds
<1>3. f \in Surjection(Q, I)
  BY <1>1 DEF Surjection
<1>4. ExistsBijection(Q, I)
  BY <1>2, <1>3 DEF ExistsBijection, Bijection
<1>5. QED
  BY <1>4, FS_Bijection

(***************************************************************************)
(* A page of all that the clusters listed is exact.                        *)
(***************************************************************************)
LEMMA LiveIsExact ==
  ASSUME IInv, NEW p \in PageNos
  PROVE  Exact(p, Live(Asked({}), p).items)
<1> DEFINE found == Asked({})
           R == filterReleases(found)
           s == sortReleases(R)
           w == Window(s, p, PageSize)
           N == Cardinality(R)
<1>1. helm \subseteq Revisions /\ found = {helmReleaseToType(x) : x \in helm}
  <2>1. {y \in helm : y.group \notin {}} = helm
    OBVIOUS
  <2>2. QED
    BY <2>1 DEF IInv, TypeOK, Asked
<1>2. IsFiniteSet(found) /\ found \subseteq LiveGood /\ OwnIds(found)
  BY <1>1, LiveImage
<1>3. Matching = {x.id : x \in R}
  <2>1. Matching = {x.id : x \in {y \in helm : Wants(y.tag)}}
    BY FilterWants DEF Matching
  <2>2. R = {y \in found : Wants(y.tag)}
    BY FilterWants
  <2>3. \A y \in helm : helmReleaseToType(y).id = y.id /\ helmReleaseToType(y).tag = y.tag
    BY <1>1, LiveIsGood
  <2> HIDE DEF found, R
  <2>4. ASSUME NEW y \in helm, Wants(y.tag) PROVE y.id \in {x.id : x \in R}
    <3>1. helmReleaseToType(y) \in R
      BY <1>1, <2>2, <2>3, <2>4
    <3>2. QED
      BY <2>3, <3>1
  <2>5. ASSUME NEW x \in R PROVE \E y \in helm : Wants(y.tag) /\ y.id = x.id
    <3>1. PICK y \in helm : x = helmReleaseToType(y)
      BY <1>1, <2>2
    <3>2. Wants(x.tag)
      BY <2>2
    <3>3. QED
      BY <2>3, <3>1, <3>2
  <2>6. QED
    BY <2>1, <2>4, <2>5
<1> HIDE DEF found
<1>4. /\ IsFiniteSet(R) /\ R \subseteq Good /\ OwnIds(R)
      /\ Live(found, p).items = w
  BY <1>2, LivePage
<1> HIDE DEF R
<1>5. /\ s \in Seq(Good) /\ Len(s) = N /\ N \in Nat
      /\ \A k \in 1 .. N : s[k] \in R /\ Cardinality({y \in R : y.id <= s[k].id}) = k
  BY <1>4, Sorting
<1> HIDE DEF s, N
<1>7. Cardinality(Matching) = N
  BY <1>3, <1>4, AsManyIds DEF N
<1>8. ASSUME NEW v PROVE Cardinality({i \in Matching : i <= v}) = Cardinality({y \in R : y.id <= v})
  <2> DEFINE Q == {y \in R : y.id <= v}
  <2>1. IsFiniteSet(Q) /\ OwnIds(Q)
    BY <1>4, FS_Subset DEF OwnIds
  <2>2. {i \in Matching : i <= v} = {x.id : x \in Q}
    BY <1>3
  <2> HIDE DEF Q
  <2>3. Cardinality({x.id : x \in Q}) = Cardinality(Q)
    BY <2>1, AsManyIds
  <2>4. QED
    BY <2>2, <2>3 DEF Q
<1>9. p \in Nat \ {0} /\ (p - 1) * PageSize = p - 1 /\ p * PageSize = p /\ PageSize = 1
  BY ItemsAssumption DEF PageSize
<1>10. /\ w \in Seq(Good)
       /\ \A i \in 1 .. Len(w) : (p - 1) + i \in 1 .. N /\ i <= 1 /\ w[i] = s[(p - 1) + i]
       /\ \A i \in 1 .. N : p - 1 < i /\ i <= (p - 1) + 1 => i - (p - 1) \in 1 .. Len(w)
  <2>1. w \in Seq(Good) /\ IsCut(w, s, (p - 1) * PageSize, PageSize)
    BY <1>5, GoodPage
  <2> HIDE DEF w
  <2>2. IsCut(w, s, p - 1, 1)
    BY <1>9, <2>1
  <2>3. Len(s) = N
    BY <1>5
  <2>4. QED
    BY <2>1, <2>2, <2>3 DEF IsCut, IsPart
<1> HIDE DEF w
<1>11. Len(w) \in Nat
  BY <1>10, LenProperties
<1>12. Len(w) = Cardinality({k \in (p - 1) * PageSize + 1 .. p * PageSize : k <= Cardinality(Matching)})
  <2>1. CASE p <= N
    <3>1. p \in 1 .. N /\ p - (p - 1) = 1 /\ p - 1 < p /\ p <= (p - 1) + 1
      BY <1>5, <1>9, <2>1
    <3>2. 1 \in 1 .. Len(w)
      BY <1>10, <3>1
    <3>3. ~(2 \in 1 .. Len(w))
      BY <1>10
    <3>4. Len(w) = 1
      <4>1. 1 <= Len(w)
        BY <1>11, <3>2
      <4>2. ~(2 <= Len(w))
        BY <1>11, <3>3
      <4>3. \A n \in Nat : 1 <= n /\ ~(2 <= n) => n = 1
        OBVIOUS
      <4>4. QED
        BY <1>11, <4>1, <4>2, <4>3, Zenon
    <3>5. {k \in (p - 1) * PageSize + 1 .. p * PageSize : k <= Cardinality(Matching)} = {p}
      BY <1>5, <1>7, <1>9, <2>1
    <3>6. QED
      BY <3>4, <3>5, FS_Singleton
  <2>2. CASE ~(p <= N)
    <3>1. ~(1 \in 1 .. Len(w))
      BY <1>5, <1>9, <1>10, <2>2
    <3>2. Len(w) = 0
      BY <1>11, <3>1
    <3>3. {k \in (p - 1) * PageSize + 1 .. p * PageSize : k <= Cardinality(Matching)} = {}
      BY <1>5, <1>7, <1>9, <2>2
    <3>4. QED
      BY <3>2, <3>3, FS_EmptySet
  <2>3. QED
    BY <2>1, <2>2
<1>13. ASSUME NEW k \in 1 .. Len(w)
       PROVE  Cardinality({i \in Matching : i <= w[k].id}) = (p - 1) * PageSize + k
  <2>1. (p - 1) + k \in 1 .. N /\ w[k] = s[(p - 1) + k]
    BY <1>10
  <2>2. Cardinality({y \in R : y.id <= w[k].id}) = (p - 1) + k
    BY <1>5, <2>1
  <2>3. QED
    BY <1>8, <1>9, <2>2
<1>14. QED
  BY <1>4, <1>12, <1>13 DEF Exact, found
-----------------------------------------------------------------------------
(***************************************************************************)
(* The inductive invariant.                                                *)
(***************************************************************************)
THEOREM Invariance == Spec => []IInv
BY Initially, Preserved, PTL DEF Spec

(***************************************************************************)
(* The types of the state.                                                 *)
(***************************************************************************)
THEOREM TypeCorrect == Spec => []TypeOK
<1>1. IInv => TypeOK
  BY DEF IInv
<1>2. QED
  BY <1>1, Invariance, PTL

(***************************************************************************)
(* A walk through the pages shows every row that was there when it began,  *)
(* even if new rows push the others onto later pages: paginate,            *)
(* buildPaginated and the queries with LIMIT and OFFSET, for lists of any  *)
(* length, rows of any times and every limit that is an int.  Only rows    *)
(* that share their time, rows that go, and on Postgres a count and a page *)
(* that are not of one list may make it miss one.                          *)
(***************************************************************************)
THEOREM WalksMissNothing == Spec => []NothingMissed
<1>1. IInv => NothingMissed
  BY DEF IInv
<1>2. QED
  BY <1>1, Invariance, PTL

(***************************************************************************)
(* A walk to which no row came shows no row twice, even if rows go away    *)
(* and statements fail; only rows that share their time with another.      *)
(***************************************************************************)
THEOREM WalksShowNothingTwice == Spec => []NothingTwice
<1>1. IInv => NothingTwice
  BY DEF IInv
<1>2. QED
  BY <1>1, Invariance, PTL

(***************************************************************************)
(* No walk ends in a panic, for every limit that is an int.                *)
(***************************************************************************)
THEOREM WalksDoNotFail == Spec => []WalkSucceeds
<1>1. IInv => WalkSucceeds
  BY DEF IInv
<1>2. QED
  BY <1>1, Invariance, PTL

(***************************************************************************)
(* The id of a listed release leads back to its cluster, namespace and     *)
(* name, for the pages of both caches too, and a stored one's nowhere      *)
(* (helmReleaseToType, parseReleaseID).                                    *)
(***************************************************************************)
THEOREM ListedIdsLeadBack == Spec => []IdsLeadBack
<1> DEFINE Back(x) == parseReleaseID(x.ref) =
                        IF x.group = "archive" THEN None
                        ELSE [cluster |-> x.group, namespace |-> x.tag, name |-> x.name]
<1>1. ASSUME NEW x \in Good PROVE Back(x)
  <2>1. CASE x \in Range(Archive)
    <3>1. x.group = "archive" /\ Len(x.ref) = 1
      BY <2>1, ArchiveRows, Zenon
    <3>2. QED
      BY <3>1 DEF parseReleaseID
  <2>2. CASE x \notin Range(Archive)
    <3>1. PICK y \in Revisions : x = helmReleaseToType(y)
      BY <2>2 DEF Good, LiveGood
    <3>2. x.tag = y.tag /\ x.name = y.name /\ x.group = y.group /\ x.ref = <<y.group, y.tag, y.name>>
      BY <3>1 DEF helmReleaseToType
    <3>3. x.group # "archive"
      BY <3>1, <3>2, GroupsAssumption DEF Revisions
    <3>4. Len(x.ref) = 3 /\ x.ref[1] = x.group /\ x.ref[2] = x.tag /\ x.ref[3] = x.name
      BY <3>2
    <3>5. QED
      BY <3>3, <3>4 DEF parseReleaseID
  <2>3. QED
    BY <2>1, <2>2
<1>2. IInv => IdsLeadBack
  <2> SUFFICES ASSUME IInv, kind = "releases", answer # None, NEW k \in 1 .. Len(answer.items)
               PROVE  Back(answer.items[k])
    BY DEF IdsLeadBack
  <2>1. answer.items \in Seq(Good)
    BY DEF IInv, PageInv, GoodPages
  <2>2. answer.items[k] \in Good
    BY <2>1, ElementOfSeq
  <2> HIDE DEF Back
  <2>3. QED
    BY <1>1, <2>2
<1>3. QED
  BY <1>2, Invariance, PTL

(***************************************************************************)
(* A diff replays into both manifests, blank lines apart (lineDiff).       *)
(***************************************************************************)
THEOREM DiffsReplay == Spec => []DiffReplays
<1>1. IInv => DiffReplays
  <2> SUFFICES ASSUME IInv, kind = "diff", answer # None
               PROVE  Without("added") = Full(texts[1]) /\ Without("removed") = Full(texts[2])
    BY DEF DiffReplays
  <2> DEFINE a == texts[1]
             b == texts[2]
  <2>1. texts \in Manifests \X Manifests /\ answer = lineDiff(a, b)
    BY DEF IInv, DiffInv
  <2>2. \A m \in Manifests : m \in Seq(Lines \cup {Blank})
    <3>1. Manifests = UNION {[1 .. n -> Lines \cup {Blank}] : n \in 1 .. MaxLines}
      BY Zenon DEF Manifests, Blank
    <3>2. MaxLines \in Nat
      BY LinesAssumption
    <3>3. QED
      BY <3>1, <3>2
  <2>3. a \in Seq(Lines \cup {Blank}) /\ b \in Seq(Lines \cup {Blank})
    BY <2>1, <2>2
  <2> HIDE DEF a, b
  <2>4. ASSUME NEW w \in {"added", "removed"} PROVE Without(w) = Full(Side(w, a, b))
    <3>1. /\ answer \in Seq(DiffLines)
          /\ Contents(Only(answer, Kept(w))) = Only(Side(w, a, b), Lines)
      BY <2>1, <2>3, LineDiffKeeps
    <3>2. Range(answer) \subseteq DiffLines
      BY <3>1, RangeOfSeq
    <3>3. Only(answer, {l \in Range(answer) : l.type # w}) = Only(answer, Kept(w))
      BY <3>1, <3>2, OnlySame DEF Kept
    <3>4. QED
      BY <3>1, <3>3 DEF Without, Full, Contents
  <2>5. Side("added", a, b) = a /\ Side("removed", a, b) = b
    BY DEF Side
  <2>6. QED
    BY <2>4, <2>5 DEF a, b
<1>2. QED
  BY <1>1, Invariance, PTL

(***************************************************************************)
(* A page of releases that did not come from memory is exactly the one     *)
(* asked for, if every cluster answered while it was made, no revision     *)
(* came or went and there was one: for any number of clusters, asked in    *)
(* any order, of revisions, and of requests under way (ListReleases).      *)
(***************************************************************************)
THEOREM PagesAreExact == Spec => []ExactWhenReachable
<1>1. IInv => ExactWhenReachable
  <2> SUFFICES ASSUME IInv, NEW r \in Readers, Doing(r, "mem"), req[r].quiet, helm # {}
               PROVE  Exact(req[r].page, req[r].got.items)
    BY DEF ExactWhenReachable
  <2>1. req[r] # None /\ Head(req[r].todo) = "mem"
    BY DEF Doing
  <2>2. Sound(req[r])
    BY <2>1, UnderWay
  <2>3. req[r].got = Live(Asked({}), req[r].page) /\ req[r].page \in PageNos
    BY <2>1, <2>2 DEF Sound, QuietInv, Requests
  <2>4. QED
    BY <2>3, LiveIsExact
<1>2. QED
  BY <1>1, Invariance, PTL
=============================================================================
