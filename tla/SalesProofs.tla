---------------------------- MODULE SalesProofs -----------------------------
(***************************************************************************)
(* Proofs about module Sales: for any number of items, sales, keys and     *)
(* concurrent requests, one idempotency key is one sale while its row is   *)
(* kept, and an answer of success names a recorded sale.                   *)
(*                                                                         *)
(* The invariant ties the two tables together in both directions: a stored *)
(* row points to a sale of its key (StoredIsSale), and a recorded sale has *)
(* its row (RowIsKept).  A commit needs a free key, so a second sale of a  *)
(* key would have to displace the row of the first.                        *)
(*                                                                         *)
(* The stock is what was there and bought, less what the live sales took   *)
(* (SoldOf, a sum over them): a cancellation gives back what was sold      *)
(* (CancelsWhatWasSold), once, because it takes effect while the sale is   *)
(* live.  How far the stock can fall below zero is bounded by what the     *)
(* requests that passed the check still have to take (ClaimsAreBounded).   *)
(***************************************************************************)
EXTENDS Sales, FiniteSetTheorems, WellFoundedInduction, TLAPS

-----------------------------------------------------------------------------
(* Sums over finite sets                                                   *)

First(S) == CHOOSE x \in S : TRUE

LEMMA Induction ==
  ASSUME NEW S, 0 \in S, \A n \in Nat : n \in S => n + 1 \in S
  PROVE  Nat \subseteq S
<1> SUFFICES ASSUME ~(Nat \subseteq S) PROVE FALSE
  OBVIOUS
<1> DEFINE U == Nat \ S
<1>1. U \subseteq Nat /\ U # {}
  OBVIOUS
<1> DEFINE R == OpToRel(<, Nat)
<1>a. IsWellFoundedOn(R, Nat)
  BY NatLessThanWellFounded
<1>b. \A x, y \in Nat : x < y => <<x, y>> \in R
  BY DEF OpToRel
<1> HIDE DEF R
<1>2. PICK n \in U : \A m \in U : n <= m
  <2>1. PICK n \in U : \A m \in U : ~ (<<m, n>> \in R)
    BY <1>1, <1>a, WFMin
  <2>2. \A m \in U : ~(m < n)
    BY <2>1, <1>b, Zenon
  <2> QED BY <2>2
<1>3. n # 0 /\ n - 1 \in Nat
  OBVIOUS
<1>4. n - 1 \notin U
  BY <1>2, <1>3
<1> QED BY <1>3, <1>4

\* What one element after the other adds up to.
Sums(f, sum, n) ==
  /\ sum \in [{S \in SUBSET DOMAIN f : Cardinality(S) <= n} -> Int]
  /\ \A S \in SUBSET DOMAIN f : Cardinality(S) <= n =>
       sum[S] = IF S = {} THEN 0 ELSE f[First(S)] + sum[S \ {First(S)}]

LEMMA PartsOf ==
  ASSUME NEW D, IsFiniteSet(D), NEW S \in SUBSET D
  PROVE  /\ IsFiniteSet(S) /\ Cardinality(S) \in Nat
         /\ Cardinality(S) = 0 <=> S = {}
         /\ S # {} => /\ First(S) \in S
                      /\ S \ {First(S)} \in SUBSET D
                      /\ Cardinality(S \ {First(S)}) = Cardinality(S) - 1
<1>1. IsFiniteSet(S)
  BY FS_Subset
<1>2. Cardinality(S) \in Nat /\ (Cardinality(S) = 0 <=> S = {})
  BY <1>1, FS_CardinalityType, FS_EmptySet
<1>3. S # {} => First(S) \in S
  BY DEF First
<1> QED BY <1>1, <1>2, <1>3, FS_RemoveElement

LEMMA SumsExist ==
  ASSUME NEW D, IsFiniteSet(D), NEW f \in [D -> Int]
  PROVE  \A n \in Nat : \E sum : Sums(f, sum, n)
<1> DEFINE N == {n \in Nat : \E sum : Sums(f, sum, n)}
<1>1. 0 \in N
  <2> DEFINE s == [S \in {S \in SUBSET D : Cardinality(S) <= 0} |-> 0]
  <2>1. \A S \in SUBSET D : Cardinality(S) <= 0 => S = {} /\ s[S] = 0
    <3> TAKE S \in SUBSET D
    <3>1. Cardinality(S) \in Nat /\ (Cardinality(S) = 0 <=> S = {})
      BY PartsOf
    <3> QED BY <3>1
  <2>2. s \in [{S \in SUBSET DOMAIN f : Cardinality(S) <= 0} -> Int]
    OBVIOUS
  <2>3. Sums(f, s, 0)
    BY <2>1, <2>2 DEF Sums
  <2> QED BY <2>3
<1>2. \A n \in Nat : n \in N => n + 1 \in N
  <2> SUFFICES ASSUME NEW n \in Nat, NEW g, Sums(f, g, n) PROVE \E sum : Sums(f, sum, n + 1)
    OBVIOUS
  <2> DEFINE P == {S \in SUBSET D : Cardinality(S) <= n}
             Q == {S \in SUBSET D : Cardinality(S) <= n + 1}
             s == [S \in Q |-> IF S \in P THEN g[S] ELSE f[First(S)] + g[S \ {First(S)}]]
  <2>1. g \in [P -> Int]
    BY DEF Sums
  <2>2. \A S \in Q : S \notin P => S # {} /\ First(S) \in D /\ S \ {First(S)} \in P
    BY PartsOf
  <2>3. P \subseteq Q
    <3>1. \A S \in SUBSET D : Cardinality(S) \in Nat
      BY PartsOf
    <3> QED BY <3>1
  <2>4. \A S \in P : S # {} => S \ {First(S)} \in P
    BY PartsOf
  <2>5. s \in [Q -> Int]
    BY <2>1, <2>2
  <2>6. \A S \in P : s[S] = g[S]
    BY <2>3
  <2>7. \A S \in P : g[S] = IF S = {} THEN 0 ELSE f[First(S)] + g[S \ {First(S)}]
    BY DEF Sums
  <2>8. \A S \in Q : s[S] = IF S = {} THEN 0 ELSE f[First(S)] + s[S \ {First(S)}]
    <3> TAKE S \in Q
    <3>1. CASE S \in P
      BY <3>1, <2>4, <2>6, <2>7
    <3>2. CASE S \notin P
      BY <3>2, <2>2, <2>6
    <3> QED BY <3>1, <3>2
  <2> HIDE DEF s
  <2>9. Sums(f, s, n + 1)
    BY <2>5, <2>8 DEF Sums
  <2> QED BY <2>9
<1> HIDE DEF N
<1>3. Nat \subseteq N
  BY <1>1, <1>2, Induction
<1> QED BY <1>3 DEF N

Adds(f, sum) ==
  /\ sum \in [SUBSET DOMAIN f -> Int]
  /\ \A S \in SUBSET DOMAIN f : sum[S] = IF S = {} THEN 0 ELSE f[First(S)] + sum[S \ {First(S)}]

LEMMA TotalAdds ==
  ASSUME NEW D, IsFiniteSet(D), NEW f \in [D -> Int]
  PROVE  \E sum : Adds(f, sum) /\ SumFunction(f) = sum[D]
<1> DEFINE Step(g) == [S \in SUBSET DOMAIN f |-> IF S = {} THEN 0 ELSE f[First(S)] + g[S \ {First(S)}]]
           sum == CHOOSE g : g = Step(g)
<1>1. \E g \in [SUBSET D -> Int] : g = Step(g)
  <2>1. PICK g : Sums(f, g, Cardinality(D))
    BY SumsExist, FS_CardinalityType
  <2>2. {S \in SUBSET D : Cardinality(S) <= Cardinality(D)} = SUBSET D
    BY FS_Subset
  <2>3. g \in [SUBSET D -> Int]
    BY <2>1, <2>2 DEF Sums
  <2>4. \A S \in SUBSET D : g[S] = IF S = {} THEN 0 ELSE f[First(S)] + g[S \ {First(S)}]
    BY <2>1, <2>2 DEF Sums
  <2> QED BY <2>3, <2>4
<1>2. sum = Step(sum)
  BY <1>1
<1>3. SumFunction(f) = sum[D]
  BY DEF SumFunction, SumFunctionOnSet, FoldFunctionOnSet, MapThenFoldSet, First
<1> HIDE DEF sum
<1>4. \A S \in SUBSET D : sum[S] = IF S = {} THEN 0 ELSE f[First(S)] + sum[S \ {First(S)}]
  BY <1>2
<1>5. sum \in [SUBSET D -> Int]
  <2> DEFINE N == {n \in Nat : \A S \in SUBSET D : Cardinality(S) = n => sum[S] \in Int}
  <2>1. 0 \in N
    <3>1. \A S \in SUBSET D : Cardinality(S) = 0 => S = {}
      BY PartsOf
    <3>2. {} \in SUBSET D /\ sum[{}] = 0
      BY <1>4
    <3> QED BY <3>1, <3>2
  <2>2. \A n \in Nat : n \in N => n + 1 \in N
    <3> SUFFICES ASSUME NEW n \in Nat, n \in N, NEW S \in SUBSET D, Cardinality(S) = n + 1
                 PROVE  sum[S] \in Int
      OBVIOUS
    <3>1. S # {} /\ First(S) \in S /\ S \ {First(S)} \in SUBSET D /\ Cardinality(S \ {First(S)}) = n
      BY PartsOf
    <3>2. sum[S \ {First(S)}] \in Int
      BY <3>1
    <3>3. f[First(S)] \in Int
      BY <3>1
    <3>4. sum[S] = f[First(S)] + sum[S \ {First(S)}]
      BY <3>1, <1>4
    <3> QED BY <3>2, <3>3, <3>4
  <2> HIDE DEF N
  <2>3. Nat \subseteq N
    BY <2>1, <2>2, Induction
  <2>4. \A S \in SUBSET D : sum[S] \in Int
    BY <2>3, PartsOf DEF N
  <2>5. sum = [S \in SUBSET D |-> sum[S]]
    BY <1>2
  <2> QED BY <2>4, <2>5
<1> QED BY <1>3, <1>4, <1>5 DEF Adds

\* A property of every sum that holds of nothing and of one element more holds of the whole.
LEMMA SumInduction ==
  ASSUME NEW D, IsFiniteSet(D), NEW f \in [D -> Int],
         NEW G, {} \in G,
         \A S \in SUBSET D : S # {} /\ S \ {First(S)} \in G => S \in G
  PROVE  D \in G
<1> DEFINE N == {n \in Nat : \A S \in SUBSET D : Cardinality(S) = n => S \in G}
<1>1. 0 \in N
  <2>1. \A S \in SUBSET D : Cardinality(S) = 0 => S = {}
    BY PartsOf
  <2> QED BY <2>1
<1>2. \A n \in Nat : n \in N => n + 1 \in N
  <2> SUFFICES ASSUME NEW n \in Nat, n \in N, NEW S \in SUBSET D, Cardinality(S) = n + 1
               PROVE  S \in G
    OBVIOUS
  <2>1. S # {} /\ First(S) \in S /\ S \ {First(S)} \in SUBSET D /\ Cardinality(S \ {First(S)}) = n
    BY PartsOf
  <2> QED BY <2>1
<1> HIDE DEF N
<1>3. Nat \subseteq N
  BY <1>1, <1>2, Induction
<1> QED BY <1>3, PartsOf DEF N

LEMMA TotalOfNone ==
  ASSUME NEW D, IsFiniteSet(D), NEW f \in [D -> Int], \A x \in D : f[x] = 0
  PROVE  SumFunction(f) = 0
<1>1. PICK sum : Adds(f, sum) /\ SumFunction(f) = sum[D]
  BY TotalAdds
<1> DEFINE G == {S \in SUBSET D : sum[S] = 0}
<1>2. {} \in G
  BY <1>1 DEF Adds
<1>3. \A S \in SUBSET D : S # {} /\ S \ {First(S)} \in G => S \in G
  BY <1>1 DEF Adds, First
<1> HIDE DEF G
<1>4. D \in G
  BY <1>2, <1>3, SumInduction
<1> QED BY <1>1, <1>4 DEF G

\* Changing one element changes the total by as much.
LEMMA TotalChanges ==
  ASSUME NEW D, IsFiniteSet(D), NEW f \in [D -> Int], NEW g \in [D -> Int], NEW x \in D,
         \A y \in D \ {x} : g[y] = f[y]
  PROVE  SumFunction(f) \in Int /\ SumFunction(g) = SumFunction(f) - f[x] + g[x]
<1>1. PICK s : Adds(f, s) /\ SumFunction(f) = s[D]
  BY TotalAdds
<1>2. PICK t : Adds(g, t) /\ SumFunction(g) = t[D]
  BY TotalAdds
<1> DEFINE G == {S \in SUBSET D : t[S] = s[S] + (IF x \in S THEN g[x] - f[x] ELSE 0)}
<1>3. {} \in G
  <2>1. {} \in SUBSET D /\ s[{}] = 0 /\ t[{}] = 0
    BY <1>1, <1>2 DEF Adds
  <2> QED BY <2>1
<1>4. \A S \in SUBSET D : S # {} /\ S \ {First(S)} \in G => S \in G
  <2> SUFFICES ASSUME NEW S \in SUBSET D, S # {}, S \ {First(S)} \in G PROVE S \in G
    OBVIOUS
  <2> DEFINE c == First(S)
             R == S \ {First(S)}
  <2>1. c \in S
    BY DEF First
  <2>2. /\ s[S] = f[c] + s[R] /\ s[R] \in Int /\ t[S] = g[c] + t[R] /\ t[R] \in Int
    BY <1>1, <1>2 DEF Adds
  <2>3. t[R] = s[R] + (IF x \in R THEN g[x] - f[x] ELSE 0)
    OBVIOUS
  <2>4. CASE c = x
    BY <2>1, <2>2, <2>3, <2>4
  <2>5. CASE c # x
    BY <2>1, <2>2, <2>3, <2>5
  <2> QED BY <2>4, <2>5
<1> HIDE DEF G
<1>5. D \in G
  BY <1>3, <1>4, SumInduction
<1> QED BY <1>1, <1>2, <1>5 DEF G, Adds

\* A total is at most the largest element times how many there are; an element that is
\* not counted takes one off.
LEMMA TotalIsBounded ==
  ASSUME NEW D, IsFiniteSet(D), NEW f \in [D -> Int], NEW x \in D, f[x] = 0,
         NEW m \in Nat, \A y \in D : f[y] <= m
  PROVE  SumFunction(f) \in Int /\ SumFunction(f) <= (Cardinality(D) - 1) * m
<1>1. PICK s : Adds(f, s) /\ SumFunction(f) = s[D]
  BY TotalAdds
<1> DEFINE Most(S) == (Cardinality(S) - (IF x \in S THEN 1 ELSE 0)) * m
           G == {S \in SUBSET D : s[S] <= Most(S)}
<1>2. {} \in G
  <2>1. {} \in SUBSET D /\ s[{}] = 0
    BY <1>1 DEF Adds
  <2>2. Cardinality({}) = 0
    BY FS_EmptySet
  <2>3. Most({}) = 0
    BY <2>2
  <2> QED BY <2>1, <2>3
<1>3. \A S \in SUBSET D : S # {} /\ S \ {First(S)} \in G => S \in G
  <2> SUFFICES ASSUME NEW S \in SUBSET D, S # {}, S \ {First(S)} \in G PROVE S \in G
    OBVIOUS
  <2> DEFINE c == First(S)
             R == S \ {First(S)}
  <2>1. c \in S /\ Cardinality(S) \in Nat /\ Cardinality(R) = Cardinality(S) - 1
    BY PartsOf
  <2>2. /\ s[S] = f[c] + s[R] /\ s[R] \in Int /\ f[c] \in Int /\ f[c] <= m
    BY <1>1, <2>1 DEF Adds
  <2>3. s[R] <= Most(R)
    OBVIOUS
  <2>4. CASE c = x
    <3>1. Most(S) = Most(R)
      BY <2>1, <2>4
    <3> QED BY <3>1, <2>2, <2>3, <2>4
  <2>5. CASE c # x
    <3>1. Most(S) = Most(R) + m
      BY <2>1, <2>5
    <3>2. Most(R) \in Int
      BY <2>1
    <3> HIDE DEF Most
    <3> QED BY <3>1, <3>2, <2>2, <2>3
  <2> QED BY <2>4, <2>5
<1> HIDE DEF G
<1>4. D \in G
  BY <1>2, <1>3, SumInduction
<1> QED BY <1>1, <1>4 DEF G, Adds

LEMMA TotalIsInt ==
  ASSUME NEW D, IsFiniteSet(D), NEW f \in [D -> Int]
  PROVE  SumFunction(f) \in Int
<1>1. PICK sum : Adds(f, sum) /\ SumFunction(f) = sum[D]
  BY TotalAdds
<1>2. sum \in [SUBSET D -> Int]
  BY <1>1 DEF Adds
<1> QED BY <1>1, <1>2

LEMMA TotalIsNat ==
  ASSUME NEW D, IsFiniteSet(D), NEW f \in [D -> Int], \A x \in D : f[x] >= 0
  PROVE  SumFunction(f) \in Nat
<1>1. PICK s : Adds(f, s) /\ SumFunction(f) = s[D]
  BY TotalAdds
<1> DEFINE G == {S \in SUBSET D : s[S] >= 0}
<1>2. {} \in G
  <2>1. {} \in SUBSET D /\ s[{}] = 0
    BY <1>1 DEF Adds
  <2> QED BY <2>1
<1>3. \A S \in SUBSET D : S # {} /\ S \ {First(S)} \in G => S \in G
  BY <1>1 DEF Adds, First
<1> HIDE DEF G
<1>4. D \in G
  BY <1>2, <1>3, SumInduction
<1> QED BY <1>1, <1>4 DEF G, Adds

\* A finite set of integers has a largest element.
LEMMA MaxIsThere ==
  ASSUME NEW D, IsFiniteSet(D), D \subseteq Int, D # {}
  PROVE  Max(D) \in D /\ \A y \in D : y <= Max(D)
<1> DEFINE Top(S) == \E x \in S : \A y \in S : x >= y
           N == {n \in Nat : \A S \in SUBSET D : Cardinality(S) = n /\ S # {} => Top(S)}
<1>1. 0 \in N
  <2>1. \A S \in SUBSET D : Cardinality(S) = 0 => S = {}
    BY PartsOf
  <2> QED BY <2>1
<1>2. \A n \in Nat : n \in N => n + 1 \in N
  <2> SUFFICES ASSUME NEW n \in Nat, n \in N, NEW S \in SUBSET D, Cardinality(S) = n + 1
               PROVE  Top(S)
    OBVIOUS
  <2> DEFINE c == First(S)
             R == S \ {First(S)}
  <2> HIDE DEF Top, N
  <2>1. c \in S /\ R \in SUBSET D /\ Cardinality(R) = n
    <3>1. Cardinality(S) # 0
      OBVIOUS
    <3>2. S # {}
      BY <3>1, PartsOf
    <3>3. First(S) \in S /\ S \ {First(S)} \in SUBSET D
      BY <3>2 DEF First
    <3>4. Cardinality(S \ {First(S)}) = Cardinality(S) - 1
      BY <3>2, PartsOf
    <3> QED BY <3>3, <3>4
  <2>2. R # {} => Top(R)
    BY <2>1 DEF N
  <2> USE DEF Top
  <2>3. S = R \cup {c} /\ S \subseteq Int
    BY <2>1
  <2> HIDE DEF c, R
  <2>4. CASE R = {}
    BY <2>3, <2>4
  <2>5. CASE R # {}
    <3>1. PICK x \in R : \A y \in R : x >= y
      BY <2>2, <2>5
    <3>2. x \in Int /\ c \in Int /\ \A y \in R : y \in Int
      BY <2>1, <2>3
    <3>3. CASE x >= c
      BY <2>3, <3>1, <3>2, <3>3
    <3>4. CASE ~(x >= c)
      <4>1. \A y \in S : c >= y
        BY <2>3, <3>1, <3>2, <3>4
      <4> QED BY <2>3, <4>1
    <3> QED BY <3>3, <3>4
  <2> QED BY <2>4, <2>5
<1> HIDE DEF N
<1>3. Nat \subseteq N
  BY <1>1, <1>2, Induction
<1>4. Top(D)
  BY <1>3, FS_CardinalityType DEF N
<1>5. \A y \in D : Max(D) >= y /\ Max(D) \in D
  BY <1>4 DEF Max
<1> QED BY <1>5

-----------------------------------------------------------------------------
(* Keys and answers                                                        *)

USE KeyAssumption, SaleAssumption, CartAssumption, DeltaAssumption, BoundAssumption

\* The parts of the invariant that speak about requests.
HandlerType ==
  handler \in [Handlers ->
    [pc : {"idle", "lookup", "check", "insert", "reread", "cancel", "adjust", "done"},
     key : Keys \cup {NoKey},
     cart : [Items -> Int],
     unread : SUBSET Items,
     sale : SaleIds \cup {NoSale},
     reply : Replies]]

LEMMA CartsAreLines == Carts \subseteq [Items -> Int] /\ NoLines \in [Items -> Int]
BY DEF NoLines

\* A request that becomes something well-formed keeps what is known of the
\* requests, as long as the books stay.
LEMMA BecomeSound ==
  ASSUME SalesIInv, UNCHANGED bookVars,
         NEW h \in Handlers,
         NEW pc \in {"idle", "lookup", "check", "insert", "reread", "cancel", "adjust", "done"},
         NEW k \in Keys \cup {NoKey}, NEW c \in [Items -> Int], NEW u \in SUBSET Items,
         NEW s \in SaleIds \cup {NoSale}, NEW r \in Replies,
         Become(h, Request(pc, k, c, u, s, r)),
         pc \in {"lookup", "check", "insert", "reread"} => c \in Carts,
         pc \in {"lookup", "reread"} => k \in Keys,
         pc = "cancel" => s \in SaleIds,
         r \in {"created", "replayed"} => s \in SaleIds /\ Recorded(s) /\ sale[s].key = k
  PROVE  SalesIInv'
<1> DEFINE q == Request(pc, k, c, u, s, r)
<1>1. handler \in [Handlers -> [pc : {"idle", "lookup", "check", "insert", "reread", "cancel",
                                      "adjust", "done"},
                                key : Keys \cup {NoKey}, cart : [Items -> Int],
                                unread : SUBSET Items, sale : SaleIds \cup {NoSale},
                                reply : Replies]]
  BY DEF SalesIInv, SalesTypeOK
<1>2. handler' = [handler EXCEPT ![h] = q]
  BY DEF Become
<1>3. /\ q.pc = pc /\ q.key = k /\ q.cart = c /\ q.unread = u /\ q.sale = s /\ q.reply = r
      /\ q \in [pc : {"idle", "lookup", "check", "insert", "reread", "cancel", "adjust", "done"},
                key : Keys \cup {NoKey}, cart : [Items -> Int], unread : SUBSET Items,
                sale : SaleIds \cup {NoSale}, reply : Replies]
  BY DEF Request
<1> HIDE DEF q
<1>4. HandlerType'
  BY <1>1, <1>2, <1>3 DEF HandlerType
<1>5. handler'[h] = q /\ \A g \in Handlers : g # h => handler'[g] = handler[g]
  BY <1>1, <1>2
<1>6. /\ qty' = qty /\ sale' = sale /\ stored' = stored /\ purged' = purged /\ net' = net
  BY DEF bookVars
<1>7. SalesTypeOK'
  BY <1>4, <1>6 DEF SalesIInv, SalesTypeOK, HandlerType
<1>8. StoredIsSale' /\ RowIsKept'
  BY <1>6 DEF SalesIInv, StoredIsSale, RowIsKept, Recorded
<1>9. RequestsCarry'
  BY <1>3, <1>5 DEF SalesIInv, RequestsCarry
<1>10. SuccessIsRecorded'
  <2> SUFFICES ASSUME NEW g \in Handlers, handler'[g].reply \in {"created", "replayed"}
               PROVE  /\ handler'[g].sale \in SaleIds
                      /\ Recorded(handler'[g].sale)
                      /\ sale[handler'[g].sale].key = handler'[g].key
    BY <1>6 DEF SuccessIsRecorded, Recorded
  <2>1. CASE g = h
    BY <1>3, <1>5, <2>1
  <2>2. CASE g # h
    BY <1>5, <2>2 DEF SalesIInv, SuccessIsRecorded
  <2> QED BY <2>1, <2>2
<1> QED BY <1>7, <1>8, <1>9, <1>10 DEF SalesIInv

\* What the invariant says of one request.
LEMMA OneRequest ==
  ASSUME SalesIInv, NEW h \in Handlers
  PROVE  /\ handler[h].pc \in {"idle", "lookup", "check", "insert", "reread", "cancel",
                               "adjust", "done"}
         /\ handler[h].key \in Keys \cup {NoKey}
         /\ handler[h].cart \in [Items -> Int]
         /\ handler[h].unread \in SUBSET Items
         /\ handler[h].sale \in SaleIds \cup {NoSale}
         /\ handler[h].pc \in {"lookup", "check", "insert", "reread"} => handler[h].cart \in Carts
         /\ handler[h].pc \in {"lookup", "reread"} => handler[h].key \in Keys
         /\ handler[h].pc = "cancel" => handler[h].sale \in SaleIds
BY DEF SalesIInv, SalesTypeOK, RequestsCarry

\* An answer without success, and the end of a request, keep the invariant.
LEMMA AnswerSound ==
  ASSUME SalesIInv, UNCHANGED bookVars, NEW h \in Handlers,
         NEW r \in Replies, NEW s \in SaleIds \cup {NoSale}, Answer(h, r, s),
         r \in {"created", "replayed"} =>
           s \in SaleIds /\ Recorded(s) /\ sale[s].key = handler[h].key
  PROVE  SalesIInv'
<1>1. handler[h].key \in Keys \cup {NoKey} /\ NoLines \in [Items -> Int] /\ {} \in SUBSET Items
  BY OneRequest, CartsAreLines
<1>2. Become(h, Request("done", handler[h].key, NoLines, {}, s, r))
  BY DEF Answer
<1> QED BY <1>1, <1>2, BecomeSound

LEMMA RestSound ==
  ASSUME SalesIInv, UNCHANGED bookVars, NEW h \in Handlers, Become(h, Resting)
  PROVE  SalesIInv'
<1>1. Become(h, Request("idle", NoKey, NoLines, {}, NoSale, "none"))
  BY DEF Resting
<1>2. NoLines \in [Items -> Int] /\ {} \in SUBSET Items /\ "none" \in Replies
  BY CartsAreLines DEF Replies
<1> QED BY <1>1, <1>2, BecomeSound

LEMMA GotoSound ==
  ASSUME SalesIInv, UNCHANGED bookVars, NEW h \in Handlers,
         NEW pc \in {"check", "insert", "reread"}, NEW u \in SUBSET Items, Goto(h, pc, u),
         handler[h].cart \in Carts, pc = "reread" => handler[h].key \in Keys
  PROVE  SalesIInv'
<1>1. handler[h].key \in Keys \cup {NoKey} /\ handler[h].cart \in [Items -> Int]
  BY OneRequest
<1>2. Become(h, Request(pc, handler[h].key, handler[h].cart, u, NoSale, "none"))
  BY DEF Goto
<1>3. "none" \in Replies
  BY DEF Replies
<1> QED BY <1>1, <1>2, <1>3, BecomeSound

\* A request that comes to rest, or is answered, while the books change: what is
\* known of the requests holds if no recorded sale is lost or changes its key.
KeepsSales == \A s \in SaleIds : Recorded(s) => Recorded(s)' /\ sale'[s].key = sale[s].key

LEMMA RequestsFollow ==
  ASSUME SalesIInv, KeepsSales, NEW h \in Handlers,
         NEW pc \in {"idle", "done"}, NEW k \in Keys \cup {NoKey}, NEW s \in SaleIds \cup {NoSale},
         NEW r \in Replies, Become(h, Request(pc, k, NoLines, {}, s, r)),
         r \in {"created", "replayed"} => s \in SaleIds /\ Recorded(s)' /\ sale'[s].key = k
  PROVE  HandlerType' /\ RequestsCarry' /\ SuccessIsRecorded'
<1> DEFINE q == Request(pc, k, NoLines, {}, s, r)
<1>1. HandlerType
  BY DEF SalesIInv, SalesTypeOK, HandlerType
<1>2. handler' = [handler EXCEPT ![h] = q]
  BY DEF Become
<1>3. /\ q.pc = pc /\ q.key = k /\ q.cart = NoLines /\ q.sale = s /\ q.reply = r
      /\ q \in [pc : {"idle", "lookup", "check", "insert", "reread", "cancel", "adjust", "done"},
                key : Keys \cup {NoKey}, cart : [Items -> Int], unread : SUBSET Items,
                sale : SaleIds \cup {NoSale}, reply : Replies]
  BY CartsAreLines DEF Request
<1> HIDE DEF q
<1>4. HandlerType'
  BY <1>1, <1>2, <1>3 DEF HandlerType
<1>5. handler'[h] = q /\ \A g \in Handlers : g # h => handler'[g] = handler[g]
  BY <1>1, <1>2 DEF HandlerType
<1>6. RequestsCarry'
  BY <1>3, <1>5, CartsAreLines DEF SalesIInv, RequestsCarry
<1>7. SuccessIsRecorded'
  <2> SUFFICES ASSUME NEW g \in Handlers, handler'[g].reply \in {"created", "replayed"}
               PROVE  /\ handler'[g].sale \in SaleIds
                      /\ sale'[handler'[g].sale].cart # NoLines
                      /\ sale'[handler'[g].sale].key = handler'[g].key
    BY DEF SuccessIsRecorded, Recorded
  <2>1. CASE g = h
    BY <1>3, <1>5, <2>1 DEF Recorded
  <2>2. CASE g # h
    <3>1. /\ handler[g].sale \in SaleIds
          /\ Recorded(handler[g].sale)
          /\ sale[handler[g].sale].key = handler[g].key
      BY <1>5, <2>2 DEF SalesIInv, SuccessIsRecorded
    <3> QED BY <1>5, <2>2, <3>1 DEF KeepsSales, Recorded
  <2> QED BY <2>1, <2>2
<1> QED BY <1>4, <1>6, <1>7

\* What the invariant says of the books.
SaleRows == [key : Keys \cup {NoKey}, cart : Carts \cup {NoLines}, live : BOOLEAN]

BooksType ==
  /\ qty \in [Items -> Int]
  /\ sale \in [SaleIds -> SaleRows]
  /\ stored \in [Keys -> SaleIds \cup {NoSale}]
  /\ purged \subseteq Keys
  /\ net \in [Items -> Int]

LEMMA InvariantParts ==
  /\ SalesTypeOK <=> BooksType /\ HandlerType
  /\ SalesIInv <=> /\ BooksType /\ StoredIsSale /\ RowIsKept
                   /\ HandlerType /\ RequestsCarry /\ SuccessIsRecorded
BY DEF SalesIInv, SalesTypeOK, BooksType, HandlerType, SaleRows

LEMMA InvariantPartsNext ==
  /\ SalesTypeOK' <=> BooksType' /\ HandlerType'
  /\ SalesIInv' <=> /\ BooksType' /\ StoredIsSale' /\ RowIsKept'
                    /\ HandlerType' /\ RequestsCarry' /\ SuccessIsRecorded'
BY DEF SalesIInv, SalesTypeOK, BooksType, HandlerType, SaleRows

\* The heart of it: a sale is committed with its key row, and only if the key is
\* free, so no other sale of that key is recorded and not yet purged.
LEMMA CommitSaleSound ==
  ASSUME SalesIInv, NEW h \in Handlers, NEW s \in SaleIds, CommitSale(h, s)
  PROVE  SalesIInv'
<1> DEFINE k == handler[h].key
           c == handler[h].cart
<1>1. /\ k \in Keys \cup {NoKey} /\ c \in Carts
      /\ ~Recorded(s)
      /\ k # NoKey => stored[k] = NoSale
  BY OneRequest DEF CommitSale, KeyFree
<1>2. c # NoLines /\ c \in [Items -> Nat]
  BY <1>1
<1>3. BooksType
  BY InvariantParts
<1>4. /\ sale' = [sale EXCEPT ![s] = [key |-> k, cart |-> c, live |-> TRUE]]
      /\ stored' = [x \in Keys |-> IF x = k THEN s ELSE stored[x]]
      /\ qty' = [i \in Items |-> qty[i] - c[i]]
      /\ purged' = purged /\ net' = net
  BY DEF CommitSale, KeyRows, Take
<1> HIDE DEF k, c
<1>5. BooksType'
  BY <1>1, <1>2, <1>3, <1>4 DEF BooksType, SaleRows
<1>6. /\ sale'[s].key = k /\ sale'[s].cart = c
      /\ \A t \in SaleIds : t # s => sale'[t] = sale[t]
  BY <1>3, <1>4 DEF BooksType
<1>7. Recorded(s)' /\ \A t \in SaleIds : t # s => (Recorded(t)' <=> Recorded(t))
  BY <1>2, <1>6 DEF Recorded
<1>8. StoredIsSale'
  <2> SUFFICES ASSUME NEW x \in Keys, stored'[x] # NoSale
               PROVE  sale'[stored'[x]].cart # NoLines /\ sale'[stored'[x]].key = x
    BY DEF StoredIsSale, Recorded
  <2>1. CASE x = k
    BY <1>4, <1>6, <1>7, <2>1 DEF Recorded
  <2>2. CASE x # k
    <3>1. stored'[x] = stored[x] /\ stored[x] \in SaleIds
      BY <1>3, <1>4, <2>2 DEF BooksType
    <3>2. Recorded(stored[x]) /\ sale[stored[x]].key = x
      BY <3>1 DEF SalesIInv, StoredIsSale
    <3> QED BY <1>1, <1>6, <1>7, <3>1, <3>2 DEF Recorded
  <2> QED BY <2>1, <2>2
<1>9. RowIsKept'
  <2> SUFFICES ASSUME NEW t \in SaleIds, Recorded(t)', sale'[t].key \in Keys \ purged'
               PROVE  stored'[sale'[t].key] = t
    BY DEF RowIsKept, Recorded
  <2>1. CASE t = s
    BY <1>4, <1>6, <2>1
  <2>2. CASE t # s
    <3>1. Recorded(t) /\ sale'[t] = sale[t] /\ stored[sale[t].key] = t
      BY <1>4, <1>6, <1>7, <2>2 DEF SalesIInv, RowIsKept
    <3>2. sale[t].key # k
      BY <1>1, <3>1
    <3> QED BY <1>4, <3>1, <3>2
  <2> QED BY <2>1, <2>2
<1>10. KeepsSales
  BY <1>1, <1>6, <1>7 DEF KeepsSales, Recorded
<1>11. Become(h, Request("done", k, NoLines, {}, s, "created"))
  BY DEF CommitSale, Answer, k
<1>12. "created" \in Replies
  BY DEF Replies
<1>13. HandlerType' /\ RequestsCarry' /\ SuccessIsRecorded'
  BY <1>1, <1>6, <1>7, <1>10, <1>11, <1>12, RequestsFollow
<1> QED BY <1>5, <1>8, <1>9, <1>13, InvariantPartsNext

\* A cancellation keeps the sale and its key: only "live" and the stock change.
LEMMA CommitCancelSound ==
  ASSUME SalesIInv, NEW h \in Handlers, CommitCancel(h)
  PROVE  SalesIInv'
<1>1. CASE ~StillLive(h)
  <2>1. UNCHANGED bookVars /\ Become(h, Resting)
    BY <1>1 DEF CommitCancel, bookVars
  <2> QED BY <2>1, RestSound
<1>2. CASE StillLive(h)
  <2> DEFINE s == handler[h].sale
  <2>1. s \in SaleIds /\ handler[h].cart \in [Items -> Int]
    BY OneRequest DEF CommitCancel
  <2>2. BooksType
    BY InvariantParts
  <2>3. /\ sale' = [sale EXCEPT ![s] = [key |-> sale[s].key, cart |-> sale[s].cart, live |-> FALSE]]
        /\ qty' = [i \in Items |-> qty[i] + handler[h].cart[i]]
        /\ stored' = stored /\ purged' = purged /\ net' = net
    BY <1>2, <2>1, <2>2 DEF CommitCancel, Give, BooksType
  <2>4. Become(h, Request("idle", NoKey, NoLines, {}, NoSale, "none"))
    BY DEF CommitCancel, Resting
  <2> HIDE DEF s
  <2>5. BooksType'
    BY <2>1, <2>2, <2>3 DEF BooksType, SaleRows
  <2>6. \A t \in SaleIds : sale'[t].key = sale[t].key /\ sale'[t].cart = sale[t].cart
    BY <2>1, <2>2, <2>3 DEF BooksType
  <2>7. StoredIsSale'
    <3> SUFFICES ASSUME NEW x \in Keys, stored[x] # NoSale
                 PROVE  sale'[stored[x]].cart # NoLines /\ sale'[stored[x]].key = x
      BY <2>3 DEF StoredIsSale, Recorded
    <3>1. stored[x] \in SaleIds
      BY <2>2 DEF BooksType
    <3>2. sale[stored[x]].cart # NoLines /\ sale[stored[x]].key = x
      BY DEF SalesIInv, StoredIsSale, Recorded
    <3> QED BY <2>6, <3>1, <3>2
  <2>8. RowIsKept'
    BY <2>3, <2>6 DEF SalesIInv, RowIsKept, Recorded
  <2>9. KeepsSales
    BY <2>6 DEF KeepsSales, Recorded
  <2>10. "none" \in Replies
    BY DEF Replies
  <2>11. HandlerType' /\ RequestsCarry' /\ SuccessIsRecorded'
    BY <2>4, <2>9, <2>10, RequestsFollow
  <2> QED BY <2>5, <2>7, <2>8, <2>11, InvariantPartsNext
<1> QED BY <1>1, <1>2

\* Stock that moves without a sale disturbs nothing but its own type.
LEMMA AdjustCommitSound ==
  ASSUME SalesIInv, NEW h \in Handlers, AdjustCommit(h)
  PROVE  SalesIInv'
<1>1. handler[h].cart \in [Items -> Int]
  BY OneRequest
<1>2. /\ qty' = [i \in Items |-> qty[i] + handler[h].cart[i]]
      /\ net' = [i \in Items |-> net[i] + handler[h].cart[i]]
      /\ sale' = sale /\ stored' = stored /\ purged' = purged
  BY DEF AdjustCommit, Give
<1>3. BooksType'
  BY <1>1, <1>2, InvariantParts DEF BooksType
<1>4. StoredIsSale' /\ RowIsKept'
  BY <1>2 DEF SalesIInv, StoredIsSale, RowIsKept, Recorded
<1>5. KeepsSales
  BY <1>2 DEF KeepsSales, Recorded
<1>6. Become(h, Request("idle", NoKey, NoLines, {}, NoSale, "none")) /\ "none" \in Replies
  BY DEF AdjustCommit, Resting, Replies
<1>7. HandlerType' /\ RequestsCarry' /\ SuccessIsRecorded'
  BY <1>5, <1>6, RequestsFollow
<1> QED BY <1>3, <1>4, <1>7, InvariantPartsNext

\* A step that leaves the sales and the requests alone.
LEMMA RequestsStay ==
  ASSUME SalesIInv, handler' = handler, sale' = sale
  PROVE  HandlerType' /\ RequestsCarry' /\ SuccessIsRecorded'
BY InvariantParts DEF HandlerType, RequestsCarry, SuccessIsRecorded, Recorded

LEMMA PurchaseSound ==
  ASSUME SalesIInv, NEW i \in Items, NEW d \in Deltas, Purchase(i, d)
  PROVE  SalesIInv'
<1>1. /\ qty' = [j \in Items |-> qty[j] + Only(i, d)[j]]
      /\ net' = [j \in Items |-> net[j] + Only(i, d)[j]]
      /\ sale' = sale /\ stored' = stored /\ purged' = purged /\ handler' = handler
  BY DEF Purchase, Give
<1>2. Only(i, d) \in [Items -> Int]
  BY DEF Only
<1>3. BooksType'
  BY <1>1, <1>2, InvariantParts DEF BooksType
<1>4. StoredIsSale' /\ RowIsKept'
  BY <1>1 DEF SalesIInv, StoredIsSale, RowIsKept, Recorded
<1> QED BY <1>1, <1>3, <1>4, RequestsStay, InvariantPartsNext

\* A purged key is remembered as purged, so its missing row breaks no promise.
LEMMA PurgeSound ==
  ASSUME SalesIInv, NEW k \in Keys, PurgeKey(k)
  PROVE  SalesIInv'
<1>1. /\ stored' = [stored EXCEPT ![k] = NoSale] /\ purged' = purged \cup {k}
      /\ qty' = qty /\ sale' = sale /\ net' = net /\ handler' = handler
  BY DEF PurgeKey
<1>2. BooksType
  BY InvariantParts
<1>3. BooksType'
  BY <1>1, <1>2 DEF BooksType
<1>4. \A x \in Keys : stored'[x] = IF x = k THEN NoSale ELSE stored[x]
  BY <1>1, <1>2 DEF BooksType
<1>5. StoredIsSale'
  BY <1>1, <1>4 DEF SalesIInv, StoredIsSale, Recorded
<1>6. RowIsKept'
  BY <1>1, <1>4 DEF SalesIInv, RowIsKept, Recorded
<1> QED BY <1>1, <1>3, <1>5, <1>6, RequestsStay, InvariantPartsNext

\* After a restart no request is open.
LEMMA CrashSound ==
  ASSUME SalesIInv, ServerCrash
  PROVE  SalesIInv'
<1>1. /\ handler' = [h \in Handlers |-> Resting]
      /\ qty' = qty /\ sale' = sale /\ stored' = stored /\ purged' = purged /\ net' = net
  BY DEF ServerCrash, bookVars
<1>2. /\ Resting.pc = "idle" /\ Resting.reply = "none"
      /\ Resting \in [pc : {"idle", "lookup", "check", "insert", "reread", "cancel", "adjust", "done"},
                      key : Keys \cup {NoKey}, cart : [Items -> Int], unread : SUBSET Items,
                      sale : SaleIds \cup {NoSale}, reply : Replies]
  BY CartsAreLines DEF Resting, Request, Replies
<1>3. HandlerType' /\ RequestsCarry' /\ SuccessIsRecorded'
  BY <1>1, <1>2 DEF HandlerType, RequestsCarry, SuccessIsRecorded
<1>4. BooksType' /\ StoredIsSale' /\ RowIsKept'
  BY <1>1, InvariantParts DEF BooksType, StoredIsSale, RowIsKept, Recorded
<1> QED BY <1>3, <1>4, InvariantPartsNext

-----------------------------------------------------------------------------

LEMMA InitSound == SalesInit => SalesIInv
<1> SUFFICES ASSUME SalesInit PROVE SalesIInv
  OBVIOUS
<1>1. BooksType /\ StoredIsSale /\ RowIsKept
  BY DEF SalesInit, BooksType, SaleRows, StoredIsSale, RowIsKept, Recorded, Unsold
<1>2. /\ Resting.pc = "idle" /\ Resting.reply = "none"
      /\ Resting \in [pc : {"idle", "lookup", "check", "insert", "reread", "cancel", "adjust", "done"},
                      key : Keys \cup {NoKey}, cart : [Items -> Int], unread : SUBSET Items,
                      sale : SaleIds \cup {NoSale}, reply : Replies]
  BY CartsAreLines DEF Resting, Request, Replies
<1>3. HandlerType /\ RequestsCarry /\ SuccessIsRecorded
  BY <1>2 DEF SalesInit, HandlerType, RequestsCarry, SuccessIsRecorded
<1> QED BY <1>1, <1>3, InvariantParts

\* The steps of POST /sales: only CommitSale writes.
LEMMA PostSaleSound ==
  ASSUME SalesIInv, NEW h \in Handlers, NEW k \in Keys \cup {NoKey}, NEW c \in Carts,
         PostSale(h, k, c)
  PROVE  SalesIInv'
<1>1. c \in [Items -> Int] /\ Wanted(c) \in SUBSET Items /\ "none" \in Replies
  BY DEF Wanted, Replies
<1>2. UNCHANGED bookVars
      /\ Become(h, Request(IF k = NoKey THEN "check" ELSE "lookup", k, c, Wanted(c), NoSale, "none"))
  BY DEF PostSale
<1>3. CASE k = NoKey
  BY <1>1, <1>2, <1>3, BecomeSound
<1>4. CASE k # NoKey
  BY <1>1, <1>2, <1>4, BecomeSound
<1> QED BY <1>3, <1>4

\* A request that replays a stored response: the row is that of a sale of its key.
LEMMA ReplaySound ==
  ASSUME SalesIInv, UNCHANGED bookVars, NEW h \in Handlers,
         handler[h].pc \in {"lookup", "reread"}, stored[handler[h].key] # NoSale,
         Answer(h, "replayed", stored[handler[h].key])
  PROVE  SalesIInv'
<1>1. handler[h].key \in Keys
  BY OneRequest
<1>2. stored[handler[h].key] \in SaleIds /\ "replayed" \in Replies
  BY <1>1, InvariantParts DEF BooksType, Replies
<1>3. /\ Recorded(stored[handler[h].key])
      /\ sale[stored[handler[h].key]].key = handler[h].key
  BY <1>1 DEF SalesIInv, StoredIsSale
<1> QED BY <1>2, <1>3, AnswerSound

LEMMA RecordStepSound ==
  ASSUME SalesIInv, NEW h \in Handlers, RecordStep(h)
  PROVE  SalesIInv'
<1>0. {"none", "created", "replayed", "nostock", "error"} \subseteq Replies
  BY DEF Replies
<1>1. ASSUME Lookup(h) PROVE SalesIInv'
  <2>1. CASE stored[handler[h].key] # NoSale
    BY <1>1, <2>1, ReplaySound DEF Lookup
  <2>2. CASE stored[handler[h].key] = NoSale
    <3>1. Goto(h, "check", handler[h].unread) /\ UNCHANGED bookVars
      BY <1>1, <2>2 DEF Lookup
    <3>2. handler[h].cart \in Carts /\ handler[h].unread \in SUBSET Items
      BY <1>1, OneRequest DEF Lookup
    <3> QED BY <3>1, <3>2, GotoSound
  <2> QED BY <2>1, <2>2
<1>2. ASSUME NEW i \in Items, CheckLine(h, i) PROVE SalesIInv'
  <2>1. CASE Enough(h, i)
    <3> DEFINE next == IF handler[h].unread = {i} THEN "insert" ELSE "check"
    <3>1. Goto(h, next, handler[h].unread \ {i}) /\ UNCHANGED bookVars
      BY <1>2, <2>1 DEF CheckLine
    <3>2. handler[h].cart \in Carts /\ handler[h].unread \ {i} \in SUBSET Items
      BY <1>2, OneRequest DEF CheckLine
    <3>3. next \in {"check", "insert", "reread"} /\ next # "reread"
      OBVIOUS
    <3> HIDE DEF next
    <3> QED BY <3>1, <3>2, <3>3, GotoSound
  <2>2. CASE ~Enough(h, i)
    BY <1>0, <1>2, <2>2, AnswerSound DEF CheckLine
  <2> QED BY <2>1, <2>2
<1>3. ASSUME NEW s \in SaleIds, CommitSale(h, s) PROVE SalesIInv'
  BY <1>3, CommitSaleSound
<1>4. ASSUME DuplicateKey(h) PROVE SalesIInv'
  <2>1. Goto(h, "reread", {}) /\ UNCHANGED bookVars
    BY <1>4 DEF DuplicateKey
  <2>2. handler[h].cart \in Carts /\ handler[h].key \in Keys /\ {} \in SUBSET Items
    BY <1>4, OneRequest DEF DuplicateKey, KeyFree
  <2> QED BY <2>1, <2>2, GotoSound
<1>5. ASSUME ReplayWinner(h) PROVE SalesIInv'
  <2>1. CASE stored[handler[h].key] # NoSale
    BY <1>5, <2>1, ReplaySound DEF ReplayWinner
  <2>2. CASE stored[handler[h].key] = NoSale
    BY <1>0, <1>5, <2>2, AnswerSound DEF ReplayWinner
  <2> QED BY <2>1, <2>2
<1>6. ASSUME SaleFails(h) PROVE SalesIInv'
  BY <1>0, <1>6, AnswerSound DEF SaleFails
<1> QED BY <1>1, <1>2, <1>3, <1>4, <1>5, <1>6 DEF RecordStep

LEMMA EditStepSound ==
  ASSUME SalesIInv, NEW h \in Handlers, EditStep(h)
  PROVE  SalesIInv'
<1>1. ASSUME NEW s \in SaleIds, CancelSale(h, s) PROVE SalesIInv'
  <2>1. /\ Become(h, Request("cancel", NoKey, sale[s].cart, {}, s, "none"))
        /\ UNCHANGED bookVars
    BY <1>1 DEF CancelSale
  <2>2. sale[s].cart \in [Items -> Int] /\ {} \in SUBSET Items /\ "none" \in Replies
    BY CartsAreLines, InvariantParts DEF BooksType, SaleRows, Replies
  <2> QED BY <2>1, <2>2, BecomeSound
<1>2. ASSUME CommitCancel(h) PROVE SalesIInv'
  BY <1>2, CommitCancelSound
<1>3. ASSUME NEW i \in Items, NEW d \in Deltas, AdjustRead(h, i, d) PROVE SalesIInv'
  <2>1. /\ Become(h, Request("adjust", NoKey, Only(i, d), {}, NoSale, "none"))
        /\ UNCHANGED bookVars
    BY <1>3 DEF AdjustRead
  <2>2. Only(i, d) \in [Items -> Int] /\ {} \in SUBSET Items /\ "none" \in Replies
    BY DEF Only, Replies
  <2> QED BY <2>1, <2>2, BecomeSound
<1>4. ASSUME AdjustCommit(h) PROVE SalesIInv'
  BY <1>4, AdjustCommitSound
<1>5. ASSUME EditFails(h) PROVE SalesIInv'
  BY <1>5, RestSound DEF EditFails
<1> QED BY <1>1, <1>2, <1>3, <1>4, <1>5 DEF EditStep

LEMMA StepSound == SalesIInv /\ [SalesNext]_salesVars => SalesIInv'
<1> SUFFICES ASSUME SalesIInv, [SalesNext]_salesVars PROVE SalesIInv'
  OBVIOUS
<1>1. ASSUME NEW h \in Handlers, NEW k \in Keys \cup {NoKey}, NEW c \in Carts, PostSale(h, k, c)
      PROVE  SalesIInv'
  BY <1>1, PostSaleSound
<1>2. ASSUME NEW h \in Handlers, RecordStep(h) PROVE SalesIInv'
  BY <1>2, RecordStepSound
<1>3. ASSUME NEW h \in Handlers, Finish(h) PROVE SalesIInv'
  BY <1>3, RestSound DEF Finish
<1>4. ASSUME NEW h \in Handlers, EditStep(h) PROVE SalesIInv'
  BY <1>4, EditStepSound
<1>5. ASSUME NEW i \in Items, NEW d \in Deltas, Purchase(i, d) PROVE SalesIInv'
  BY <1>5, PurchaseSound
<1>6. ASSUME NEW k \in Keys, PurgeKey(k) PROVE SalesIInv'
  BY <1>6, PurgeSound
<1>7. ASSUME ServerCrash PROVE SalesIInv'
  BY <1>7, CrashSound
<1>8. ASSUME UNCHANGED salesVars PROVE SalesIInv'
  <2>1. /\ qty' = qty /\ sale' = sale /\ stored' = stored /\ purged' = purged /\ net' = net
        /\ handler' = handler
    BY <1>8 DEF salesVars, bookVars
  <2>2. BooksType' /\ StoredIsSale' /\ RowIsKept'
    BY <2>1, InvariantParts DEF BooksType, StoredIsSale, RowIsKept, Recorded
  <2> QED BY <2>1, <2>2, RequestsStay, InvariantPartsNext
<1> QED BY <1>1, <1>2, <1>3, <1>4, <1>5, <1>6, <1>7, <1>8 DEF SalesNext

\* The inductive invariant holds of every behaviour.
THEOREM SalesInvariance == SalesSpec => []SalesIInv
<1> QED BY InitSound, StepSound, PTL DEF SalesSpec

\* Every row and every request of the books stays well formed.
THEOREM SalesTypeCorrect == SalesSpec => []SalesTypeOK
<1>1. SalesIInv => SalesTypeOK
  BY DEF SalesIInv
<1> QED BY <1>1, SalesInvariance, PTL

\* Two sales of one key would have the same row.
LEMMA RowsAreUnique == SalesIInv => OneSalePerKey
<1> SUFFICES ASSUME SalesIInv, NEW s \in SaleIds, NEW t \in SaleIds,
                    Recorded(s), Recorded(t), sale[s].key = sale[t].key,
                    sale[s].key \notin purged \cup {NoKey}
             PROVE  s = t
  BY DEF OneSalePerKey
<1>1. sale[s].key \in Keys \ purged
  BY InvariantParts DEF BooksType, SaleRows
<1>2. stored[sale[s].key] = s /\ stored[sale[t].key] = t
  BY <1>1 DEF SalesIInv, RowIsKept
<1> QED BY <1>2

\* One idempotency key records one sale for as long as its row is kept, however
\* many requests repeat it, and whatever fails between their steps.
THEOREM KeyIsOneSale == SalesSpec => []OneSalePerKey
BY RowsAreUnique, SalesInvariance, PTL

\* A request that is answered with success has its sale in the books.
THEOREM AnswersAreRecorded == SalesSpec => []SuccessIsRecorded
<1>1. SalesIInv => SuccessIsRecorded
  BY DEF SalesIInv
<1> QED BY <1>1, SalesInvariance, PTL

-----------------------------------------------------------------------------
(* Stock                                                                   *)

LEMMA MostOfOne ==
  /\ LargestTake \in Nat
  /\ \A c \in Carts, i \in Items : c[i] <= LargestTake
  /\ \A d \in Deltas : -d <= LargestTake
<1> DEFINE A == {c[i] : c \in Carts, i \in Items}
           B == {-d : d \in Deltas}
<1>1. IsFiniteSet(A)
  <2> DEFINE f == [p \in Carts \X Items |-> p[1][p[2]]]
  <2>1. IsFiniteSet(Carts \X Items)
    BY FiniteAssumption, FS_Product
  <2>2. f \in [Carts \X Items -> A]
    OBVIOUS
  <2>3. \A y \in A : \E p \in Carts \X Items : f[p] = y
    <3> TAKE y \in A
    <3>1. PICK c \in Carts, i \in Items : y = c[i]
      OBVIOUS
    <3>2. <<c, i>> \in Carts \X Items /\ f[<<c, i>>] = y
      BY <3>1
    <3> QED BY <3>2
  <2> DEFINE D == Carts \X Items
  <2> HIDE DEF f, A, D
  <2>4. f \in [D -> A] /\ \A y \in A : \E p \in D : f[p] = y
    BY <2>2, <2>3 DEF D
  <2>5. f \in Surjection(D, A)
    BY <2>4, Zenon DEF Surjection
  <2> QED BY <2>1, <2>5, FS_Surjection DEF D
<1>2. IsFiniteSet(B)
  <2> DEFINE f == [d \in Deltas |-> -d]
  <2>1. f \in [Deltas -> B] /\ \A y \in B : \E d \in Deltas : f[d] = y
    OBVIOUS
  <2>2. f \in Surjection(Deltas, B)
    BY <2>1, Zenon DEF Surjection
  <2> QED BY <2>2, FiniteAssumption, FS_Surjection
<1>4. \A c \in Carts, i \in Items : c[i] \in Nat
  OBVIOUS
<1>5. A \subseteq Int /\ B \subseteq Int
  BY <1>4
<1>6. PICK c \in Carts : c \in [Items -> Nat] \ {NoLines}
  BY FiniteAssumption
<1>7. PICK i \in Items : c[i] \in Nat
  <2>1. Items # {}
    <3> SUFFICES ASSUME Items = {} PROVE FALSE
      OBVIOUS
    <3>1. c = NoLines
      BY <1>6 DEF NoLines
    <3> QED BY <1>6, <3>1
  <2> QED BY <1>4, <2>1
<1>8. c[i] \in A \cup B
  OBVIOUS
<1> DEFINE m == Max(A \cup B)
<1> HIDE DEF A, B
<1>3. IsFiniteSet(A \cup B)
  BY <1>1, <1>2, FS_Union
<1>9. m \in A \cup B /\ \A y \in A \cup B : y <= m
  BY <1>3, <1>5, <1>8, MaxIsThere
<1>10. m \in Int /\ c[i] <= m
  BY <1>5, <1>8, <1>9
<1>11. LargestTake = m
  BY DEF LargestTake, A, B
<1> HIDE DEF m
<1>12. m \in Nat
  BY <1>7, <1>10
<1>13. \A x \in Carts, j \in Items : x[j] \in A \cup B
  BY DEF A
<1>14. \A d \in Deltas : -d \in A \cup B
  BY DEF B
<1> QED BY <1>9, <1>11, <1>12, <1>13, <1>14

ClaimsType ==
  \A i \in Items :
    /\ Claims(i) \in [Handlers -> Int]
    /\ \A h \in Handlers :
         /\ Claim(h, i) \in Int /\ Claims(i)[h] = Claim(h, i)
         /\ 0 <= Claim(h, i) /\ Claim(h, i) <= LargestTake

LEMMA ClaimsAreSmall == SalesIInv /\ LinesAreChecked => ClaimsType
<1> SUFFICES ASSUME SalesIInv, LinesAreChecked, NEW i \in Items
             PROVE  /\ Claims(i) \in [Handlers -> Int]
                    /\ \A h \in Handlers :
                         /\ Claim(h, i) \in Int /\ Claims(i)[h] = Claim(h, i)
                         /\ 0 <= Claim(h, i) /\ Claim(h, i) <= LargestTake
  BY DEF ClaimsType
<1>1. \A h \in Handlers : Claim(h, i) \in Int /\ 0 <= Claim(h, i) /\ Claim(h, i) <= LargestTake
  <2> TAKE h \in Handlers
  <2>1. handler[h].cart \in [Items -> Int]
    BY OneRequest
  <2>2. handler[h].cart[i] \in Int /\ LargestTake \in Nat
    BY <2>1, MostOfOne
  <2>3. CASE handler[h].pc \in {"check", "insert"}
    <3>1. handler[h].cart \in Carts
      BY <2>3, OneRequest
    <3>2. handler[h].cart[i] \in Nat /\ handler[h].cart[i] <= LargestTake
      BY <3>1, MostOfOne
    <3> QED BY <2>2, <2>3, <3>2 DEF Claim
  <2>4. CASE handler[h].pc = "adjust"
    <3>1. PICK j \in Items, d \in Deltas : handler[h].cart = Only(j, d)
      BY <2>4 DEF LinesAreChecked
    <3>2. handler[h].cart[i] = d \/ handler[h].cart[i] = 0
      BY <3>1 DEF Only
    <3>3. -d <= LargestTake /\ d \in Int
      BY MostOfOne
    <3> QED BY <2>2, <2>4, <3>2, <3>3 DEF Claim
  <2>5. CASE handler[h].pc \notin {"check", "insert", "adjust"}
    BY <2>2, <2>5 DEF Claim
  <2> QED BY <2>3, <2>4, <2>5
<1> QED BY <1>1 DEF Claims

LEMMA ClaimsAreSmallNext == (SalesIInv /\ LinesAreChecked => ClaimsType)'
BY ClaimsAreSmall, PTL

\* Arithmetic of the bound: one request changes its claim.
LEMMA BoundKept ==
  ASSUME NEW f \in [Handlers -> Int], NEW g \in [Handlers -> Int], NEW h \in Handlers,
         \A x \in Handlers : g[x] <= LargestTake,
         \A x \in Handlers \ {h} : g[x] = f[x],
         NEW p \in Int, NEW q \in Int,
         p - SumFunction(f) >= -((Cardinality(Handlers) - 1) * LargestTake),
         q - g[h] >= p - f[h] \/ q >= g[h]
  PROVE  q - SumFunction(g) >= -((Cardinality(Handlers) - 1) * LargestTake)
<1>1. LargestTake \in Nat
  BY MostOfOne
<1>2. Cardinality(Handlers) \in Nat
  BY FiniteAssumption, FS_CardinalityType
<1> DEFINE m == (Cardinality(Handlers) - 1) * LargestTake
<1>3. m \in Int
  BY <1>1, <1>2
<1>4. g[h] \in Int /\ f[h] \in Int
  OBVIOUS
<1>5. SumFunction(f) \in Int /\ SumFunction(g) = SumFunction(f) - f[h] + g[h]
  BY FiniteAssumption, TotalChanges
<1>6. CASE q - g[h] >= p - f[h]
  <2> HIDE DEF m
  <2>1. p - SumFunction(f) >= -m
    BY DEF m
  <2>2. q - SumFunction(g) >= -m
    BY <1>3, <1>4, <1>5, <1>6, <2>1
  <2> QED BY <2>2 DEF m
<1>7. CASE q >= g[h]
  <2> DEFINE z == [x \in Handlers |-> IF x = h THEN 0 ELSE g[x]]
  <2>1. z \in [Handlers -> Int] /\ z[h] = 0 /\ \A x \in Handlers \ {h} : g[x] = z[x]
    OBVIOUS
  <2>2. \A x \in Handlers : z[x] <= LargestTake
    BY <1>1
  <2> HIDE DEF z
  <2>3. SumFunction(z) \in Int /\ SumFunction(g) = SumFunction(z) - z[h] + g[h]
    BY <2>1, FiniteAssumption, TotalChanges
  <2>4. SumFunction(z) <= m
    BY <2>1, <2>2, <1>1, FiniteAssumption, TotalIsBounded
  <2> HIDE DEF m
  <2>5. q - SumFunction(g) >= -m
    BY <1>3, <1>4, <1>7, <2>1, <2>3, <2>4
  <2> QED BY <2>5 DEF m
<1> QED BY <1>6, <1>7

\* What one sale counts for.
Sold(s, i) == IF sale[s].live THEN sale[s].cart[i] ELSE 0

LEMMA SoldIsInt ==
  ASSUME BooksType, NEW i \in Items
  PROVE  [s \in SaleIds |-> Sold(s, i)] \in [SaleIds -> Int]
<1>1. \A s \in SaleIds : sale[s].cart[i] \in Int
  BY CartsAreLines DEF BooksType, SaleRows
<1> QED BY <1>1 DEF Sold

\* A sale that is recorded or cancelled moves the total by what it counts for.
LEMMA SoldMoves ==
  ASSUME BooksType, BooksType', NEW i \in Items, NEW s \in SaleIds,
         \A t \in SaleIds \ {s} : sale'[t] = sale[t]
  PROVE  SoldOf(i) \in Int /\ SoldOf(i)' = SoldOf(i) - Sold(s, i) + Sold(s, i)'
<1> DEFINE f == [t \in SaleIds |-> Sold(t, i)]
           g == [t \in SaleIds |-> Sold(t, i)']
<1>1. f \in [SaleIds -> Int]
  BY SoldIsInt
<1>2. g \in [SaleIds -> Int]
  <2>1. \A t \in SaleIds : sale'[t].cart[i] \in Int
    BY CartsAreLines DEF BooksType, SaleRows
  <2> QED BY <2>1 DEF Sold
<1>3. \A t \in SaleIds \ {s} : g[t] = f[t]
  BY DEF Sold
<1>4. SoldOf(i) = SumFunction(f) /\ SoldOf(i)' = SumFunction(g)
  BY DEF SoldOf, Sold
<1>5. f[s] = Sold(s, i) /\ g[s] = Sold(s, i)'
  OBVIOUS
<1> HIDE DEF f, g
<1>6. SumFunction(f) \in Int /\ SumFunction(g) = SumFunction(f) - f[s] + g[s]
  BY <1>1, <1>2, <1>3, FiniteAssumption, TotalChanges
<1> QED BY <1>4, <1>5, <1>6

\* Steps that leave the sales alone leave the total alone.
LEMMA SoldStays ==
  ASSUME BooksType, sale' = sale, NEW i \in Items
  PROVE  SoldOf(i) \in Int /\ SoldOf(i)' = SoldOf(i)
<1>1. SoldOf(i)' = SoldOf(i)
  BY DEF SoldOf
<1>2. SoldOf(i) = SumFunction([s \in SaleIds |-> Sold(s, i)])
  BY DEF SoldOf, Sold
<1>3. SumFunction([s \in SaleIds |-> Sold(s, i)]) \in Int
  <2> DEFINE f == [s \in SaleIds |-> Sold(s, i)]
  <2>1. f \in [SaleIds -> Int]
    BY SoldIsInt
  <2> HIDE DEF f
  <2>2. SumFunction(f) \in Int
    BY <2>1, FiniteAssumption, TotalIsInt
  <2> QED BY <2>2 DEF f
<1> QED BY <1>1, <1>2, <1>3

\* The bound of one item after a step in which at most one request changed.
LEMMA BoundStep ==
  ASSUME StockIInv, SalesIInv', LinesAreChecked', NEW i \in Items, NEW h \in Handlers,
         \A g \in Handlers \ {h} : handler'[g] = handler[g],
         \/ qty'[i] - Claim(h, i)' >= qty[i] - Claim(h, i)
         \/ qty'[i] >= Claim(h, i)'
  PROVE  qty'[i] - SumFunction(Claims(i)') >= -((Cardinality(Handlers) - 1) * LargestTake)
<1> DEFINE f == Claims(i)
           g == Claims(i)'
<1>1. SalesIInv /\ LinesAreChecked /\ ClaimsAreBounded
  BY DEF StockIInv
<1>2. f \in [Handlers -> Int]
  BY <1>1, ClaimsAreSmall DEF ClaimsType
<1>3. g \in [Handlers -> Int] /\ \A x \in Handlers : g[x] <= LargestTake
  BY ClaimsAreSmallNext DEF ClaimsType
<1>4. \A x \in Handlers \ {h} : g[x] = f[x]
  BY DEF Claims, Claim
<1>5. f[h] = Claim(h, i) /\ g[h] = Claim(h, i)'
  BY DEF Claims
<1>6. qty[i] \in Int /\ qty'[i] \in Int
  BY <1>1, InvariantParts, InvariantPartsNext DEF BooksType
<1>7. qty[i] - SumFunction(f) >= -((Cardinality(Handlers) - 1) * LargestTake)
  BY <1>1 DEF ClaimsAreBounded
<1> HIDE DEF f, g
<1>8. qty'[i] - SumFunction(g) >= -((Cardinality(Handlers) - 1) * LargestTake)
  BY <1>2, <1>3, <1>4, <1>5, <1>6, <1>7, BoundKept
<1> QED BY <1>8 DEF g

\* A request moves and the books stay.
LEMMA RequestMoves ==
  ASSUME StockIInv, SalesIInv', UNCHANGED bookVars, NEW h \in Handlers,
         \A g \in Handlers \ {h} : handler'[g] = handler[g],
         handler'[h].pc = "cancel" =>
           /\ Recorded(handler'[h].sale)
           /\ handler'[h].cart = sale[handler'[h].sale].cart,
         handler'[h].pc = "lookup" => handler'[h].unread = Wanted(handler'[h].cart),
         handler'[h].pc = "adjust" =>
           \E i \in Items, d \in Deltas : handler'[h].cart = Only(i, d),
         \A i \in Items : Claim(h, i)' <= Claim(h, i) \/ qty[i] >= Claim(h, i)'
  PROVE  StockIInv'
<1>1. qty' = qty /\ sale' = sale /\ net' = net
  BY DEF bookVars
<1>2. SalesIInv /\ LiveIsRecorded /\ CancelsWhatWasSold /\ LinesAreChecked /\ StockLedger
  BY DEF StockIInv
<1>3. LiveIsRecorded'
  BY <1>1, <1>2 DEF LiveIsRecorded, Recorded
<1>4. CancelsWhatWasSold'
  BY <1>1, <1>2 DEF CancelsWhatWasSold, Recorded
<1>5. LinesAreChecked'
  BY <1>2 DEF LinesAreChecked
<1>6. StockLedger'
  <2>1. BooksType
    BY <1>2, InvariantParts
  <2> QED BY <1>1, <1>2, <2>1, SoldStays DEF StockLedger
<1>7. ClaimsAreBounded'
  <2> SUFFICES ASSUME NEW i \in Items
               PROVE  qty'[i] - SumFunction(Claims(i)') >= -((Cardinality(Handlers) - 1) * LargestTake)
    BY DEF ClaimsAreBounded
  <2>1. Claim(h, i) \in Int /\ Claim(h, i)' \in Int /\ qty[i] \in Int
    <3>1. qty[i] \in Int
      BY <1>2, InvariantParts DEF BooksType
    <3> QED BY <1>2, <1>5, <3>1, ClaimsAreSmall, ClaimsAreSmallNext DEF ClaimsType
  <2>2. qty'[i] - Claim(h, i)' >= qty[i] - Claim(h, i) \/ qty'[i] >= Claim(h, i)'
    BY <1>1, <2>1
  <2> QED BY <1>5, <2>2, BoundStep
<1> QED BY <1>3, <1>4, <1>5, <1>6, <1>7 DEF StockIInv

LEMMA Becomes ==
  ASSUME SalesIInv, NEW h \in Handlers, NEW pc, NEW k, NEW c, NEW u, NEW s, NEW r,
         Become(h, Request(pc, k, c, u, s, r))
  PROVE  /\ \A g \in Handlers \ {h} : handler'[g] = handler[g]
         /\ handler'[h].pc = pc /\ handler'[h].cart = c /\ handler'[h].unread = u
         /\ handler'[h].sale = s
BY DEF SalesIInv, SalesTypeOK, Become, Request

\* A request without a claim and without a part in the books: answered, or at rest.
LEMMA RestMoves ==
  ASSUME StockIInv, SalesIInv', UNCHANGED bookVars, NEW h \in Handlers,
         NEW pc \in {"idle", "done", "reread"}, NEW k, NEW c, NEW u, NEW s, NEW r,
         Become(h, Request(pc, k, c, u, s, r))
  PROVE  StockIInv'
<1>1. SalesIInv /\ LinesAreChecked
  BY DEF StockIInv
<1>2. handler'[h].pc = pc /\ \A g \in Handlers \ {h} : handler'[g] = handler[g]
  BY <1>1, Becomes
<1>3. \A i \in Items : Claim(h, i)' = 0
  BY <1>2 DEF Claim
<1>4. \A i \in Items : Claim(h, i)' <= Claim(h, i)
  BY <1>1, <1>3, ClaimsAreSmall DEF ClaimsType
<1>5. handler'[h].pc \notin {"cancel", "lookup", "adjust"}
  BY <1>2
<1> QED BY <1>2, <1>4, <1>5, RequestMoves

LEMMA AnswerMoves ==
  ASSUME StockIInv, SalesIInv', UNCHANGED bookVars, NEW h \in Handlers, NEW r, NEW s,
         Answer(h, r, s)
  PROVE  StockIInv'
<1>1. Become(h, Request("done", handler[h].key, NoLines, {}, s, r))
  BY DEF Answer
<1> QED BY <1>1, RestMoves

LEMMA RestingMoves ==
  ASSUME StockIInv, SalesIInv', UNCHANGED bookVars, NEW h \in Handlers, Become(h, Resting)
  PROVE  StockIInv'
<1>1. Become(h, Request("idle", NoKey, NoLines, {}, NoSale, "none"))
  BY DEF Resting
<1> QED BY <1>1, RestMoves

\* The first claim of a sale: none, as none of its lines is checked.
LEMMA PostSaleStock ==
  ASSUME StockIInv, SalesIInv', NEW h \in Handlers,
         NEW k \in Keys \cup {NoKey}, NEW c \in Carts, PostSale(h, k, c)
  PROVE  StockIInv'
<1>1. SalesIInv /\ LinesAreChecked
  BY DEF StockIInv
<1> DEFINE pc == IF k = NoKey THEN "check" ELSE "lookup"
<1>2. Become(h, Request(pc, k, c, Wanted(c), NoSale, "none")) /\ UNCHANGED bookVars
  BY DEF PostSale
<1>3. pc \in {"check", "lookup"}
  OBVIOUS
<1> HIDE DEF pc
<1>4. /\ \A g \in Handlers \ {h} : handler'[g] = handler[g]
      /\ handler'[h].pc = pc /\ handler'[h].cart = c /\ handler'[h].unread = Wanted(c)
  BY <1>1, <1>2, Becomes
<1>5. \A i \in Items : c[i] \in Nat /\ (i \notin Wanted(c) => c[i] = 0)
  BY DEF Wanted
<1>6. \A i \in Items : Claim(h, i)' = 0
  BY <1>3, <1>4, <1>5 DEF Claim
<1>7. \A i \in Items : Claim(h, i)' <= Claim(h, i)
  BY <1>1, <1>6, ClaimsAreSmall DEF ClaimsType
<1> QED BY <1>2, <1>3, <1>4, <1>7, RequestMoves

LEMMA LookupStock ==
  ASSUME StockIInv, SalesIInv', NEW h \in Handlers, Lookup(h)
  PROVE  StockIInv'
<1>1. SalesIInv /\ LinesAreChecked
  BY DEF StockIInv
<1>2. CASE stored[handler[h].key] # NoSale
  BY <1>2, AnswerMoves DEF Lookup
<1>3. CASE stored[handler[h].key] = NoSale
  <2> DEFINE c == handler[h].cart
             u == handler[h].unread
  <2>1. UNCHANGED bookVars /\ Become(h, Request("check", handler[h].key, c, u, NoSale, "none"))
    BY <1>3 DEF Lookup, Goto
  <2>2. u = Wanted(c) /\ c \in Carts
    BY <1>1, OneRequest DEF Lookup, LinesAreChecked
  <2> HIDE DEF c, u
  <2>3. /\ \A g \in Handlers \ {h} : handler'[g] = handler[g]
        /\ handler'[h].pc = "check" /\ handler'[h].cart = c /\ handler'[h].unread = u
    BY <1>1, <2>1, Becomes
  <2>4. \A i \in Items : c[i] \in Nat /\ (i \notin Wanted(c) => c[i] = 0)
    BY <2>2 DEF Wanted
  <2>5. \A i \in Items : Claim(h, i)' = 0
    BY <2>2, <2>3, <2>4 DEF Claim
  <2>6. \A i \in Items : Claim(h, i)' <= Claim(h, i)
    BY <1>1, <2>5, ClaimsAreSmall DEF ClaimsType
  <2> QED BY <2>1, <2>3, <2>6, RequestMoves
<1> QED BY <1>2, <1>3

\* The only step that claims stock for a sale has read that it is there.
LEMMA CheckLineStock ==
  ASSUME StockIInv, SalesIInv', NEW h \in Handlers, NEW i \in Items, CheckLine(h, i)
  PROVE  StockIInv'
<1>1. SalesIInv /\ LinesAreChecked
  BY DEF StockIInv
<1>2. CASE ~Enough(h, i)
  BY <1>2, AnswerMoves DEF CheckLine
<1>3. CASE Enough(h, i)
  <2> DEFINE c == handler[h].cart
             u == handler[h].unread
             pc == IF u = {i} THEN "insert" ELSE "check"
  <2>1. UNCHANGED bookVars /\ Become(h, Request(pc, handler[h].key, c, u \ {i}, NoSale, "none"))
    BY <1>3 DEF CheckLine, Goto
  <2>2. pc \in {"insert", "check"} /\ (pc = "insert" => u = {i})
    OBVIOUS
  <2>3. handler[h].pc = "check" /\ qty[i] >= c[i]
    BY <1>3 DEF CheckLine, Enough
  <2>4. \A j \in Items : Claim(h, j) = IF j \notin u THEN c[j] ELSE 0
    BY <2>3 DEF Claim
  <2> HIDE DEF pc
  <2>5. /\ \A g \in Handlers \ {h} : handler'[g] = handler[g]
        /\ handler'[h].pc = pc /\ handler'[h].cart = c /\ handler'[h].unread = u \ {i}
    BY <1>1, <2>1, Becomes
  <2> HIDE DEF c, u
  <2>6. \A j \in Items : Claim(h, j)' = IF j \notin u \ {i} THEN c[j] ELSE 0
    BY <2>2, <2>5 DEF Claim
  <2>7. \A j \in Items : Claim(h, j) \in Int
    BY <1>1, ClaimsAreSmall DEF ClaimsType
  <2>8. \A j \in Items : Claim(h, j)' <= Claim(h, j) \/ qty[j] >= Claim(h, j)'
    <3> TAKE j \in Items
    <3>1. CASE j = i
      BY <2>3, <2>6, <3>1
    <3>2. CASE j # i
      <4>1. Claim(h, j)' = Claim(h, j)
        BY <2>4, <2>6, <3>2
      <4> QED BY <4>1, <2>7
    <3> QED BY <3>1, <3>2
  <2>9. handler'[h].pc \notin {"cancel", "lookup", "adjust"}
    BY <2>2, <2>5
  <2> QED BY <2>1, <2>5, <2>8, <2>9, RequestMoves
<1> QED BY <1>2, <1>3

LEMMA CancelSaleStock ==
  ASSUME StockIInv, SalesIInv', NEW h \in Handlers, NEW s \in SaleIds, CancelSale(h, s)
  PROVE  StockIInv'
<1>1. SalesIInv /\ LinesAreChecked /\ LiveIsRecorded
  BY DEF StockIInv
<1>2. UNCHANGED bookVars /\ Become(h, Request("cancel", NoKey, sale[s].cart, {}, s, "none"))
  BY DEF CancelSale
<1>3. Recorded(s)
  BY <1>1 DEF CancelSale, LiveIsRecorded
<1>4. /\ \A g \in Handlers \ {h} : handler'[g] = handler[g]
      /\ handler'[h].pc = "cancel" /\ handler'[h].cart = sale[s].cart /\ handler'[h].sale = s
  BY <1>1, <1>2, Becomes
<1>5. \A i \in Items : Claim(h, i)' = 0
  BY <1>4 DEF Claim
<1>6. \A i \in Items : Claim(h, i)' <= Claim(h, i)
  BY <1>1, <1>5, ClaimsAreSmall DEF ClaimsType
<1> QED BY <1>2, <1>3, <1>4, <1>6, RequestMoves

\* An adjustment that takes stock has read that it is there.
LEMMA AdjustReadStock ==
  ASSUME StockIInv, SalesIInv', NEW h \in Handlers, NEW i \in Items, NEW d \in Deltas,
         AdjustRead(h, i, d)
  PROVE  StockIInv'
<1>1. SalesIInv /\ LinesAreChecked
  BY DEF StockIInv
<1>2. UNCHANGED bookVars /\ Become(h, Request("adjust", NoKey, Only(i, d), {}, NoSale, "none"))
  BY DEF AdjustRead
<1>3. /\ \A g \in Handlers \ {h} : handler'[g] = handler[g]
      /\ handler'[h].pc = "adjust" /\ handler'[h].cart = Only(i, d)
  BY <1>1, <1>2, Becomes
<1>4. d \in Int /\ qty[i] \in Int /\ qty[i] + d >= 0
  BY <1>1, InvariantParts DEF AdjustRead, BooksType
<1>5. \A j \in Items : Claim(h, j) >= 0 /\ Claim(h, j) \in Int
  BY <1>1, ClaimsAreSmall DEF ClaimsType
<1>6. \A j \in Items : Claim(h, j)' <= Claim(h, j) \/ qty[j] >= Claim(h, j)'
  <2> TAKE j \in Items
  <2>1. Claim(h, j)' = IF Only(i, d)[j] < 0 THEN -Only(i, d)[j] ELSE 0
    BY <1>3 DEF Claim
  <2>2. CASE j = i /\ d < 0
    BY <1>4, <2>1, <2>2 DEF Only
  <2>3. CASE ~(j = i /\ d < 0)
    <3>1. Claim(h, j)' = 0
      BY <1>4, <2>1, <2>3 DEF Only
    <3> QED BY <1>5, <3>1
  <2> QED BY <2>2, <2>3
<1>7. \E j \in Items, e \in Deltas : handler'[h].cart = Only(j, e)
  BY <1>3
<1> QED BY <1>2, <1>3, <1>6, <1>7, RequestMoves

\* The books change, and the request that changes them gives up its claim.
LEMMA StockMoves ==
  ASSUME StockIInv, SalesIInv', NEW h \in Handlers,
         \A g \in Handlers \ {h} : handler'[g] = handler[g],
         LiveIsRecorded', StockLedger',
         \A s \in SaleIds : Recorded(s) => sale'[s].cart = sale[s].cart,
         \/ handler' = handler /\ \A i \in Items : qty'[i] >= qty[i]
         \/ /\ handler'[h].pc \in {"idle", "done"}
            /\ \A i \in Items : qty'[i] >= qty[i] - Claim(h, i)
  PROVE  StockIInv'
<1>1. SalesIInv /\ CancelsWhatWasSold /\ LinesAreChecked
  BY DEF StockIInv
<1>2. \A g \in Handlers : handler'[g] = handler[g] \/ handler'[g].pc \in {"idle", "done"}
  OBVIOUS
<1>3. CancelsWhatWasSold'
  <2> SUFFICES ASSUME NEW g \in Handlers, handler'[g].pc = "cancel"
               PROVE  /\ sale'[handler'[g].sale].cart # NoLines
                      /\ handler'[g].cart = sale'[handler'[g].sale].cart
    BY DEF CancelsWhatWasSold, Recorded
  <2>1. handler'[g] = handler[g]
    BY <1>2
  <2>2. handler[g].sale \in SaleIds
    BY <1>1, <2>1, OneRequest
  <2> QED BY <1>1, <2>1, <2>2 DEF CancelsWhatWasSold, Recorded
<1>4. LinesAreChecked'
  BY <1>1, <1>2 DEF LinesAreChecked
<1>5. ClaimsAreBounded'
  <2> SUFFICES ASSUME NEW i \in Items
               PROVE  qty'[i] - SumFunction(Claims(i)') >= -((Cardinality(Handlers) - 1) * LargestTake)
    BY DEF ClaimsAreBounded
  <2>1. Claim(h, i) \in Int /\ Claim(h, i)' \in Int
    BY <1>1, <1>4, ClaimsAreSmall, ClaimsAreSmallNext DEF ClaimsType
  <2>2. qty[i] \in Int /\ qty'[i] \in Int
    BY <1>1, InvariantParts, InvariantPartsNext DEF BooksType
  <2>3. CASE handler' = handler /\ qty'[i] >= qty[i]
    <3>1. Claim(h, i)' = Claim(h, i)
      BY <2>3 DEF Claim
    <3>2. qty'[i] - Claim(h, i)' >= qty[i] - Claim(h, i)
      BY <2>1, <2>2, <2>3, <3>1
    <3> QED BY <1>4, <3>2, BoundStep
  <2>4. CASE handler'[h].pc \in {"idle", "done"} /\ qty'[i] >= qty[i] - Claim(h, i)
    <3>1. Claim(h, i)' = 0
      BY <2>4 DEF Claim
    <3>2. qty'[i] - Claim(h, i)' >= qty[i] - Claim(h, i)
      BY <2>1, <2>2, <2>4, <3>1
    <3> QED BY <1>4, <3>2, BoundStep
  <2> QED BY <2>3, <2>4
<1> QED BY <1>3, <1>4, <1>5 DEF StockIInv

LEMMA CommitSaleStock ==
  ASSUME StockIInv, SalesIInv', NEW h \in Handlers, NEW s \in SaleIds, CommitSale(h, s)
  PROVE  StockIInv'
<1>1. SalesIInv /\ LiveIsRecorded /\ StockLedger
  BY DEF StockIInv
<1>2. BooksType /\ BooksType'
  BY <1>1, InvariantParts, InvariantPartsNext
<1> DEFINE k == handler[h].key
           c == handler[h].cart
<1>3. c \in Carts /\ \A i \in Items : Claim(h, i) = c[i]
  BY <1>1, OneRequest DEF CommitSale, Claim
<1>4. /\ ~Recorded(s)
      /\ sale' = [sale EXCEPT ![s] = [key |-> k, cart |-> c, live |-> TRUE]]
      /\ qty' = [i \in Items |-> qty[i] - c[i]]
      /\ net' = net
      /\ Become(h, Request("done", k, NoLines, {}, s, "created"))
  BY DEF CommitSale, Take, Answer
<1> HIDE DEF k, c
<1>5. /\ \A g \in Handlers \ {h} : handler'[g] = handler[g]
      /\ handler'[h].pc = "done"
  BY <1>1, <1>4, Becomes
<1>6. /\ sale'[s].cart = c /\ sale'[s].live = TRUE
      /\ \A t \in SaleIds \ {s} : sale'[t] = sale[t]
  BY <1>2, <1>4 DEF BooksType
<1>7. c # NoLines /\ c \in [Items -> Nat]
  BY <1>3
<1>8. LiveIsRecorded'
  BY <1>1, <1>6, <1>7 DEF LiveIsRecorded, Recorded
<1>9. ~sale[s].live
  BY <1>1, <1>4 DEF LiveIsRecorded
<1>10. StockLedger'
  <2> SUFFICES ASSUME NEW i \in Items PROVE qty'[i] = net'[i] - SoldOf(i)'
    BY DEF StockLedger
  <2>1. SoldOf(i) \in Int /\ SoldOf(i)' = SoldOf(i) - Sold(s, i) + Sold(s, i)'
    BY <1>2, <1>6, SoldMoves
  <2>2. Sold(s, i) = 0 /\ Sold(s, i)' = c[i]
    BY <1>6, <1>9 DEF Sold
  <2>3. qty[i] = net[i] - SoldOf(i) /\ net[i] \in Int /\ c[i] \in Int
    BY <1>1, <1>2, <1>7 DEF StockLedger, BooksType
  <2>4. qty'[i] = qty[i] - c[i] /\ net'[i] = net[i]
    BY <1>4
  <2> QED BY <2>1, <2>2, <2>3, <2>4
<1>11. \A t \in SaleIds : Recorded(t) => sale'[t].cart = sale[t].cart
  BY <1>4, <1>6
<1>12. \A i \in Items : qty'[i] >= qty[i] - Claim(h, i)
  <2> TAKE i \in Items
  <2>1. qty[i] \in Int /\ c[i] \in Int /\ qty'[i] = qty[i] - c[i] /\ Claim(h, i) = c[i]
    BY <1>2, <1>3, <1>4, <1>7 DEF BooksType
  <2> QED BY <2>1
<1> QED BY <1>5, <1>8, <1>10, <1>11, <1>12, StockMoves

LEMMA CommitCancelStock ==
  ASSUME StockIInv, SalesIInv', NEW h \in Handlers, CommitCancel(h)
  PROVE  StockIInv'
<1>1. SalesIInv /\ LiveIsRecorded /\ StockLedger /\ CancelsWhatWasSold
  BY DEF StockIInv
<1>2. CASE ~StillLive(h)
  <2>1. UNCHANGED bookVars /\ Become(h, Resting)
    BY <1>2 DEF CommitCancel, bookVars
  <2> QED BY <2>1, RestingMoves
<1>3. CASE StillLive(h)
  <2>1. BooksType /\ BooksType'
    BY <1>1, InvariantParts, InvariantPartsNext
  <2>0. PICK s \in SaleIds : s = handler[h].sale
    BY <1>1, OneRequest DEF CommitCancel
  <2>a. PICK c : c = sale[s].cart
    OBVIOUS
  <2>2. Recorded(s) /\ handler[h].cart = c
    BY <1>1, <2>0, <2>a DEF CommitCancel, CancelsWhatWasSold
  <2>3. sale[s].live = TRUE
    BY <1>3, <2>0, <2>1, <2>2 DEF StillLive, BooksType, SaleRows
  <2>4. /\ sale' = [sale EXCEPT ![s] = [key |-> sale[s].key, cart |-> sale[s].cart, live |-> FALSE]]
        /\ qty' = [i \in Items |-> qty[i] + c[i]]
        /\ net' = net
        /\ Become(h, Request("idle", NoKey, NoLines, {}, NoSale, "none"))
    BY <1>3, <2>0, <2>a, <2>1, <2>2 DEF CommitCancel, Give, BooksType, Resting
  <2>5. \A i \in Items : Claim(h, i) = 0
    BY DEF CommitCancel, Claim
  <2>6. /\ \A g \in Handlers \ {h} : handler'[g] = handler[g]
        /\ handler'[h].pc = "idle"
    BY <1>1, <2>4, Becomes
  <2>7. \A i \in Items : c[i] \in Nat
    BY <2>a, <2>1, <2>2 DEF BooksType, SaleRows, Recorded
  <2>8. /\ sale'[s].cart = c /\ sale'[s].live = FALSE
        /\ \A t \in SaleIds \ {s} : sale'[t] = sale[t]
    BY <2>a, <2>1, <2>2, <2>4 DEF BooksType
  <2>9. LiveIsRecorded'
    BY <1>1, <2>8 DEF LiveIsRecorded, Recorded
  <2>10. StockLedger'
    <3> SUFFICES ASSUME NEW i \in Items PROVE qty'[i] = net'[i] - SoldOf(i)'
      BY DEF StockLedger
    <3>1. SoldOf(i) \in Int /\ SoldOf(i)' = SoldOf(i) - Sold(s, i) + Sold(s, i)'
      BY <2>1, <2>2, <2>8, SoldMoves
    <3>2. Sold(s, i) = c[i] /\ Sold(s, i)' = 0
      BY <2>3, <2>8, <2>a DEF Sold
    <3>3. qty[i] = net[i] - SoldOf(i) /\ net[i] \in Int /\ c[i] \in Int
      BY <1>1, <2>1, <2>7 DEF StockLedger, BooksType
    <3>4. qty'[i] = qty[i] + c[i] /\ net'[i] = net[i]
      BY <2>4
    <3> QED BY <3>1, <3>2, <3>3, <3>4
  <2>11. \A t \in SaleIds : Recorded(t) => sale'[t].cart = sale[t].cart
    BY <2>8, <2>a
  <2>12. \A i \in Items : qty'[i] >= qty[i] - Claim(h, i)
    <3> TAKE i \in Items
    <3>1. qty[i] \in Int /\ c[i] \in Nat /\ qty'[i] = qty[i] + c[i] /\ Claim(h, i) = 0
      BY <2>1, <2>4, <2>5, <2>7 DEF BooksType
    <3> QED BY <3>1
  <2> QED BY <2>6, <2>9, <2>10, <2>11, <2>12, StockMoves
<1> QED BY <1>2, <1>3

\* What comes in moves the stock and what is owed by as much.
LEMMA LedgerFollows ==
  ASSUME SalesIInv, StockLedger, sale' = sale, NEW c \in [Items -> Int],
         qty' = Give(qty, c), net' = Give(net, c)
  PROVE  StockLedger' /\ \A i \in Items : qty'[i] = qty[i] + c[i] /\ qty[i] \in Int
<1>1. BooksType
  BY InvariantParts
<1>2. \A i \in Items : qty'[i] = qty[i] + c[i] /\ net'[i] = net[i] + c[i]
  BY DEF Give
<1>3. \A i \in Items : qty[i] \in Int /\ net[i] \in Int /\ c[i] \in Int
  BY <1>1 DEF BooksType
<1>4. ASSUME NEW i \in Items PROVE qty'[i] = net'[i] - SoldOf(i)'
  <2>1. SoldOf(i) \in Int /\ SoldOf(i)' = SoldOf(i) /\ qty[i] = net[i] - SoldOf(i)
    BY <1>1, SoldStays DEF StockLedger
  <2> QED BY <1>2, <1>3, <2>1
<1> QED BY <1>2, <1>3, <1>4 DEF StockLedger

LEMMA AdjustCommitStock ==
  ASSUME StockIInv, SalesIInv', NEW h \in Handlers, AdjustCommit(h)
  PROVE  StockIInv'
<1>1. SalesIInv /\ LiveIsRecorded /\ StockLedger
  BY DEF StockIInv
<1> DEFINE c == handler[h].cart
<1>2. c \in [Items -> Int]
  BY <1>1, OneRequest
<1>3. /\ qty' = Give(qty, c) /\ net' = Give(net, c) /\ sale' = sale
      /\ Become(h, Request("idle", NoKey, NoLines, {}, NoSale, "none"))
  BY DEF AdjustCommit, Resting
<1>4. \A i \in Items : Claim(h, i) = IF c[i] < 0 THEN -c[i] ELSE 0
  BY DEF AdjustCommit, Claim
<1> HIDE DEF c
<1>5. StockLedger' /\ \A i \in Items : qty'[i] = qty[i] + c[i] /\ qty[i] \in Int
  BY <1>1, <1>2, <1>3, LedgerFollows
<1>6. /\ \A g \in Handlers \ {h} : handler'[g] = handler[g]
      /\ handler'[h].pc = "idle"
  BY <1>1, <1>3, Becomes
<1>7. LiveIsRecorded' /\ \A s \in SaleIds : sale'[s].cart = sale[s].cart
  BY <1>1, <1>3 DEF LiveIsRecorded, Recorded
<1>8. \A i \in Items : qty'[i] >= qty[i] - Claim(h, i)
  BY <1>2, <1>4, <1>5
<1> QED BY <1>5, <1>6, <1>7, <1>8, StockMoves

LEMMA PurchaseStock ==
  ASSUME StockIInv, SalesIInv', NEW i \in Items, NEW d \in Deltas, Purchase(i, d)
  PROVE  StockIInv'
<1>1. SalesIInv /\ LiveIsRecorded /\ StockLedger
  BY DEF StockIInv
<1>2. /\ qty' = Give(qty, Only(i, d)) /\ net' = Give(net, Only(i, d))
      /\ sale' = sale /\ handler' = handler /\ d > 0 /\ d \in Int
  BY DEF Purchase
<1>3. Only(i, d) \in [Items -> Int] /\ \A j \in Items : Only(i, d)[j] >= 0
  BY <1>2 DEF Only
<1>4. StockLedger' /\ \A j \in Items : qty'[j] = qty[j] + Only(i, d)[j] /\ qty[j] \in Int
  BY <1>1, <1>2, <1>3, LedgerFollows
<1>5. \A j \in Items : qty'[j] >= qty[j]
  BY <1>3, <1>4
<1>6. LiveIsRecorded' /\ \A s \in SaleIds : sale'[s].cart = sale[s].cart
  BY <1>1, <1>2 DEF LiveIsRecorded, Recorded
<1>7. PICK h \in Handlers : TRUE
  BY FiniteAssumption
<1> QED BY <1>2, <1>4, <1>5, <1>6, <1>7, StockMoves

LEMMA PurgeStock ==
  ASSUME StockIInv, SalesIInv', NEW k \in Keys, PurgeKey(k)
  PROVE  StockIInv'
<1>1. SalesIInv /\ LiveIsRecorded /\ StockLedger /\ BooksType
  BY InvariantParts DEF StockIInv
<1>2. qty' = qty /\ net' = net /\ sale' = sale /\ handler' = handler
  BY DEF PurgeKey
<1>3. LiveIsRecorded' /\ \A s \in SaleIds : sale'[s].cart = sale[s].cart
  BY <1>1, <1>2 DEF LiveIsRecorded, Recorded
<1>4. StockLedger'
  BY <1>1, <1>2, SoldStays DEF StockLedger
<1>5. \A j \in Items : qty'[j] >= qty[j]
  BY <1>1, <1>2 DEF BooksType
<1>6. PICK h \in Handlers : TRUE
  BY FiniteAssumption
<1> QED BY <1>2, <1>3, <1>4, <1>5, <1>6, StockMoves

\* Claims are never negative, so the bound on the stock itself follows.
LEMMA StockIsBounded == StockIInv => OversellIsBounded
<1> SUFFICES ASSUME StockIInv, NEW i \in Items
             PROVE  qty[i] >= -((Cardinality(Handlers) - 1) * LargestTake)
  BY DEF OversellIsBounded
<1>1. SalesIInv /\ LinesAreChecked /\ ClaimsAreBounded
  BY DEF StockIInv
<1> DEFINE f == Claims(i)
           m == (Cardinality(Handlers) - 1) * LargestTake
<1>2. f \in [Handlers -> Int] /\ \A h \in Handlers : f[h] >= 0
  BY <1>1, ClaimsAreSmall DEF ClaimsType
<1>3. qty[i] - SumFunction(f) >= -m
  BY <1>1 DEF ClaimsAreBounded
<1>4. m \in Int /\ qty[i] \in Int
  <2>1. LargestTake \in Nat /\ Cardinality(Handlers) \in Nat
    BY MostOfOne, FiniteAssumption, FS_CardinalityType
  <2> QED BY <1>1, <2>1, InvariantParts DEF BooksType
<1> HIDE DEF f, m
<1>5. SumFunction(f) \in Nat
  BY <1>2, FiniteAssumption, TotalIsNat
<1>6. qty[i] >= -m
  BY <1>3, <1>4, <1>5
<1> QED BY <1>6 DEF m

\* A restart withdraws every claim.
LEMMA CrashStock ==
  ASSUME StockIInv, SalesIInv', ServerCrash
  PROVE  StockIInv'
<1>1. SalesIInv /\ LiveIsRecorded /\ StockLedger /\ OversellIsBounded
  BY StockIsBounded DEF StockIInv
<1>2. BooksType
  BY <1>1, InvariantParts
<1>3. /\ handler' = [h \in Handlers |-> Resting]
      /\ qty' = qty /\ sale' = sale /\ net' = net
  BY DEF ServerCrash, bookVars
<1>4. \A h \in Handlers : handler'[h].pc = "idle"
  BY <1>3 DEF Resting, Request
<1>5. LiveIsRecorded' /\ CancelsWhatWasSold' /\ LinesAreChecked'
  BY <1>1, <1>3, <1>4 DEF LiveIsRecorded, Recorded, CancelsWhatWasSold, LinesAreChecked
<1>6. StockLedger'
  BY <1>1, <1>2, <1>3, SoldStays DEF StockLedger
<1>7. ClaimsAreBounded'
  <2> SUFFICES ASSUME NEW i \in Items
               PROVE  qty'[i] - SumFunction(Claims(i)') >= -((Cardinality(Handlers) - 1) * LargestTake)
    BY DEF ClaimsAreBounded
  <2> DEFINE g == Claims(i)'
  <2>1. g \in [Handlers -> Int] /\ \A h \in Handlers : g[h] = 0
    BY <1>4 DEF Claims, Claim
  <2> HIDE DEF g
  <2>2. SumFunction(g) = 0
    BY <2>1, FiniteAssumption, TotalOfNone
  <2>3. qty[i] >= -((Cardinality(Handlers) - 1) * LargestTake) /\ qty[i] \in Int
    BY <1>1, <1>2 DEF OversellIsBounded, BooksType
  <2>4. qty'[i] - SumFunction(g) = qty[i]
    BY <1>3, <2>2, <2>3
  <2> QED BY <2>3, <2>4 DEF g
<1> QED BY <1>5, <1>6, <1>7 DEF StockIInv

LEMMA StockStep == StockIInv /\ SalesIInv' /\ [SalesNext]_salesVars => StockIInv'
<1> SUFFICES ASSUME StockIInv, SalesIInv', [SalesNext]_salesVars PROVE StockIInv'
  OBVIOUS
<1>1. ASSUME NEW h \in Handlers, NEW k \in Keys \cup {NoKey}, NEW c \in Carts, PostSale(h, k, c)
      PROVE  StockIInv'
  BY <1>1, PostSaleStock
<1>2. ASSUME NEW h \in Handlers, RecordStep(h) PROVE StockIInv'
  <2>1. ASSUME Lookup(h) PROVE StockIInv'
    BY <2>1, LookupStock
  <2>2. ASSUME NEW i \in Items, CheckLine(h, i) PROVE StockIInv'
    BY <2>2, CheckLineStock
  <2>3. ASSUME NEW s \in SaleIds, CommitSale(h, s) PROVE StockIInv'
    BY <2>3, CommitSaleStock
  <2>4. ASSUME DuplicateKey(h) PROVE StockIInv'
    <3>1. /\ UNCHANGED bookVars
          /\ Become(h, Request("reread", handler[h].key, handler[h].cart, {}, NoSale, "none"))
      BY <2>4 DEF DuplicateKey, Goto
    <3> QED BY <3>1, RestMoves
  <2>5. ASSUME ReplayWinner(h) PROVE StockIInv'
    <3>1. CASE stored[handler[h].key] # NoSale
      BY <2>5, <3>1, AnswerMoves DEF ReplayWinner
    <3>2. CASE stored[handler[h].key] = NoSale
      BY <2>5, <3>2, AnswerMoves DEF ReplayWinner
    <3> QED BY <3>1, <3>2
  <2>6. ASSUME SaleFails(h) PROVE StockIInv'
    BY <2>6, AnswerMoves DEF SaleFails
  <2> QED BY <1>2, <2>1, <2>2, <2>3, <2>4, <2>5, <2>6 DEF RecordStep
<1>3. ASSUME NEW h \in Handlers, Finish(h) PROVE StockIInv'
  BY <1>3, RestingMoves DEF Finish
<1>4. ASSUME NEW h \in Handlers, EditStep(h) PROVE StockIInv'
  <2>1. ASSUME NEW s \in SaleIds, CancelSale(h, s) PROVE StockIInv'
    BY <2>1, CancelSaleStock
  <2>2. ASSUME CommitCancel(h) PROVE StockIInv'
    BY <2>2, CommitCancelStock
  <2>3. ASSUME NEW i \in Items, NEW d \in Deltas, AdjustRead(h, i, d) PROVE StockIInv'
    BY <2>3, AdjustReadStock
  <2>4. ASSUME AdjustCommit(h) PROVE StockIInv'
    BY <2>4, AdjustCommitStock
  <2>5. ASSUME EditFails(h) PROVE StockIInv'
    BY <2>5, RestingMoves DEF EditFails
  <2> QED BY <1>4, <2>1, <2>2, <2>3, <2>4, <2>5 DEF EditStep
<1>5. ASSUME NEW i \in Items, NEW d \in Deltas, Purchase(i, d) PROVE StockIInv'
  BY <1>5, PurchaseStock
<1>6. ASSUME NEW k \in Keys, PurgeKey(k) PROVE StockIInv'
  BY <1>6, PurgeStock
<1>7. ASSUME ServerCrash PROVE StockIInv'
  BY <1>7, CrashStock
<1>8. ASSUME UNCHANGED salesVars PROVE StockIInv'
  <2>1. UNCHANGED bookVars /\ qty' = qty /\ net' = net /\ sale' = sale /\ handler' = handler
    BY <1>8 DEF salesVars, bookVars
  <2>2. SalesIInv /\ LiveIsRecorded /\ StockLedger /\ BooksType
    BY InvariantParts DEF StockIInv
  <2>3. LiveIsRecorded' /\ \A s \in SaleIds : sale'[s].cart = sale[s].cart
    BY <2>1, <2>2 DEF LiveIsRecorded, Recorded
  <2>4. StockLedger'
    BY <2>1, <2>2, SoldStays DEF StockLedger
  <2>5. \A j \in Items : qty'[j] >= qty[j]
    BY <2>1, <2>2 DEF BooksType
  <2>6. PICK h \in Handlers : TRUE
    BY FiniteAssumption
  <2> QED BY <2>1, <2>3, <2>4, <2>5, <2>6, StockMoves
<1> QED BY <1>1, <1>2, <1>3, <1>4, <1>5, <1>6, <1>7, <1>8 DEF SalesNext

LEMMA StockInit == SalesInit => StockIInv
<1> SUFFICES ASSUME SalesInit PROVE StockIInv
  OBVIOUS
<1>1. SalesIInv /\ BooksType
  BY InitSound, InvariantParts
<1>2. /\ \A i \in Items : qty[i] = Opening /\ net[i] = Opening
      /\ \A s \in SaleIds : sale[s].live = FALSE
      /\ \A h \in Handlers : handler[h].pc = "idle"
  BY DEF SalesInit, Unsold, Resting, Request
<1>3. LiveIsRecorded /\ CancelsWhatWasSold /\ LinesAreChecked
  BY <1>2 DEF LiveIsRecorded, CancelsWhatWasSold, LinesAreChecked
<1>4. StockLedger
  <2> SUFFICES ASSUME NEW i \in Items PROVE qty[i] = net[i] - SoldOf(i)
    BY DEF StockLedger
  <2> DEFINE f == [s \in SaleIds |-> Sold(s, i)]
  <2>1. f \in [SaleIds -> Int] /\ \A s \in SaleIds : f[s] = 0
    BY <1>1, <1>2, SoldIsInt DEF Sold
  <2>2. SoldOf(i) = SumFunction(f)
    BY DEF SoldOf, Sold
  <2> HIDE DEF f
  <2>3. SumFunction(f) = 0
    BY <2>1, FiniteAssumption, TotalOfNone
  <2> QED BY <1>2, <2>2, <2>3
<1>5. ClaimsAreBounded
  <2> SUFFICES ASSUME NEW i \in Items
               PROVE  qty[i] - SumFunction(Claims(i)) >= -((Cardinality(Handlers) - 1) * LargestTake)
    BY DEF ClaimsAreBounded
  <2> DEFINE f == Claims(i)
             m == (Cardinality(Handlers) - 1) * LargestTake
  <2>1. f \in [Handlers -> Int] /\ \A h \in Handlers : f[h] = 0
    BY <1>2 DEF Claims, Claim
  <2> HIDE DEF f
  <2>2. SumFunction(f) = 0
    BY <2>1, FiniteAssumption, TotalOfNone
  <2>3. m \in Nat
    <3>1. Cardinality(Handlers) \in Nat /\ Cardinality(Handlers) # 0
      BY FiniteAssumption, FS_CardinalityType, FS_EmptySet
    <3>2. Cardinality(Handlers) - 1 \in Nat /\ LargestTake \in Nat
      BY <3>1, MostOfOne
    <3> QED BY <3>2
  <2> HIDE DEF m
  <2>4. qty[i] - SumFunction(f) >= -m
    BY <1>2, <2>2, <2>3
  <2> QED BY <2>4 DEF f, m
<1> QED BY <1>1, <1>3, <1>4, <1>5 DEF StockIInv

\* The invariant of the books and of what the open requests may still take from them.
THEOREM StockInvariance == SalesSpec => []StockIInv
<1> QED BY SalesInvariance, StockInit, StockStep, PTL DEF SalesSpec

\* Goods are neither lost nor invented: for any number of sales and requests, the
\* stock is what came in minus what the sales that count have taken.
THEOREM StockAddsUp == SalesSpec => []StockLedger
<1>1. StockIInv => StockLedger
  BY DEF StockIInv
<1> QED BY <1>1, StockInvariance, PTL

\* However many requests sell at the same time, an item is oversold by at most
\* what the others can take; one request at a time never oversells.
THEOREM OversellBounded == SalesSpec => []OversellIsBounded
BY StockIsBounded, StockInvariance, PTL

-----------------------------------------------------------------------------
(* The promise of the books                                                *)

Told == {<<handler[h].key, handler[h].sale>> :
           h \in {x \in Handlers : handler[x].reply \in {"created", "replayed"}}}

LEMMA AnswersAreTrue == SuccessIsRecorded => Promise!ToldIsTrue
<1> SUFFICES ASSUME SuccessIsRecorded, NEW t \in Told
             PROVE  t[2] \in SaleIds /\ Promise!InBooks(t[2]) /\ sale[t[2]].key = t[1]
  BY DEF Promise!ToldIsTrue, Told
<1>1. PICK h \in Handlers : /\ handler[h].reply \in {"created", "replayed"}
                            /\ t = <<handler[h].key, handler[h].sale>>
  BY DEF Told
<1> QED
  BY <1>1 DEF SuccessIsRecorded, Recorded, Promise!InBooks

LEMMA AnswersAreTrueNext == (SuccessIsRecorded => Promise!ToldIsTrue)'
BY AnswersAreTrue, PTL

\* What a request does before it commits, and after, is not seen in the books.
LEMMA RequestIsUnseen ==
  ASSUME NEW h \in Handlers, SalesNext,
         ~\E s \in SaleIds : CommitSale(h, s), ~CommitCancel(h), ~AdjustCommit(h),
         RecordStep(h) \/ EditStep(h) \/ Finish(h)
  PROVE  UNCHANGED <<qty, sale, stored>>
BY DEF RecordStep, EditStep, Finish, Lookup, CheckLine, DuplicateKey, ReplayWinner, SaleFails,
       CancelSale, AdjustRead, EditFails, bookVars

LEMMA CommitIsSell ==
  ASSUME SalesIInv, NEW h \in Handlers, NEW s \in SaleIds, CommitSale(h, s)
  PROVE  \E k \in Keys \cup {NoKey}, c \in Carts : Promise!Sell(s, k, c)
<1>1. /\ handler[h].cart \in Carts /\ handler[h].key \in Keys \cup {NoKey}
      /\ qty \in [Items -> Int] /\ Carts \subseteq [Items -> Int]
  BY CartsAreLines DEF CommitSale, SalesIInv, SalesTypeOK, RequestsCarry
<1>2. PICK k \in Keys \cup {NoKey}, c \in Carts : k = handler[h].key /\ c = handler[h].cart
  BY <1>1
<1>3. /\ ~Promise!InBooks(s)
      /\ k \in Keys => stored[k] = NoSale
      /\ sale' = [sale EXCEPT ![s] = [key |-> k, cart |-> c, live |-> TRUE]]
      /\ stored' = [x \in Keys |-> IF x = k THEN s ELSE stored[x]]
  BY <1>2, KeyAssumption DEF CommitSale, Recorded, Promise!InBooks, KeyFree, KeyRows
<1>4. qty' = [i \in Items |-> qty[i] + [j \in Items |-> -c[j]][i]]
  <2>1. qty' = [i \in Items |-> qty[i] - c[i]]
    BY <1>2 DEF CommitSale, Take
  <2>2. \A i \in Items : qty[i] - c[i] = qty[i] + [j \in Items |-> -c[j]][i]
    BY <1>1
  <2> QED
    BY <2>1, <2>2
<1>5. Promise!Sell(s, k, c)
  BY <1>3, <1>4 DEF Promise!Sell, Promise!Move
<1> QED
  BY <1>5

LEMMA CommitCancelIsCancel ==
  ASSUME StockIInv, NEW h \in Handlers, CommitCancel(h)
  PROVE  (\E s \in SaleIds : Promise!Cancel(s)) \/ UNCHANGED <<qty, sale, stored>>
<1>1. CASE ~StillLive(h)
  BY <1>1 DEF CommitCancel
<1>2. CASE StillLive(h)
  <2>1. PICK s \in SaleIds : s = handler[h].sale
    BY DEF CommitCancel, StockIInv, SalesIInv, RequestsCarry
  <2>2. /\ sale[s].live /\ Recorded(s) /\ handler[h].cart = sale[s].cart
    BY <1>2, <2>1 DEF CommitCancel, StillLive, StockIInv, CancelsWhatWasSold
  <2>3. sale' = [sale EXCEPT ![s] = [key |-> sale[s].key, cart |-> sale[s].cart, live |-> FALSE]]
    BY <1>2, <2>1 DEF CommitCancel
  <2>4. qty' = [i \in Items |-> qty[i] + sale[s].cart[i]] /\ stored' = stored
    BY <1>2, <2>2 DEF CommitCancel, Give
  <2> QED
    BY <2>2, <2>3, <2>4 DEF Promise!Cancel, Promise!InBooks, Promise!Move, Recorded
<1> QED
  BY <1>1, <1>2

LEMMA OnlyIsStock ==
  ASSUME NEW i \in Items, NEW d \in Deltas, qty' = Give(qty, Only(i, d)), UNCHANGED <<sale, stored>>
  PROVE  Promise!Stock(i, d)
BY DEF Give, Only, Promise!Stock, Promise!Move

LEMMA LedgerStep ==
  ASSUME StockIInv, SuccessIsRecorded', SalesNext
  PROVE  Promise!Next
<1>1. Promise!ToldIsTrue'
  BY AnswersAreTrueNext
<1>2. CASE UNCHANGED <<qty, sale, stored>>
  BY <1>1, <1>2 DEF Promise!Next, Promise!books
<1>3. ASSUME NEW h \in Handlers, NEW s \in SaleIds, CommitSale(h, s) PROVE Promise!Next
  BY <1>1, <1>3, CommitIsSell DEF Promise!Next, StockIInv
<1>4. ASSUME NEW h \in Handlers, CommitCancel(h) PROVE Promise!Next
  BY <1>1, <1>2, <1>4, CommitCancelIsCancel DEF Promise!Next
<1>5. ASSUME NEW i \in Items, NEW d \in Deltas, Promise!Stock(i, d) PROVE Promise!Next
  BY <1>1, <1>5 DEF Promise!Next
<1>6. ASSUME NEW h \in Handlers, AdjustCommit(h) PROVE Promise!Next
  <2>1. PICK i \in Items, d \in Deltas : handler[h].cart = Only(i, d)
    BY <1>6 DEF AdjustCommit, StockIInv, LinesAreChecked
  <2> QED
    BY <1>5, <1>6, <2>1, OnlyIsStock DEF AdjustCommit
<1>7. ASSUME NEW i \in Items, NEW d \in Deltas, Purchase(i, d) PROVE Promise!Next
  BY <1>5, <1>7, OnlyIsStock DEF Purchase
<1>8. ASSUME NEW k \in Keys, PurgeKey(k) PROVE Promise!Next
  <2>1. stored \in [Keys -> SaleIds \cup {NoSale}]
    BY DEF StockIInv, SalesIInv, SalesTypeOK
  <2>2. Promise!Forget(k)
    BY <1>8, <2>1 DEF PurgeKey, Promise!Forget
  <2> QED
    BY <1>1, <2>2 DEF Promise!Next
<1>9. ASSUME NEW h \in Handlers, RecordStep(h) \/ EditStep(h) \/ Finish(h) PROVE Promise!Next
  BY <1>2, <1>3, <1>4, <1>6, <1>9, RequestIsUnseen
<1>10. ASSUME NEW h \in Handlers, NEW k \in Keys \cup {NoKey}, NEW c \in Carts, PostSale(h, k, c)
       PROVE  Promise!Next
  BY <1>2, <1>10 DEF PostSale, bookVars
<1>11. ASSUME ServerCrash PROVE Promise!Next
  BY <1>2, <1>11 DEF ServerCrash, bookVars
<1> QED
  BY <1>7, <1>8, <1>9, <1>10, <1>11 DEF SalesNext

\* The books are atomic: however requests interleave, fail, repeat and are cut short,
\* each step of the server records one whole sale, cancels one, moves the stock of an
\* item or forgets a key, and every answer of success on its way is true.
THEOREM BooksAreAtomic == SalesSpec => ImplementsLedger
<1>1. SalesInit => Promise!Init
  <2> SUFFICES ASSUME SalesInit PROVE Promise!Init
    OBVIOUS
  <2>1. /\ qty = [i \in Items |-> Opening] /\ stored = [k \in Keys |-> NoSale]
        /\ \A s \in SaleIds : sale[s].cart = NoLines
        /\ \A h \in Handlers : handler[h].reply = "none"
    BY DEF SalesInit, Unsold, Resting, Request
  <2> QED
    BY <2>1 DEF Promise!Init, Promise!InBooks
<1>2. StockIInv /\ SuccessIsRecorded' /\ [SalesNext]_salesVars => [Promise!Next]_<<Promise!books, Told>>
  <2>1. ASSUME UNCHANGED salesVars PROVE UNCHANGED <<Promise!books, Told>>
    BY <2>1 DEF salesVars, bookVars, Promise!books, Told
  <2> QED
    BY <2>1, LedgerStep
<1> QED
  BY <1>1, <1>2, StockInvariance, AnswersAreRecorded, PTL DEF SalesSpec, ImplementsLedger, Promise!Spec, Told
=============================================================================
