-------------------------- MODULE ServerLocksProofs --------------------------
(***************************************************************************)
(* Proofs about ServerLocks, for any number of requests of any endpoints.  *)
(*                                                                         *)
(* How handlers can block each other depends on what they hold when they   *)
(* ask for a lock, and this on the order of the operations of their paths. *)
(* Fits says which modes go together; a path is Proper if every            *)
(* acquisition in it fits what the operations before it leave held.  Every *)
(* path of every endpoint is, as it is put together from pieces that are   *)
(* (Balanced), and what is left of a proper path is proper.                *)
(***************************************************************************)
EXTENDS ServerLocks, TLAPS

ModeOf(do) == IF do = "drop" THEN "none" ELSE do

\* Operation op may ask for its lock while m is held in that mode: no lock is asked
\* for twice; only readers of one lock ask for the other, only writers that hold the
\* store to read ask for the index to write, and nobody asks for the store to write
\* who holds the index.
Fits(op, m, mode) ==
  /\ m = op.lock => mode = "none"
  /\ m # op.lock => mode \in {"none", "read"}
  /\ m = "store" /\ op = Write("index") => mode = "read"
  /\ m = "index" /\ op = Write("store") => mode = "none"

\* The last operation on m before the k-th one is the j-th.
IsLast(t, j, k, m) ==
  t[j].lock = m /\ \A i \in 1..(k - 1) : j < i => t[i].lock # m

\* The acquisitions of t fit what is held, h[m] of each lock m to begin with.
Proper(t, h) ==
  \A k \in 1..Len(t), m \in Locks :
    t[k].do # "drop" =>
      /\ \A j \in 1..(k - 1) : IsLast(t, j, k, m) => Fits(t[k], m, ModeOf(t[j].do))
      /\ (\A j \in 1..(k - 1) : t[j].lock # m) => Fits(t[k], m, h[m])

\* In the end nothing is held.
Ending(t, h) ==
  \A m \in Locks :
    /\ \A j \in 1..Len(t) : IsLast(t, j, Len(t) + 1, m) => t[j].do = "drop"
    /\ (\A j \in 1..Len(t) : t[j].lock # m) => h[m] = "none"

Nothing == [m \in Locks |-> "none"]

Balanced(t) == t \in Seq(Operations) /\ Proper(t, Nothing) /\ Ending(t, Nothing)

-----------------------------------------------------------------------------
(* Paths *)

\* What is left of a path after its first operation.
LEMMA Remaining ==
  ASSUME NEW t \in Seq(Operations), t # << >>, NEW h, NEW g,
         Proper(t, h), Ending(t, h),
         \A m \in Locks : g[m] = IF m = Head(t).lock THEN ModeOf(Head(t).do) ELSE h[m]
  PROVE  Proper(Tail(t), g) /\ Ending(Tail(t), g)
<1> DEFINE u == Tail(t)
<1>1. /\ Len(t) \in Nat /\ Len(t) > 0 /\ Len(u) = Len(t) - 1 /\ Head(t) = t[1]
      /\ \A i \in 1..Len(u) : u[i] = t[i + 1]
  OBVIOUS
<1> HIDE DEF u
<1>2. ASSUME NEW k \in 1..(Len(u) + 1), NEW j \in 1..(k - 1), NEW m, IsLast(u, j, k, m)
      PROVE  j + 1 \in 1..k /\ IsLast(t, j + 1, k + 1, m)
  <2>1. ASSUME NEW i \in 1..k, j + 1 < i PROVE t[i].lock # m
    <3>1. i - 1 \in 1..(k - 1) /\ j < i - 1 /\ i - 1 \in 1..Len(u)
      BY <1>1, <2>1
    <3>2. u[i - 1] = t[i]
      BY <3>1, <1>1
    <3> QED
      BY <3>1, <3>2, <1>2 DEF IsLast
  <2>2. j \in 1..Len(u) /\ u[j] = t[j + 1]
    BY <1>1
  <2> QED
    BY <2>1, <2>2, <1>1, <1>2 DEF IsLast
<1>3. ASSUME NEW k \in 1..(Len(u) + 1), NEW m \in Locks, \A j \in 1..(k - 1) : u[j].lock # m
      PROVE  /\ m = Head(t).lock => IsLast(t, 1, k + 1, m)
             /\ m # Head(t).lock => \A j \in 1..k : t[j].lock # m
  <2>1. ASSUME NEW i \in 2..k PROVE t[i].lock # m
    <3>1. i - 1 \in 1..(k - 1) /\ i - 1 \in 1..Len(u) /\ (i - 1) + 1 = i
      BY <1>1
    <3> QED
      BY <3>1, <1>1, <1>3
  <2> QED
    BY <2>1, <1>1 DEF IsLast
<1>4. Proper(u, g)
  <2> SUFFICES ASSUME NEW k \in 1..Len(u), NEW m \in Locks, u[k].do # "drop"
               PROVE  /\ \A j \in 1..(k - 1) : IsLast(u, j, k, m) => Fits(u[k], m, ModeOf(u[j].do))
                      /\ (\A j \in 1..(k - 1) : u[j].lock # m) => Fits(u[k], m, g[m])
    BY DEF Proper
  <2>1. k \in 1..(Len(u) + 1) /\ k + 1 \in 1..Len(t) /\ u[k] = t[k + 1] /\ (k + 1) - 1 = k
    BY <1>1
  <2>2. /\ \A j \in 1..k : IsLast(t, j, k + 1, m) => Fits(t[k + 1], m, ModeOf(t[j].do))
        /\ (\A j \in 1..k : t[j].lock # m) => Fits(t[k + 1], m, h[m])
    BY <2>1 DEF Proper
  <2>3. ASSUME NEW j \in 1..(k - 1), IsLast(u, j, k, m) PROVE Fits(u[k], m, ModeOf(u[j].do))
    <3>1. j + 1 \in 1..k /\ IsLast(t, j + 1, k + 1, m)
      BY <2>1, <2>3, <1>2
    <3>2. u[j] = t[j + 1]
      BY <1>1
    <3> QED
      BY <2>1, <2>2, <3>1, <3>2
  <2>4. ASSUME \A j \in 1..(k - 1) : u[j].lock # m PROVE Fits(u[k], m, g[m])
    <3>1. CASE m = Head(t).lock
      BY <2>1, <2>2, <2>4, <3>1, <1>1, <1>3
    <3>2. CASE m # Head(t).lock
      BY <2>1, <2>2, <2>4, <3>2, <1>3
    <3> QED
      BY <3>1, <3>2
  <2> QED
    BY <2>3, <2>4
<1>5. Ending(u, g)
  <2> SUFFICES ASSUME NEW m \in Locks
               PROVE  /\ \A j \in 1..Len(u) : IsLast(u, j, Len(u) + 1, m) => u[j].do = "drop"
                      /\ (\A j \in 1..Len(u) : u[j].lock # m) => g[m] = "none"
    BY DEF Ending
  <2> DEFINE k == Len(u) + 1
  <2>1. k \in 1..(Len(u) + 1) /\ k = Len(t) /\ k - 1 = Len(u)
    BY <1>1
  <2> HIDE DEF k
  <2>2. ASSUME NEW j \in 1..(k - 1), IsLast(u, j, k, m) PROVE u[j].do = "drop"
    BY <2>1, <2>2, <1>1, <1>2 DEF Ending
  <2>3. ASSUME \A j \in 1..(k - 1) : u[j].lock # m PROVE g[m] = "none"
    <3>1. CASE m = Head(t).lock
      BY <2>1, <2>3, <3>1, <1>1, <1>3 DEF Ending, ModeOf
    <3>2. CASE m # Head(t).lock
      BY <2>1, <2>3, <3>2, <1>3 DEF Ending
    <3> QED
      BY <3>1, <3>2
  <2> QED
    BY <2>1, <2>2, <2>3 DEF k
<1> QED
  BY <1>4, <1>5 DEF u

\* One balanced path after another.
LEMMA Joined == ASSUME NEW p, NEW q, Balanced(p), Balanced(q) PROVE Balanced(p \o q)
<1> DEFINE t == p \o q
           n == Len(p)
<1>1. /\ p \in Seq(Operations) /\ q \in Seq(Operations)
      /\ t \in Seq(Operations) /\ n \in Nat /\ Len(q) \in Nat /\ Len(t) = n + Len(q)
      /\ \A i \in 1..n : t[i] = p[i]
      /\ \A i \in 1..Len(q) : t[n + i] = q[i]
  BY DEF Balanced
<1>2. \A m \in Locks : Nothing[m] = "none"
  BY DEF Nothing
<1> HIDE DEF t, n
<1>3. ASSUME NEW k \in 1..(Len(t) + 1), k > n, NEW j \in 1..(k - 1), NEW m \in Locks,
             IsLast(t, j, k, m)
      PROVE  \/ /\ j > n /\ IsLast(q, j - n, k - n, m)
             \/ /\ j <= n /\ p[j].do = "drop"
                /\ \A i \in 1..((k - n) - 1) : q[i].lock # m
  <2>1. CASE j > n
    <3>1. j - n \in 1..Len(q) /\ n + (j - n) = j
      BY <1>1, <2>1
    <3>2. ASSUME NEW i \in 1..((k - n) - 1), j - n < i PROVE q[i].lock # m
      <4>1. n + i \in 1..(k - 1) /\ j < n + i /\ i \in 1..Len(q)
        BY <1>1, <3>1, <3>2
      <4> QED
        BY <4>1, <1>1, <1>3 DEF IsLast
    <3> QED
      BY <3>1, <3>2, <1>1, <1>3, <2>1 DEF IsLast
  <2>2. CASE j <= n
    <3>1. j \in 1..n
      BY <1>1, <2>2
    <3>2. ASSUME NEW i \in 1..n, j < i PROVE p[i].lock # m
      <4>1. i \in 1..(k - 1)
        BY <1>1, <1>3
      <4> QED
        BY <4>1, <3>2, <1>1, <1>3 DEF IsLast
    <3>3. IsLast(p, j, n + 1, m)
      BY <3>1, <3>2, <1>1, <1>3 DEF IsLast
    <3>4. p[j].do = "drop"
      BY <3>1, <3>3 DEF Balanced, Ending, n
    <3>5. ASSUME NEW i \in 1..((k - n) - 1) PROVE q[i].lock # m
      <4>1. n + i \in 1..(k - 1) /\ j < n + i /\ i \in 1..Len(q)
        BY <1>1, <3>1
      <4> QED
        BY <4>1, <1>1, <1>3 DEF IsLast
    <3> QED
      BY <2>2, <3>4, <3>5
  <2> QED
    BY <2>1, <2>2, <1>1
<1>4. Proper(t, Nothing)
  <2> SUFFICES ASSUME NEW k \in 1..Len(t), NEW m \in Locks, t[k].do # "drop"
               PROVE  /\ \A j \in 1..(k - 1) : IsLast(t, j, k, m) => Fits(t[k], m, ModeOf(t[j].do))
                      /\ (\A j \in 1..(k - 1) : t[j].lock # m) => Fits(t[k], m, Nothing[m])
    BY DEF Proper
  <2>1. CASE k <= n
    <3>1. k \in 1..n /\ \A j \in 1..(k - 1) : j \in 1..n
      BY <1>1, <2>1
    <3>2. \A j \in 1..(k - 1) : IsLast(t, j, k, m) => IsLast(p, j, k, m)
      BY <1>1, <3>1 DEF IsLast
    <3>3. /\ \A j \in 1..(k - 1) : IsLast(p, j, k, m) => Fits(p[k], m, ModeOf(p[j].do))
          /\ (\A j \in 1..(k - 1) : p[j].lock # m) => Fits(p[k], m, Nothing[m])
      BY <3>1, <1>1 DEF Balanced, Proper, n
    <3> QED
      BY <3>1, <3>2, <3>3, <1>1
  <2>2. CASE k > n
    <3>1. k - n \in 1..Len(q) /\ t[k] = q[k - n] /\ k \in 1..(Len(t) + 1)
      <4>1. k - n \in 1..Len(q) /\ n + (k - n) = k
        BY <1>1, <2>2
      <4> QED
        BY <4>1, <1>1
    <3>2. /\ \A j \in 1..((k - n) - 1) : IsLast(q, j, k - n, m) => Fits(q[k - n], m, ModeOf(q[j].do))
          /\ (\A j \in 1..((k - n) - 1) : q[j].lock # m) => Fits(q[k - n], m, "none")
      BY <3>1, <1>1, <1>2 DEF Balanced, Proper
    <3>3. ASSUME NEW j \in 1..(k - 1), IsLast(t, j, k, m) PROVE Fits(t[k], m, ModeOf(t[j].do))
      <4>1. CASE j > n
        <5>1. j - n \in 1..((k - n) - 1) /\ j - n \in 1..Len(q) /\ n + (j - n) = j
          BY <1>1, <3>1, <4>1
        <5>2. t[j] = q[j - n] /\ ~(j <= n)
          BY <5>1, <1>1, <4>1
        <5>3. IsLast(q, j - n, k - n, m)
          BY <5>2, <1>3, <3>1, <3>3, <2>2
        <5> QED
          BY <5>1, <5>2, <5>3, <3>1, <3>2
      <4>2. CASE j <= n
        <5>1. p[j].do = "drop" /\ \A i \in 1..((k - n) - 1) : q[i].lock # m
          BY <1>1, <1>3, <3>1, <3>3, <2>2, <4>2
        <5>2. t[j] = p[j]
          BY <1>1, <4>2
        <5> QED
          BY <5>1, <5>2, <3>1, <3>2 DEF ModeOf
      <4> QED
        BY <4>1, <4>2, <1>1
    <3>4. ASSUME \A j \in 1..(k - 1) : t[j].lock # m PROVE Fits(t[k], m, Nothing[m])
      <4>1. ASSUME NEW j \in 1..((k - n) - 1) PROVE q[j].lock # m
        <5>1. n + j \in 1..(k - 1) /\ j \in 1..Len(q)
          BY <1>1, <3>1
        <5> QED
          BY <5>1, <1>1, <3>4
      <4> QED
        BY <4>1, <3>1, <3>2, <1>2
    <3> QED
      BY <3>3, <3>4
  <2> QED
    BY <2>1, <2>2, <1>1
<1>5. Ending(t, Nothing)
  <2> SUFFICES ASSUME NEW m \in Locks, NEW j \in 1..Len(t), IsLast(t, j, Len(t) + 1, m)
               PROVE  t[j].do = "drop"
    BY <1>2 DEF Ending
  <2> DEFINE k == Len(t) + 1
  <2>1. k \in 1..(Len(t) + 1) /\ k > n /\ j \in 1..(k - 1) /\ k - n = Len(q) + 1
    BY <1>1
  <2>2. IsLast(t, j, k, m)
    OBVIOUS
  <2> HIDE DEF k
  <2>3. CASE j > n
    <3>1. j - n \in 1..Len(q) /\ n + (j - n) = j
      BY <1>1, <2>3
    <3>2. t[j] = q[j - n] /\ ~(j <= n)
      BY <3>1, <1>1, <2>3
    <3>3. IsLast(q, j - n, k - n, m)
      BY <3>2, <1>3, <2>1, <2>2
    <3>4. IsLast(q, j - n, Len(q) + 1, m)
      BY <3>3, <2>1
    <3> QED
      BY <3>1, <3>2, <3>4 DEF Balanced, Ending
  <2>4. CASE j <= n
    BY <1>1, <1>3, <2>1, <2>2, <2>4
  <2> QED
    BY <2>3, <2>4, <1>1
<1> QED
  BY <1>1, <1>4, <1>5 DEF Balanced, t

AllBalanced(paths) == \A t \in paths : Balanced(t)

LEMMA ThenBalanced ==
  ASSUME NEW ps, NEW qs, AllBalanced(ps), AllBalanced(qs) PROVE AllBalanced(Then(ps, qs))
<1> SUFFICES ASSUME NEW t \in Then(ps, qs) PROVE Balanced(t)
  BY DEF AllBalanced
<1>1. PICK p \in ps, q \in qs : t = p \o q
  BY DEF Then
<1>2. Balanced(p) /\ Balanced(q)
  BY DEF AllBalanced
<1>3. Balanced(p \o q)
  BY <1>2, Joined
<1> QED
  BY <1>1, <1>3

LEMMA EmptyBalanced == Balanced(<< >>)
<1>1. << >> \in Seq(Operations) /\ 1..Len(<< >>) = {}
  OBVIOUS
<1>2. Proper(<< >>, Nothing)
  BY <1>1 DEF Proper
<1>3. Ending(<< >>, Nothing)
  BY <1>1 DEF Ending, Nothing
<1> QED
  BY <1>1, <1>2, <1>3 DEF Balanced

LEMMA MaybeBalanced ==
  ASSUME NEW paths, AllBalanced(paths) PROVE AllBalanced(Maybe(paths))
BY EmptyBalanced DEF AllBalanced, Maybe

\* Balanced, for a path written out: operation by operation.
LEMMA BriefBalanced ==
  AllBalanced(StoreRead) /\ AllBalanced(StoreWrite)
<1>1. ASSUME NEW do \in {"read", "write"}
      PROVE  Balanced(<<[lock |-> "store", do |-> do], [lock |-> "store", do |-> "drop"]>>)
  <2> DEFINE t == <<[lock |-> "store", do |-> do], [lock |-> "store", do |-> "drop"]>>
  <2>1. /\ t \in Seq(Operations) /\ Len(t) = 2
        /\ t[1].lock = "store" /\ t[1].do = do /\ t[2].lock = "store" /\ t[2].do = "drop"
    BY DEF Operations, Locks
  <2> HIDE DEF t
  <2>2. Proper(t, Nothing)
    BY <2>1 DEF Proper, IsLast, Fits, ModeOf, Nothing, Locks, Write
  <2>3. Ending(t, Nothing)
    BY <2>1 DEF Ending, IsLast, Nothing, Locks
  <2> QED
    BY <2>1, <2>2, <2>3 DEF Balanced, t
<1> QED
  BY <1>1 DEF AllBalanced, StoreRead, StoreWrite, Brief, Read, Write, Drop

LEMMA MergeBalanced == AllBalanced(MergeIndex)
<1> DEFINE t == <<Read("store"), Write("index"), Drop("index"), Drop("store")>>
<1>1. /\ t \in Seq(Operations) /\ Len(t) = 4
      /\ t[1] = [lock |-> "store", do |-> "read"] /\ t[2] = [lock |-> "index", do |-> "write"]
      /\ t[3] = [lock |-> "index", do |-> "drop"] /\ t[4] = [lock |-> "store", do |-> "drop"]
  BY DEF Operations, Locks, Read, Write, Drop
<1> HIDE DEF t
<1>2. Proper(t, Nothing)
  BY <1>1 DEF Proper, IsLast, Fits, ModeOf, Nothing, Locks, Write
<1>3. Ending(t, Nothing)
  BY <1>1 DEF Ending, IsLast, Nothing, Locks
<1> QED
  BY <1>1, <1>2, <1>3 DEF Balanced, t, AllBalanced, MergeIndex

LEMMA RecallBalanced == AllBalanced(RecallPaths)
<1> DEFINE t == <<Read("store"), Read("index"), Drop("store"),
                  Read("store"), Drop("store"), Drop("index")>>
<1>1. /\ t \in Seq(Operations) /\ Len(t) = 6
      /\ t[1] = [lock |-> "store", do |-> "read"] /\ t[2] = [lock |-> "index", do |-> "read"]
      /\ t[3] = [lock |-> "store", do |-> "drop"] /\ t[4] = [lock |-> "store", do |-> "read"]
      /\ t[5] = [lock |-> "store", do |-> "drop"] /\ t[6] = [lock |-> "index", do |-> "drop"]
  BY DEF Operations, Locks, Read, Drop
<1> HIDE DEF t
<1>2. Proper(t, Nothing)
  BY <1>1 DEF Proper, IsLast, Fits, ModeOf, Nothing, Locks, Write
<1>3. Ending(t, Nothing)
  BY <1>1 DEF Ending, IsLast, Nothing, Locks
<1> QED
  BY <1>1, <1>2, <1>3 DEF Balanced, t, AllBalanced, RecallPaths

LEMMA SearchBalanced == AllBalanced(SearchPaths)
<1> DEFINE t == <<Read("store"), Read("index"), Drop("store"), Read("store"), Drop("store"),
                  Read("store"), Drop("store"), Drop("index")>>
<1>1. /\ t \in Seq(Operations) /\ Len(t) = 8
      /\ t[1] = [lock |-> "store", do |-> "read"] /\ t[2] = [lock |-> "index", do |-> "read"]
      /\ t[3] = [lock |-> "store", do |-> "drop"] /\ t[4] = [lock |-> "store", do |-> "read"]
      /\ t[5] = [lock |-> "store", do |-> "drop"] /\ t[6] = [lock |-> "store", do |-> "read"]
      /\ t[7] = [lock |-> "store", do |-> "drop"] /\ t[8] = [lock |-> "index", do |-> "drop"]
  BY DEF Operations, Locks, Read, Drop
<1> HIDE DEF t
<1>2. Proper(t, Nothing)
  BY <1>1 DEF Proper, IsLast, Fits, ModeOf, Nothing, Locks, Write
<1>3. Ending(t, Nothing)
  BY <1>1 DEF Ending, IsLast, Nothing, Locks
<1>4. Balanced(t)
  BY <1>1, <1>2, <1>3 DEF Balanced
<1> QED
  BY <1>4, MaybeBalanced DEF t, AllBalanced, SearchPaths

\* Every path of every endpoint is balanced.
LEMMA PathsBalanced == ASSUME NEW e \in AllEndpoints PROVE AllBalanced(Paths(e))
<1>1. /\ AllBalanced(Maybe(StoreRead)) /\ AllBalanced(Maybe(StoreWrite))
      /\ AllBalanced(Then(StoreRead, StoreRead)) /\ AllBalanced(Then(StoreRead, StoreWrite))
  BY BriefBalanced, MaybeBalanced, ThenBalanced
<1>2. AllBalanced(RememberPaths)
  <2>1. AllBalanced(Maybe(Then(Maybe(StoreRead), Maybe(StoreRead))))
    BY <1>1, MaybeBalanced, ThenBalanced
  <2>2. AllBalanced(Maybe(Then(Maybe(StoreWrite), MergeIndex)))
    BY <1>1, MaybeBalanced, ThenBalanced, MergeBalanced
  <2>3. AllBalanced(Then(StoreWrite, Maybe(Then(Maybe(StoreWrite), MergeIndex))))
    BY <2>2, BriefBalanced, ThenBalanced
  <2>4. AllBalanced(Then(Maybe(StoreRead), Maybe(Then(Maybe(StoreRead), Maybe(StoreRead)))))
    BY <1>1, <2>1, ThenBalanced
  <2> QED
    BY <2>3, <2>4, ThenBalanced DEF RememberPaths
<1>3. AllBalanced(IngestPaths)
  <2>1. AllBalanced(Then(StoreWrite, MergeIndex))
    BY BriefBalanced, MergeBalanced, ThenBalanced
  <2>2. AllBalanced(Then(StoreRead, Then(StoreWrite, MergeIndex)))
    BY <2>1, BriefBalanced, ThenBalanced
  <2> QED
    BY <2>2, MaybeBalanced DEF IngestPaths
<1>4. AllBalanced(ConnectPaths)
  <2>1. AllBalanced(Then(Then(StoreRead, StoreRead), StoreWrite))
    BY <1>1, BriefBalanced, ThenBalanced
  <2> QED
    BY <1>1, <2>1, ThenBalanced DEF ConnectPaths
<1>5. AllBalanced(Maybe(Then(Maybe(StoreRead), MergeIndex)))
  <2>1. AllBalanced(Then(Maybe(StoreRead), MergeIndex))
    BY <1>1, MergeBalanced, ThenBalanced
  <2> QED
    BY <2>1, MaybeBalanced
<1>6. AllBalanced(CreateEntitiesPaths)
  BY <1>1, <1>5, ThenBalanced DEF CreateEntitiesPaths, ResolveWritePaths
<1>7. AllBalanced(BatchPaths)
  <2>1. AllBalanced(Maybe(Then(StoreRead, StoreRead)))
    BY <1>1, MaybeBalanced
  <2>2. AllBalanced(Then(Maybe(StoreRead), Maybe(StoreRead)))
    BY <1>1, ThenBalanced
  <2>3. AllBalanced(Then(Maybe(Then(StoreRead, StoreRead)), Then(Maybe(StoreRead), Maybe(StoreRead))))
    BY <2>1, <2>2, ThenBalanced
  <2>4. AllBalanced(Then(StoreWrite, Maybe(Then(Maybe(StoreRead), MergeIndex))))
    BY <1>5, BriefBalanced, ThenBalanced
  <2> QED
    BY <2>3, <2>4, ThenBalanced DEF BatchPaths
<1>8. AllBalanced(LearnPaths)
  <2>1. AllBalanced(Then(StoreWrite, Maybe(StoreWrite)))
    BY <1>1, BriefBalanced, ThenBalanced
  <2> QED
    BY <2>1, MaybeBalanced DEF LearnPaths
<1>9. /\ AllBalanced(ResolveWritePaths) /\ AllBalanced(WritePaths) /\ AllBalanced(LookupPaths)
  BY <1>1, BriefBalanced DEF ResolveWritePaths, WritePaths, LookupPaths
<1> QED
  BY <1>2, <1>3, <1>4, <1>6, <1>7, <1>8, <1>9, RecallBalanced, SearchBalanced
     DEF Paths, AllEndpoints

-----------------------------------------------------------------------------
(* The queues *)

\* A queue holds members of W, each at most once.
Line(q, W) ==
  /\ q \in Seq(Requests)
  /\ \A i \in 1..Len(q) : q[i] \in W
  /\ \A i, j \in 1..Len(q) : q[i] = q[j] => i = j

\* Those who may be in the queue of lock l.
Waiters(l) ==
  {r \in Requests : Running(r) /\ At(r, {"read", "write"}) /\ Head(todo[r]).lock = l}

Types ==
  /\ serving \in [Requests -> Endpoints \cup {NoRequest}]
  /\ todo \in [Requests -> Seq(Operations)]
  /\ held \in [Locks -> [Requests -> {"none", "read", "write"}]]
  /\ DOMAIN queue = Locks /\ queue = [l \in Locks |-> queue[l]]

LEMMA TypeOKParts == TypeOK <=> Types /\ \A l \in Locks : Line(queue[l], Waiters(l))
<1>1. ASSUME TypeOK PROVE Types /\ \A l \in Locks : Line(queue[l], Waiters(l))
  <2>1. Types
    BY <1>1 DEF TypeOK, Types
  <2>2. ASSUME NEW l \in Locks PROVE Line(queue[l], Waiters(l))
    <3>1. queue[l] \in Seq(Requests) /\ \A i \in 1..Len(queue[l]) : queue[l][i] \in Requests
      BY <1>1 DEF TypeOK
    <3>2. \A i \in 1..Len(queue[l]) :
            LET r == queue[l][i]
            IN /\ Running(r) /\ At(r, {"read", "write"}) /\ Head(todo[r]).lock = l
               /\ \A j \in 1..Len(queue[l]) : queue[l][j] = r => j = i
      BY <1>1 DEF TypeOK
    <3> QED
      BY <3>1, <3>2 DEF Line, Waiters
  <2> QED
    BY <2>1, <2>2
<1>2. ASSUME Types, \A l \in Locks : Line(queue[l], Waiters(l)) PROVE TypeOK
  <2>1. queue \in [Locks -> Seq(Requests)]
    BY <1>2 DEF Types, Line
  <2>2. ASSUME NEW l \in Locks, NEW i \in 1..Len(queue[l])
        PROVE  LET r == queue[l][i]
               IN /\ Running(r) /\ At(r, {"read", "write"}) /\ Head(todo[r]).lock = l
                  /\ \A j \in 1..Len(queue[l]) : queue[l][j] = r => j = i
    BY <1>2 DEF Line, Waiters
  <2> QED
    BY <1>2, <2>1, <2>2 DEF TypeOK, Types
<1> QED
  BY <1>1, <1>2

LEMMA TypeOKPartsNext ==
  (TypeOK <=> Types /\ \A l \in Locks : Line(queue[l], Waiters(l)))'
BY TypeOKParts, PTL

\* Members other than r stay waiters.
LEMMA LineStays ==
  ASSUME NEW q, NEW W, NEW V, NEW r, Line(q, W), \A i \in 1..Len(q) : q[i] # r, W \ {r} \subseteq V
  PROVE  Line(q, V)
BY DEF Line

LEMMA LineAppend ==
  ASSUME NEW q, NEW W, NEW r \in W, W \subseteq Requests, Line(q, W), \A i \in 1..Len(q) : q[i] # r
  PROVE  Line(Append(q, r), W)
<1>1. /\ q \in Seq(Requests) /\ r \in Requests /\ Len(q) \in Nat
      /\ Append(q, r) \in Seq(Requests) /\ Len(Append(q, r)) = Len(q) + 1
      /\ Append(q, r)[Len(q) + 1] = r
      /\ \A i \in 1..Len(q) : Append(q, r)[i] = q[i]
  BY DEF Line
<1>2. \A i \in 1..(Len(q) + 1) : i \in 1..Len(q) \/ i = Len(q) + 1
  BY <1>1
<1> QED
  BY <1>1, <1>2 DEF Line

LEMMA LineTail ==
  ASSUME NEW q, NEW W, Line(q, W), q # << >>
  PROVE  Line(Tail(q), W) /\ Head(q) \in W /\ \A i \in 1..Len(Tail(q)) : Tail(q)[i] # Head(q)
<1>1. /\ q \in Seq(Requests) /\ Len(q) \in Nat /\ Len(q) > 0
      /\ Tail(q) \in Seq(Requests) /\ Len(Tail(q)) = Len(q) - 1 /\ Head(q) = q[1]
      /\ \A i \in 1..Len(Tail(q)) : Tail(q)[i] = q[i + 1]
  BY DEF Line
<1>2. \A i \in 1..(Len(q) - 1) : i + 1 \in 1..Len(q) /\ i + 1 # 1
  BY <1>1
<1>3. \A i, j \in 1..(Len(q) - 1) : i + 1 = j + 1 => i = j
  BY <1>1
<1>4. 1 \in 1..Len(q)
  BY <1>1
<1> QED
  BY <1>1, <1>2, <1>3, <1>4 DEF Line

LEMMA LineWithout ==
  ASSUME NEW q, NEW W, NEW r, Line(q, W)
  PROVE  Line(Without(q, r), W) /\ \A i \in 1..Len(Without(q, r)) : Without(q, r)[i] # r
<1>1. q \in Seq(Requests) /\ Len(q) \in Nat
  BY DEF Line
<1>2. CASE ~\E i \in 1..Len(q) : q[i] = r
  BY <1>2 DEF Without
<1>3. CASE \E i \in 1..Len(q) : q[i] = r
  <2> DEFINE i == CHOOSE i \in 1..Len(q) : q[i] = r
             u == [j \in 1..(Len(q) - 1) |-> IF j < i THEN q[j] ELSE q[j + 1]]
  <2>1. i \in 1..Len(q) /\ q[i] = r
    BY <1>3
  <2>2. Without(q, r) = u
    BY <1>3 DEF Without
  <2> HIDE DEF i
  <2>3. Len(q) - 1 \in Nat /\ \A j \in 1..(Len(q) - 1) : j \in 1..Len(q) /\ j + 1 \in 1..Len(q)
    BY <1>1, <2>1
  <2>4. \A j \in 1..Len(q) : q[j] \in Requests
    BY <1>1
  <2>5. u \in Seq(Requests) /\ Len(u) = Len(q) - 1
    BY <2>3, <2>4
  <2>6. \A j \in 1..(Len(q) - 1) : u[j] = IF j < i THEN q[j] ELSE q[j + 1]
    OBVIOUS
  <2> HIDE DEF u
  <2>7. \A j \in 1..(Len(q) - 1) : u[j] \in W /\ u[j] # r
    BY <1>1, <2>1, <2>3, <2>6 DEF Line
  <2>8. ASSUME NEW j \in 1..(Len(q) - 1), NEW k \in 1..(Len(q) - 1), u[j] = u[k] PROVE j = k
    <3> DEFINE a == IF j < i THEN j ELSE j + 1
               b == IF k < i THEN k ELSE k + 1
    <3>1. a \in 1..Len(q) /\ b \in 1..Len(q) /\ u[j] = q[a] /\ u[k] = q[b]
      BY <2>3, <2>6
    <3>2. a = b
      BY <2>8, <3>1 DEF Line
    <3> QED
      BY <2>1, <1>1, <3>2
  <2> QED
    BY <2>2, <2>5, <2>7, <2>8 DEF Line
<1> QED
  BY <1>2, <1>3

-----------------------------------------------------------------------------
(* The invariant *)

\* What r holds.
HeldBy(r) == [m \in Locks |-> held[m][r]]

\* What a request has left fits what it holds, and who is not served has nothing left.
PathsFit ==
  \A r \in Requests :
    /\ Proper(todo[r], HeldBy(r)) /\ Ending(todo[r], HeldBy(r))
    /\ ~Running(r) => todo[r] = << >>

IInv == TypeOK /\ PathsFit

LEMMA InitIInv == Init => IInv
<1> SUFFICES ASSUME Init PROVE IInv
  OBVIOUS
<1>1. TypeOK
  BY DEF Init, TypeOK, Locks
<1>2. \A r \in Requests : HeldBy(r) = Nothing /\ todo[r] = << >>
  BY DEF Init, HeldBy, Nothing
<1> QED
  BY <1>1, <1>2, EmptyBalanced DEF IInv, PathsFit, Balanced

\* Who has nothing left holds nothing.
LEMMA NothingLeft ==
  ASSUME IInv, NEW r \in Requests, todo[r] = << >> PROVE \A m \in Locks : held[m][r] = "none"
<1>1. Ending(todo[r], HeldBy(r)) /\ 1..Len(todo[r]) = {}
  BY DEF IInv, PathsFit
<1> QED
  BY <1>1 DEF Ending, HeldBy

\* What r asks for fits what it holds.
LEMMA NextFits ==
  ASSUME IInv, NEW r \in Requests, At(r, {"read", "write"}), NEW m \in Locks
  PROVE  Fits(Head(todo[r]), m, held[m][r]) /\ Head(todo[r]) \in Operations
<1>1. /\ todo[r] \in Seq(Operations) /\ todo[r] # << >>
      /\ todo[r][1].do # "drop" /\ Head(todo[r]) = todo[r][1] /\ 1 \in 1..Len(todo[r])
      /\ 1..(1 - 1) = {}
  BY DEF IInv, TypeOK, At
<1>2. Fits(todo[r][1], m, HeldBy(r)[m])
  BY <1>1 DEF IInv, PathsFit, Proper
<1> QED
  BY <1>1, <1>2 DEF HeldBy

\* Who is in no queue's set of waiters is in no queue.
LEMMA NotQueued ==
  ASSUME IInv, NEW r \in Requests, NEW l \in Locks, r \notin Waiters(l)
  PROVE  \A i \in 1..Len(queue[l]) : queue[l][i] # r
BY TypeOKParts DEF IInv, Line

LEMMA ArriveIInv == ASSUME IInv, NEW r \in Requests, Arrive(r) PROVE IInv'
<1>1. PICK e \in Endpoints : /\ serving' = [serving EXCEPT ![r] = e]
                             /\ \E path \in Paths(e) : todo' = [todo EXCEPT ![r] = path]
  BY DEF Arrive
<1>2. PICK path \in Paths(e) : todo' = [todo EXCEPT ![r] = path]
  BY <1>1
<1>3. e \in AllEndpoints /\ e # NoRequest
  BY EndpointsAssumption
<1>4. Balanced(path)
  BY <1>3, PathsBalanced DEF AllBalanced
<1>5. UNCHANGED <<held, queue>> /\ ~Running(r)
  BY DEF Arrive
<1>6. Types'
  BY <1>1, <1>2, <1>4, <1>5, TypeOKParts DEF IInv, Types, Balanced
<1>7. ASSUME NEW l \in Locks PROVE Line(queue[l], Waiters(l))'
  <2>1. r \notin Waiters(l)
    BY <1>5 DEF Waiters
  <2>2. Waiters(l) \ {r} \subseteq Waiters(l)'
    BY <1>1, <1>2 DEF IInv, TypeOK, Waiters, Running, At
  <2>3. Line(queue[l], Waiters(l)') /\ queue' = queue
    BY <1>5, <2>1, <2>2, NotQueued, LineStays, TypeOKParts DEF IInv
  <2> QED
    BY <2>3
<1>8. HeldBy(r) = Nothing
  BY <1>5, NothingLeft DEF IInv, PathsFit, HeldBy, Nothing
<1>9. \A q \in Requests : HeldBy(q)' = HeldBy(q)
  BY <1>5 DEF HeldBy
<1>10. PathsFit'
  BY <1>1, <1>2, <1>3, <1>4, <1>8, <1>9 DEF IInv, TypeOK, PathsFit, Balanced, Running
<1>11. TypeOK'
  BY <1>6, <1>7, TypeOKPartsNext
<1> QED
  BY <1>10, <1>11 DEF IInv

LEMMA AskIInv == ASSUME IInv, NEW r \in Requests, Ask(r) PROVE IInv'
<1>1. /\ UNCHANGED <<serving, todo, held>> /\ At(r, {"read", "write"}) /\ ~Queued(r)
      /\ queue' = [queue EXCEPT ![Head(todo[r]).lock] = Append(@, r)]
  BY DEF Ask
<1>2. PICK l \in Locks : l = Head(todo[r]).lock
  BY <1>1, NextFits DEF Operations, Locks
<1>3. r \in Waiters(l)
  BY <1>1, <1>2 DEF IInv, PathsFit, Waiters, At
<1>4. \A m \in Locks : Waiters(m)' = Waiters(m)
  BY <1>1 DEF Waiters, Running, At
<1>5. Types'
  BY <1>1, <1>2, TypeOKParts DEF IInv, Types
<1>6. ASSUME NEW m \in Locks PROVE Line(queue'[m], Waiters(m)')
  <2>1. Line(queue[m], Waiters(m))
    BY TypeOKParts DEF IInv
  <2>2. CASE m # l
    BY <1>1, <1>2, <1>4, <2>1, <2>2, TypeOKParts DEF IInv, Types
  <2>3. CASE m = l
    <3>1. queue'[l] = Append(queue[l], r)
      BY <1>1, <1>2, TypeOKParts DEF IInv, Types
    <3>2. \A i \in 1..Len(queue[l]) : queue[l][i] # r
      BY <1>1 DEF Queued
    <3>3. Waiters(l) \subseteq Requests
      BY DEF Waiters
    <3>4. Line(Append(queue[l], r), Waiters(l))
      BY <1>3, <2>1, <2>3, <3>2, <3>3, LineAppend
    <3> QED
      BY <1>4, <2>3, <3>1, <3>4
  <2> QED
    BY <2>2, <2>3
<1>7. TypeOK'
  BY <1>5, <1>6, TypeOKPartsNext
<1>8. PathsFit'
  <2>1. \A q \in Requests : HeldBy(q)' = HeldBy(q)
    BY <1>1 DEF HeldBy
  <2> QED
    BY <1>1, <2>1 DEF IInv, PathsFit, Running
<1> QED
  BY <1>7, <1>8 DEF IInv

\* A request that does the operation it is at stays within its path.
LEMMA StepFits ==
  ASSUME IInv, NEW r \in Requests, todo[r] # << >>,
         todo' = [todo EXCEPT ![r] = Tail(@)],
         held' = [held EXCEPT ![Head(todo[r]).lock][r] = ModeOf(Head(todo[r]).do)],
         UNCHANGED serving, Running(r)
  PROVE  /\ PathsFit'
         /\ todo' \in [Requests -> Seq(Operations)]
         /\ held' \in [Locks -> [Requests -> {"none", "read", "write"}]]
<1> DEFINE l == Head(todo[r]).lock
<1>1. /\ todo[r] \in Seq(Operations) /\ Head(todo[r]) \in Operations
      /\ Tail(todo[r]) \in Seq(Operations) /\ l \in Locks
      /\ ModeOf(Head(todo[r]).do) \in {"none", "read", "write"}
  <2>1. todo[r] \in Seq(Operations)
    BY DEF IInv, TypeOK
  <2>2. Head(todo[r]) \in Operations /\ Tail(todo[r]) \in Seq(Operations)
    BY <2>1
  <2>3. /\ Head(todo[r]).lock \in Locks
        /\ Head(todo[r]).do \in {"read", "write", "drop"}
    BY <2>2 DEF Operations
  <2> QED
    BY <2>1, <2>2, <2>3 DEF ModeOf
<1>2. todo' \in [Requests -> Seq(Operations)] /\ todo'[r] = Tail(todo[r])
  BY <1>1 DEF IInv, TypeOK
<1>3. held' \in [Locks -> [Requests -> {"none", "read", "write"}]]
  BY <1>1 DEF IInv, TypeOK
<1>4. \A m \in Locks :
        HeldBy(r)'[m] = IF m = l THEN ModeOf(Head(todo[r]).do) ELSE HeldBy(r)[m]
  BY <1>1 DEF IInv, TypeOK, HeldBy
<1>5. Proper(todo'[r], HeldBy(r)') /\ Ending(todo'[r], HeldBy(r)')
  <2>1. Proper(todo[r], HeldBy(r)) /\ Ending(todo[r], HeldBy(r))
    BY DEF IInv, PathsFit
  <2> HIDE DEF l
  <2>2. Proper(Tail(todo[r]), HeldBy(r)') /\ Ending(Tail(todo[r]), HeldBy(r)')
    <3> DEFINE h == HeldBy(r)
               g == HeldBy(r)'
               t == todo[r]
    <3>1. /\ Proper(t, h) /\ Ending(t, h) /\ t \in Seq(Operations) /\ t # << >>
          /\ \A m \in Locks : g[m] = IF m = Head(t).lock THEN ModeOf(Head(t).do) ELSE h[m]
      BY <1>1, <1>4, <2>1 DEF l
    <3> HIDE DEF h, g, t
    <3>2. Proper(Tail(t), g) /\ Ending(Tail(t), g)
      BY <3>1, Remaining
    <3> QED
      BY <3>2 DEF h, g, t
  <2> QED
    BY <1>2, <2>2
<1>6. ASSUME NEW q \in Requests, q # r
      PROVE  todo'[q] = todo[q] /\ HeldBy(q)' = HeldBy(q)
  BY <1>1, <1>6 DEF IInv, TypeOK, HeldBy
<1>7. PathsFit'
  BY <1>5, <1>6 DEF IInv, PathsFit, Running
<1> QED
  BY <1>2, <1>3, <1>7

LEMMA GrantIInv == ASSUME IInv, NEW l \in Locks, Grant(l) PROVE IInv'
<1> DEFINE r == Head(queue[l])
<1>1. /\ queue[l] # << >> /\ UNCHANGED serving
      /\ held' = [held EXCEPT ![l][r] = Head(todo[r]).do]
      /\ todo' = [todo EXCEPT ![r] = Tail(@)]
      /\ queue' = [queue EXCEPT ![l] = Tail(@)]
  BY DEF Grant
<1>2. /\ r \in Waiters(l) /\ Line(Tail(queue[l]), Waiters(l))
      /\ \A i \in 1..Len(Tail(queue[l])) : Tail(queue[l])[i] # r
  BY <1>1, LineTail, TypeOKParts DEF IInv
<1> HIDE DEF r
<1>3. /\ r \in Requests /\ Running(r) /\ todo[r] # << >> /\ Head(todo[r]).lock = l
      /\ ModeOf(Head(todo[r]).do) = Head(todo[r]).do
  BY <1>2 DEF Waiters, At, ModeOf
<1>4. /\ PathsFit'
      /\ todo' \in [Requests -> Seq(Operations)]
      /\ held' \in [Locks -> [Requests -> {"none", "read", "write"}]]
  BY <1>1, <1>3, StepFits
<1>5. Types'
  BY <1>1, <1>4, TypeOKParts DEF IInv, Types
<1>6. ASSUME NEW m \in Locks PROVE Line(queue'[m], Waiters(m)')
  <2>1. Waiters(m) \ {r} \subseteq Waiters(m)'
    BY <1>1 DEF IInv, TypeOK, Waiters, Running, At
  <2>2. CASE m = l
    <3>1. queue'[l] = Tail(queue[l])
      BY <1>1, TypeOKParts DEF IInv, Types
    <3> QED
      BY <1>2, <2>1, <2>2, <3>1, LineStays
  <2>3. CASE m # l
    <3>1. queue'[m] = queue[m] /\ Line(queue[m], Waiters(m))
      BY <1>1, <2>3, TypeOKParts DEF IInv, Types
    <3>2. r \notin Waiters(m)
      BY <1>3, <2>3 DEF Waiters
    <3>3. \A i \in 1..Len(queue[m]) : queue[m][i] # r
      BY <1>3, <3>2, NotQueued
    <3>4. Line(queue[m], Waiters(m)')
      BY <2>1, <3>1, <3>3, LineStays
    <3> QED
      BY <3>1, <3>4
  <2> QED
    BY <2>2, <2>3
<1> QED
  BY <1>4, <1>5, <1>6, TypeOKPartsNext DEF IInv

LEMMA ReleaseIInv == ASSUME IInv, NEW r \in Requests, Release(r) PROVE IInv'
<1>1. /\ At(r, {"drop"}) /\ UNCHANGED <<serving, queue>>
      /\ held' = [held EXCEPT ![Head(todo[r]).lock][r] = "none"]
      /\ todo' = [todo EXCEPT ![r] = Tail(@)]
  BY DEF Release
<1>2. Running(r) /\ todo[r] # << >> /\ ModeOf(Head(todo[r]).do) = "none"
  BY <1>1 DEF IInv, PathsFit, At, ModeOf
<1>3. /\ PathsFit'
      /\ todo' \in [Requests -> Seq(Operations)]
      /\ held' \in [Locks -> [Requests -> {"none", "read", "write"}]]
  BY <1>1, <1>2, StepFits
<1>4. Types'
  BY <1>1, <1>3, TypeOKParts DEF IInv, Types
<1>5. ASSUME NEW m \in Locks PROVE Line(queue'[m], Waiters(m)')
  <2>1. Waiters(m) \ {r} \subseteq Waiters(m)'
    BY <1>1 DEF IInv, TypeOK, Waiters, Running, At
  <2>2. r \notin Waiters(m)
    BY <1>1 DEF Waiters, At
  <2> QED
    BY <1>1, <2>1, <2>2, NotQueued, LineStays, TypeOKParts DEF IInv
<1> QED
  BY <1>3, <1>4, <1>5, TypeOKPartsNext DEF IInv

LEMMA RespondIInv == ASSUME IInv, NEW r \in Requests, Respond(r) PROVE IInv'
<1>1. /\ todo[r] = << >> /\ UNCHANGED <<todo, held, queue>>
      /\ serving' = [serving EXCEPT ![r] = NoRequest]
  BY DEF Respond
<1>2. Types'
  BY <1>1, TypeOKParts DEF IInv, Types
<1>3. ASSUME NEW m \in Locks PROVE Line(queue'[m], Waiters(m)')
  <2>1. Waiters(m) \ {r} \subseteq Waiters(m)'
    BY <1>1 DEF IInv, TypeOK, Waiters, Running, At
  <2>2. r \notin Waiters(m)
    BY <1>1 DEF Waiters, At
  <2> QED
    BY <1>1, <2>1, <2>2, NotQueued, LineStays, TypeOKParts DEF IInv
<1>4. PathsFit'
  <2>1. \A q \in Requests : HeldBy(q)' = HeldBy(q)
    BY <1>1 DEF HeldBy
  <2> QED
    BY <1>1, <2>1 DEF IInv, TypeOK, PathsFit, Running
<1> QED
  BY <1>2, <1>3, <1>4, TypeOKPartsNext DEF IInv

LEMMA DisconnectIInv == ASSUME IInv, NEW r \in Requests, Disconnect(r) PROVE IInv'
<1>1. /\ serving' = [serving EXCEPT ![r] = NoRequest]
      /\ todo' = [todo EXCEPT ![r] = << >>]
      /\ held' = [l \in Locks |-> [held[l] EXCEPT ![r] = "none"]]
      /\ queue' = [l \in Locks |-> Without(queue[l], r)]
  BY DEF Disconnect
<1>2. Types'
  BY <1>1, TypeOKParts DEF IInv, Types
<1>3. ASSUME NEW m \in Locks PROVE Line(queue'[m], Waiters(m)')
  <2>1. Waiters(m) \ {r} \subseteq Waiters(m)'
    BY <1>1 DEF IInv, TypeOK, Waiters, Running, At
  <2>2. queue'[m] = Without(queue[m], r) /\ Line(queue[m], Waiters(m))
    BY <1>1, TypeOKParts DEF IInv
  <2>3. /\ Line(Without(queue[m], r), Waiters(m))
        /\ \A i \in 1..Len(Without(queue[m], r)) : Without(queue[m], r)[i] # r
    BY <2>2, LineWithout
  <2>4. Line(Without(queue[m], r), Waiters(m)')
    BY <2>1, <2>3, LineStays
  <2> QED
    BY <2>2, <2>4
<1>4. PathsFit'
  <2>1. HeldBy(r)' = Nothing /\ todo'[r] = << >>
    BY <1>1 DEF IInv, TypeOK, HeldBy, Nothing
  <2>2. ASSUME NEW q \in Requests, q # r
        PROVE  HeldBy(q)' = HeldBy(q) /\ todo'[q] = todo[q] /\ serving'[q] = serving[q]
    BY <1>1, <2>2 DEF IInv, TypeOK, HeldBy
  <2> QED
    BY <2>1, <2>2, EmptyBalanced DEF IInv, PathsFit, Running, Balanced
<1> QED
  BY <1>2, <1>3, <1>4, TypeOKPartsNext DEF IInv

LEMMA NextIInv == IInv /\ [Next]_vars => IInv'
<1> SUFFICES ASSUME IInv, [Next]_vars PROVE IInv'
  OBVIOUS
<1>1. CASE UNCHANGED vars
  <2>1. \A r \in Requests : HeldBy(r)' = HeldBy(r)
    BY <1>1 DEF vars, HeldBy
  <2> QED
    BY <1>1, <2>1 DEF IInv, TypeOK, PathsFit, vars, Running, At
<1> QED
  BY <1>1, ArriveIInv, AskIInv, ReleaseIInv, RespondIInv, DisconnectIInv, GrantIInv
     DEF Next, Step

\* What is left of every request's path fits what it holds, and the queues hold just
\* those who wait: for any number of requests of any endpoints.
THEOREM LocksInvariant == Spec => []IInv
  BY InitIInv, NextIInv, PTL DEF Spec

\* The types, with the queues.
THEOREM LocksTypes == Spec => []TypeOK
<1>1. IInv => TypeOK
  BY DEF IInv
<1> QED
  BY <1>1, LocksInvariant, PTL

-----------------------------------------------------------------------------
(* The deadlock *)

\* Somebody holds a lock that its first waiter cannot get: not the first waiter, and
\* not to write, as it is not stuck at that lock itself.
LEMMA Blocker ==
  ASSUME IInv, Stuck, NEW l \in Locks, queue[l] # << >>
  PROVE  \E q \in Requests, m \in Locks :
           /\ m # l /\ q \in Waiters(m) /\ held[l][q] = "read"
           /\ \E i \in 1..Len(queue[m]) : queue[m][i] = q
           /\ Head(todo[Head(queue[l])]).do = "write"
<1> DEFINE do == Head(todo[Head(queue[l])]).do
           Holds(q) == held[l][q] # "none"
<1>1. Head(queue[l]) \in Waiters(l)
  BY LineTail, TypeOKParts DEF IInv
<1>2. do \in {"read", "write"}
  BY <1>1 DEF Waiters, At
<1>3. ~Compatible(l, do)
  BY DEF Stuck
<1>4. ASSUME NEW q \in Requests, Holds(q)
      PROVE  /\ held[l][q] = "read"
             /\ \E m \in Locks : /\ m # l /\ q \in Waiters(m)
                                 /\ \E i \in 1..Len(queue[m]) : queue[m][i] = q
  <2>1. Running(q)
    BY <1>4, NothingLeft DEF IInv, PathsFit
  <2>2. PICK m \in Locks : \E i \in 1..Len(queue[m]) : queue[m][i] = q
    BY <2>1 DEF Stuck, Queued
  <2>3. q \in Waiters(m)
    BY <2>2, NotQueued
  <2>4. At(q, {"read", "write"}) /\ Head(todo[q]).lock = m
    BY <2>3 DEF Waiters
  <2>5. Fits(Head(todo[q]), l, held[l][q])
    BY <2>4, NextFits
  <2>6. m # l /\ held[l][q] = "read"
    BY <1>4, <2>4, <2>5 DEF Fits
  <2> QED
    BY <2>2, <2>3, <2>6
<1>5. PICK q \in Requests : Holds(q) /\ ~(do = "read" /\ held[l][q] = "read")
  BY <1>3 DEF Compatible
<1>6. do = "write"
  BY <1>2, <1>4, <1>5
<1> QED
  BY <1>4, <1>5, <1>6

\* The one deadlock there is, whatever the number and the endpoints of the requests:
\* if nobody can go on, a recall or search waits for a writer of the store, who waits
\* for a merge, who waits for the index that the first one holds.
THEOREM DeadlockExplained == Spec => []OnlyOneDeadlock
<1>1. ASSUME IInv, Stuck PROVE RetrievalDeadlock
  <2>1. PICK r0 \in Requests : Running(r0) /\ Queued(r0)
    BY <1>1 DEF Stuck
  <2>2. \E l \in Locks : queue[l] # << >>
    <3>1. PICK l \in Locks : \E i \in 1..Len(queue[l]) : queue[l][i] = r0
      BY <2>1 DEF Queued
    <3>2. queue[l] # << >>
      BY <3>1
    <3> QED
      BY <3>2
  <2>3. ASSUME NEW m \in Locks, NEW i \in 1..Len(queue[m]) PROVE queue[m] # << >>
    OBVIOUS
  <2>4. queue["store"] # << >> /\ queue["index"] # << >>
    <3>1. "store" \in Locks /\ "index" \in Locks /\ \A m \in Locks : m = "store" \/ m = "index"
      BY DEF Locks
    <3>2. queue["store"] # << >> => queue["index"] # << >>
      BY <1>1, <2>3, <3>1, Blocker
    <3>3. queue["index"] # << >> => queue["store"] # << >>
      BY <1>1, <2>3, <3>1, Blocker
    <3> QED
      BY <2>2, <3>1, <3>2, <3>3
  <2>5. "store" \in Locks /\ "index" \in Locks
    BY DEF Locks
  <2> DEFINE writer == Head(queue["store"])
             merger == Head(queue["index"])
  <2>6. PICK reader \in Requests :
          /\ held["index"][reader] = "read" /\ reader \in Waiters("store")
          /\ \E i \in 1..Len(queue["store"]) : queue["store"][i] = reader
          /\ Head(todo[merger]).do = "write"
    BY <1>1, <2>4, <2>5, Blocker DEF Locks
  <2>7. Head(todo[writer]).do = "write"
    BY <1>1, <2>4, <2>5, Blocker
  <2>8. writer \in Waiters("store") /\ merger \in Waiters("index")
    BY <1>1, <2>4, <2>5, LineTail, TypeOKParts DEF IInv
  <2>9. \A l \in Locks : queue[l] # << >> => \E i \in 1..Len(queue[l]) : queue[l][i] = Head(queue[l])
    <3>1. \A l \in Locks : queue[l] \in Seq(Requests)
      BY <1>1 DEF IInv, TypeOK
    <3> QED
      BY <3>1
  <2>10. WaitsFor(writer, "store", "write") /\ WaitsFor(merger, "index", "write")
    BY <2>4, <2>5, <2>6, <2>7, <2>9 DEF WaitsFor
  <2> HIDE DEF writer, merger
  <2>11. held["store"][merger] = "read"
    <3>1. merger \in Requests /\ At(merger, {"read", "write"}) /\ Head(todo[merger]).lock = "index"
      BY <2>8 DEF Waiters
    <3>2. Fits(Head(todo[merger]), "store", held["store"][merger]) /\ Head(todo[merger]) \in Operations
      BY <1>1, <2>5, <3>1, NextFits
    <3>3. Head(todo[merger]) = Write("index")
      BY <2>6, <3>1, <3>2 DEF Operations, Write
    <3> QED
      BY <3>2, <3>3 DEF Fits
  <2>12. WaitsFor(reader, "store", "read")
    <3>1. reader \in Requests /\ At(reader, {"read", "write"}) /\ Head(todo[reader]).lock = "store"
      BY <2>6 DEF Waiters
    <3>2. Fits(Head(todo[reader]), "index", "read") /\ Head(todo[reader]) \in Operations
      BY <1>1, <2>5, <2>6, <3>1, NextFits
    <3>3. Head(todo[reader]) # Write("store")
      BY <3>2 DEF Fits
    <3>4. Head(todo[reader]).do = "read"
      BY <3>1, <3>2, <3>3 DEF Operations, Write, At
    <3> QED
      BY <2>6, <3>4 DEF WaitsFor
  <2>13. writer \in Requests /\ merger \in Requests
    BY <2>8 DEF Waiters
  <2> QED
    BY <2>6, <2>10, <2>11, <2>12, <2>13 DEF RetrievalDeadlock, writer
<1>2. IInv => OnlyOneDeadlock
  BY <1>1 DEF OnlyOneDeadlock
<1> QED
  BY <1>2, LocksInvariant, PTL
=============================================================================
