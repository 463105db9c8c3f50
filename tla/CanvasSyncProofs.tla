--------------------------- MODULE CanvasSyncProofs ----------------------------
(***************************************************************************)
(* Theorems about CanvasSync, for any number of clients, elements, edits    *)
(* and broken connections.                                                  *)
(*                                                                         *)
(* Almost everything rests on one fact: the entries of the shared map are   *)
(* well defined, that is, among the writes of a key that a document has     *)
(* integrated there is always a last one.  The paths of the writes are      *)
(* totally ordered, and no two writes of a key have the same path.          *)
(***************************************************************************)
EXTENDS CanvasSync, FiniteSetTheorems, SequenceTheorems, TLAPS

-----------------------------------------------------------------------------
(* The order of the paths.                                                  *)

\* Before, with the common beginning read element by element.
LEMMA BeforeByElements ==
  ASSUME NEW p \in Seq(Nat), NEW q \in Seq(Nat)
  PROVE  Before(p, q) <=>
           \E k \in 0..Len(p) :
             /\ k < Len(q)
             /\ \A i \in 1..k : p[i] = q[i]
             /\ k = Len(p) \/ p[k + 1] < q[k + 1]
  <1>1. ASSUME NEW k \in 0..Len(p), k < Len(q)
        PROVE  SubSeq(p, 1, k) = SubSeq(q, 1, k) <=> \A i \in 1..k : p[i] = q[i]
    <2>0. k \in Int /\ 1 \in Int /\ Len(p) \in Nat /\ Len(q) \in Nat
      BY LenProperties
    <2>a. (\A i \in 1..k : p[i] \in Nat) /\ (\A i \in 1..k : q[i] \in Nat)
      BY <1>1, <2>0, ElementOfSeq
    <2>1. /\ SubSeq(p, 1, k) \in Seq(Nat)
          /\ Len(SubSeq(p, 1, k)) = k
          /\ \A i \in 1..k : SubSeq(p, 1, k)[i] = p[i]
      BY <2>0, <2>a, SubSeqProperties
    <2>2. /\ SubSeq(q, 1, k) \in Seq(Nat)
          /\ Len(SubSeq(q, 1, k)) = k
          /\ \A i \in 1..k : SubSeq(q, 1, k)[i] = q[i]
      BY <2>0, <2>a, SubSeqProperties
    <2> QED
      BY <2>1, <2>2, SeqEqual
  <1> QED
    BY <1>1 DEF Before

\* Paths are totally ordered.
LEMMA BeforeTotal ==
  ASSUME NEW p \in Seq(Nat), NEW q \in Seq(Nat), p # q
  PROVE  Before(p, q) \/ Before(q, p)
  <1>0. /\ Len(p) \in Nat /\ Len(q) \in Nat
        /\ \A i \in 1..Len(p) : p[i] \in Nat
        /\ \A i \in 1..Len(q) : q[i] \in Nat
    BY LenProperties, ElementOfSeq
  <1> DEFINE D == {i \in Nat : i \in 1..Len(p) /\ i \in 1..Len(q) /\ p[i] # q[i]}
  <1>1. CASE D = {}
    <2>1. \A i \in Nat : i \in 1..Len(p) /\ i \in 1..Len(q) => p[i] = q[i]
      BY <1>1
    <2>2. Len(p) # Len(q)
      BY <1>0, <2>1, SeqEqual
    <2>3. CASE Len(p) < Len(q)
      <3>1. Len(p) \in 0..Len(p) /\ \A i \in 1..Len(p) : p[i] = q[i]
        BY <1>0, <2>1, <2>3
      <3> QED
        BY <2>3, <3>1, BeforeByElements
    <2>4. CASE Len(q) < Len(p)
      <3>1. Len(q) \in 0..Len(q) /\ \A i \in 1..Len(q) : q[i] = p[i]
        BY <1>0, <2>1, <2>4
      <3> QED
        BY <2>4, <3>1, BeforeByElements
    <2> QED
      BY <1>0, <2>2, <2>3, <2>4
  <1>2. CASE D # {}
    <2>1. PICK i \in D : \A j \in D : ~(j < i)
      <3>1. IsWellFoundedOn(OpToRel(<, Nat), Nat)
        BY NatLessThanWellFounded
      <3>2. \E i \in D : \A j \in D : <<j, i>> \notin OpToRel(<, Nat)
        <4> HIDE DEF D
        <4>1. D \subseteq Nat
          BY DEF D
        <4> QED
          BY <1>2, <3>1, <4>1, WFMin
      <3> QED
        BY <3>2 DEF OpToRel
    <2> DEFINE k == i - 1
    <2>2. /\ k \in 0..Len(p) /\ k \in 0..Len(q) /\ k < Len(p) /\ k < Len(q)
          /\ p[k + 1] # q[k + 1] /\ p[k + 1] \in Nat /\ q[k + 1] \in Nat
      BY <1>0, <2>1
    <2>3. \A j \in 1..k : p[j] = q[j]
      <3> SUFFICES ASSUME NEW j \in 1..k PROVE p[j] = q[j]
        OBVIOUS
      <3>1. j \in Nat /\ j < i /\ j \in 1..Len(p) /\ j \in 1..Len(q)
        BY <1>0, <2>1
      <3> QED
        BY <2>1, <3>1
    <2> HIDE DEF k
    <2>4. p[k + 1] < q[k + 1] \/ q[k + 1] < p[k + 1]
      BY <2>2
    <2> QED
      BY <2>2, <2>3, <2>4, BeforeByElements
  <1> QED
    BY <1>1, <1>2

\* The order is transitive.
LEMMA BeforeTransitive ==
  ASSUME NEW p \in Seq(Nat), NEW q \in Seq(Nat), NEW r \in Seq(Nat),
         Before(p, q), Before(q, r)
  PROVE  Before(p, r)
  <1>0. /\ Len(p) \in Nat /\ Len(q) \in Nat /\ Len(r) \in Nat
        /\ \A i \in 1..Len(p) : p[i] \in Nat
        /\ \A i \in 1..Len(q) : q[i] \in Nat
        /\ \A i \in 1..Len(r) : r[i] \in Nat
    BY LenProperties, ElementOfSeq
  <1>1. PICK k \in 0..Len(p) : /\ k < Len(q)
                               /\ \A i \in 1..k : p[i] = q[i]
                               /\ k = Len(p) \/ p[k + 1] < q[k + 1]
    BY BeforeByElements
  <1>2. PICK l \in 0..Len(q) : /\ l < Len(r)
                               /\ \A i \in 1..l : q[i] = r[i]
                               /\ l = Len(q) \/ q[l + 1] < r[l + 1]
    BY BeforeByElements
  <1>3. CASE k <= l
    <2>1. k \in 0..Len(p) /\ k < Len(r) /\ \A i \in 1..k : p[i] = r[i]
      BY <1>0, <1>1, <1>2, <1>3
    <2>2. k = Len(p) \/ p[k + 1] < r[k + 1]
      <3>1. CASE k = l
        BY <1>0, <1>1, <1>2, <3>1
      <3>2. CASE k < l
        BY <1>0, <1>1, <1>2, <3>2
      <3> QED
        BY <1>0, <1>3, <3>1, <3>2
    <2> QED
      BY <2>1, <2>2, BeforeByElements
  <1>4. CASE l < k
    <2>1. l \in 0..Len(p) /\ l < Len(r) /\ \A i \in 1..l : p[i] = r[i]
      BY <1>0, <1>1, <1>2, <1>4
    <2>2. p[l + 1] < r[l + 1]
      BY <1>0, <1>1, <1>2, <1>4
    <2> QED
      BY <2>1, <2>2, BeforeByElements
  <1> QED
    BY <1>0, <1>3, <1>4

\* A write comes after the one that it stands on.
LEMMA BeforeAppend ==
  ASSUME NEW p \in Seq(Nat), NEW c \in Nat
  PROVE  Before(p, Append(p, c))
  <1>1. /\ Append(p, c) \in Seq(Nat) /\ Len(Append(p, c)) = Len(p) + 1
        /\ \A i \in 1..Len(p) : Append(p, c)[i] = p[i]
    BY AppendProperties
  <1>2. Len(p) \in 0..Len(p) /\ Len(p) < Len(p) + 1
    BY LenProperties
  <1> QED
    BY <1>1, <1>2, BeforeByElements

-----------------------------------------------------------------------------
(* The last of a set of writes.                                             *)

\* Writes of one key, comparable in pairs.
Comparable(W) ==
    \A w, x \in W : /\ w.path \in Seq(Nat)
                    /\ w = x \/ Before(w.path, x.path) \/ Before(x.path, w.path)

IsLast(w, W) == w \in W /\ \A x \in W : x = w \/ Before(x.path, w.path)

\* A finite set of comparable writes has a last one, and Last finds it: by
\* induction on the set, in the form of a least counterexample.
LEMMA LastIsLast ==
  ASSUME NEW W, IsFiniteSet(W), W # {}, Comparable(W)
  PROVE  IsLast(Last(W), W)
  <1> DEFINE Bad == {V \in FiniteSubsetsOf(W) : V # {} /\ ~ \E w \in V : IsLast(w, V)}
  <1>1. Bad = {}
    <2> SUFFICES ASSUME Bad # {} PROVE FALSE
      OBVIOUS
    <2>1. PICK V \in Bad : \A U \in Bad : <<U, V>> \notin StrictSubsetOrdering(W)
      <3>1. Bad \subseteq FiniteSubsetsOf(W)
        OBVIOUS
      <3> HIDE DEF Bad
      <3> QED
        BY <3>1, FS_StrictSubsetOrderingWellFounded, WFMin
    <2>2. V \subseteq W /\ IsFiniteSet(V) /\ V # {} /\ ~ \E w \in V : IsLast(w, V)
      BY <2>1 DEF FiniteSubsetsOf
    <2>3. PICK x \in V : TRUE
      BY <2>2
    <2> DEFINE U == V \ {x}
    <2>4. IsFiniteSet(U) /\ U \subseteq W
      BY <2>2, FS_RemoveElement
    <2>5. <<U, V>> \in StrictSubsetOrdering(W)
      BY <2>2, <2>3 DEF StrictSubsetOrdering
    <2>6. U # {}
      <3> SUFFICES ASSUME U = {} PROVE FALSE
        OBVIOUS
      <3>1. IsLast(x, V)
        BY <2>3 DEF IsLast
      <3> QED
        BY <2>2, <3>1
    <2>7. PICK w \in U : IsLast(w, U)
      <3>1. U \notin Bad
        BY <2>1, <2>5
      <3> QED
        BY <2>4, <2>6, <3>1 DEF FiniteSubsetsOf
    <2>8. w \in W /\ x \in W /\ w # x
      BY <2>2, <2>3, <2>7
    <2>9. CASE Before(x.path, w.path)
      <3>1. IsLast(w, V)
        BY <2>3, <2>7, <2>9 DEF IsLast
      <3> QED
        BY <2>2, <2>7, <3>1
    <2>10. CASE Before(w.path, x.path)
      <3>1. ASSUME NEW y \in U PROVE Before(y.path, x.path)
        <4>1. y = w \/ Before(y.path, w.path)
          BY <2>7 DEF IsLast
        <4>2. y.path \in Seq(Nat) /\ w.path \in Seq(Nat) /\ x.path \in Seq(Nat)
          BY <2>2, <2>8 DEF Comparable
        <4> QED
          BY <2>10, <4>1, <4>2, BeforeTransitive
      <3>2. IsLast(x, V)
        BY <2>3, <3>1 DEF IsLast
      <3> QED
        BY <2>2, <2>3, <3>2
    <2> QED
      BY <2>8, <2>9, <2>10 DEF Comparable
  <1>2. \E w \in W : IsLast(w, W)
    BY <1>1 DEF FiniteSubsetsOf
  <1> QED
    BY <1>2 DEF Last, IsLast

-----------------------------------------------------------------------------
(* The transactions.                                                        *)

Typed(t) ==
    /\ t.by \in Clients /\ t.n \in Nat \ {0}
    /\ t.files \subseteq Ids
    /\ \A id \in DOMAIN t.puts : id \in Ids /\ t.puts[id].el \in Element

\* The path of a write ends with its client.
Signed(t) ==
    \A id \in DOMAIN t.puts :
        /\ t.puts[id].path \in Seq(Clients)
        /\ t.puts[id].path # <<>>
        /\ t.puts[id].path[Len(t.puts[id].path)] = t.by

\* The names of transactions are unique: a client counts its own.
Numbered(X) ==
    \A t \in X :
        /\ t.n <= Cardinality({u \in X : u.by = t.by})
        /\ \A u \in X : Name(u) = Name(t) => u = t

\* A client's later write of a key comes after its earlier ones.
Rising(X) ==
    \A t, u \in X : \A id \in DOMAIN t.puts \cap DOMAIN u.puts :
        t.by = u.by /\ t.n < u.n => Before(t.puts[id].path, u.puts[id].path)

Ledger(X) ==
    /\ IsFiniteSet(X)
    /\ \A t \in X : Typed(t) /\ Signed(t)
    /\ Numbered(X)
    /\ Rising(X)

\* Two writes of a key can be told apart by their paths.
LEMMA WritesComparable ==
  ASSUME NEW X, Ledger(X), NEW I \in SUBSET X, NEW id
  PROVE  IsFiniteSet(Writes(I, id)) /\ Comparable(Writes(I, id))
  <1> DEFINE S == {u \in I : id \in DOMAIN u.puts}
             W == Writes(I, id)
             f == [t \in S |-> t.puts[id]]
  <1>1. IsFiniteSet(S)
    BY FS_Subset DEF Ledger
  <1>2. f \in Surjection(S, W)
    BY DEF Surjection, Writes
  <1>3. IsFiniteSet(W)
    <2> HIDE DEF S, W, f
    <2> QED
      BY <1>1, <1>2, FS_Surjection
  <1>4. ASSUME NEW w \in W, NEW x \in W
        PROVE  /\ w.path \in Seq(Nat)
               /\ w = x \/ Before(w.path, x.path) \/ Before(x.path, w.path)
    <2>1. PICK t \in S : w = t.puts[id]
      BY DEF Writes
    <2>2. PICK u \in S : x = u.puts[id]
      BY DEF Writes
    <2>3. /\ w.path \in Seq(Clients) /\ w.path[Len(w.path)] = t.by
          /\ x.path \in Seq(Clients) /\ x.path[Len(x.path)] = u.by
          /\ t \in X /\ u \in X
      BY <2>1, <2>2 DEF Ledger, Signed
    <2>4. w.path \in Seq(Nat) /\ x.path \in Seq(Nat)
      BY <2>3, SeqMonotonic, CanvasAssumption
    <2>5. CASE t = u
      BY <2>1, <2>2, <2>4, <2>5
    <2>6. CASE t.by # u.by
      BY <2>3, <2>4, <2>6, BeforeTotal
    <2>7. CASE t # u /\ t.by = u.by
      <3>1. t.n # u.n /\ t.n \in Nat /\ u.n \in Nat
        BY <2>3, <2>7 DEF Ledger, Numbered, Name, Typed
      <3>2. t.n < u.n \/ u.n < t.n
        BY <3>1
      <3> QED
        BY <2>1, <2>2, <2>3, <2>4, <2>7, <3>2 DEF Ledger, Rising
    <2> QED
      BY <2>5, <2>6, <2>7
  <1> QED
    BY <1>3, <1>4 DEF Comparable

\* The entry of a key is the last of its writes.
LEMMA EntryIsLast ==
  ASSUME NEW X, Ledger(X), NEW I \in SUBSET X, NEW id
  PROVE  /\ Writes(I, id) = {} => Shared(I, id) = NoElement /\ Entry(I, id).path = <<>>
         /\ Writes(I, id) # {} => IsLast(Entry(I, id), Writes(I, id))
  BY WritesComparable, LastIsLast DEF Entry, Shared

\* What a document shows of a key is an element or nothing.
LEMMA EntryTyped ==
  ASSUME NEW X, Ledger(X), NEW I \in SUBSET X, NEW id
  PROVE  /\ Shared(I, id) \in Element \cup {NoElement}
         /\ Entry(I, id).path \in Seq(Clients)
         /\ \A w \in Writes(I, id) : w = Entry(I, id) \/ Before(w.path, Entry(I, id).path)
  <1>1. CASE Writes(I, id) = {}
    BY <1>1, EntryIsLast, EmptySeq
  <1>2. CASE Writes(I, id) # {}
    <2>1. IsLast(Entry(I, id), Writes(I, id))
      BY <1>2, EntryIsLast
    <2>2. PICK t \in I : id \in DOMAIN t.puts /\ Entry(I, id) = t.puts[id]
      BY <2>1 DEF IsLast, Writes
    <2> QED
      BY <2>1, <2>2 DEF IsLast, Ledger, Typed, Signed, Shared
  <1> QED
    BY <1>1, <1>2

\* A client that has all its own transactions makes the next one.
LEMMA LedgerAdd ==
  ASSUME NEW X, Ledger(X), NEW I \in SUBSET X, NEW c \in Clients,
         \A u \in X : u.by = c => u \in I,
         NEW puts, NEW fs \in SUBSET Ids,
         \A id \in DOMAIN puts : /\ id \in Ids /\ puts[id].el \in Element
                                 /\ puts[id].path = Append(Entry(I, id).path, c)
  PROVE  /\ Ledger(X \cup {Transaction(c, I, puts, fs)})
         /\ \A u \in X : u.by = c => u.n < Transaction(c, I, puts, fs).n
  <1> DEFINE t == Transaction(c, I, puts, fs)
             own == {u \in X : u.by = c}
             Y == X \cup {t}
  <1>1. /\ t.by = c /\ t.puts = puts /\ t.files = fs
        /\ t.n = Cardinality(own) + 1
    <2>1. {u \in I : u.by = c} = own
      OBVIOUS
    <2> QED
      BY <2>1 DEF Transaction
  <1>2. IsFiniteSet(X) /\ IsFiniteSet(own) /\ Cardinality(own) \in Nat
    BY FS_Subset, FS_CardinalityType DEF Ledger
  <1> HIDE DEF t
  <1>3. \A u \in X : u.by = c => u.n <= Cardinality(own) /\ u.n \in Nat
    BY DEF Ledger, Numbered, Typed
  <1>4. t \notin X
    BY <1>1, <1>2, <1>3
  <1>5. IsFiniteSet(Y)
    BY <1>2, FS_AddElement
  <1>6. Typed(t)
    BY <1>1, <1>2 DEF Typed
  <1>7. Signed(t)
    <2> SUFFICES ASSUME NEW id \in DOMAIN puts
                 PROVE  /\ puts[id].path \in Seq(Clients)
                        /\ puts[id].path # <<>>
                        /\ puts[id].path[Len(puts[id].path)] = c
      BY <1>1 DEF Signed
    <2>1. Entry(I, id).path \in Seq(Clients)
      BY EntryTyped
    <2>2. /\ Append(Entry(I, id).path, c) \in Seq(Clients)
          /\ Append(Entry(I, id).path, c) # <<>>
          /\ Len(Append(Entry(I, id).path, c)) = Len(Entry(I, id).path) + 1
          /\ Append(Entry(I, id).path, c)[Len(Entry(I, id).path) + 1] = c
      BY <2>1, AppendProperties
    <2> QED
      BY <2>2
  <1>8. Numbered(Y)
    <2>1. {u \in Y : u.by = c} = own \cup {t}
      BY <1>1
    <2>2. Cardinality({u \in Y : u.by = c}) = Cardinality(own) + 1
      BY <1>2, <1>4, <2>1, FS_AddElement
    <2>3. \A d : d # c => {u \in Y : u.by = d} = {u \in X : u.by = d}
      BY <1>1
    <2>4. ASSUME NEW u \in Y PROVE u.n <= Cardinality({v \in Y : v.by = u.by})
      <3>1. CASE u = t
        <4>1. u.by = c /\ u.n = Cardinality(own) + 1
          BY <1>1, <3>1
        <4>2. {v \in Y : v.by = u.by} = {v \in Y : v.by = c}
          BY <4>1
        <4> QED
          BY <1>2, <2>2, <4>1, <4>2
      <3>2. CASE u # t /\ u.by = c
        BY <1>2, <1>3, <2>2, <3>2
      <3>3. CASE u # t /\ u.by # c
        BY <2>3, <3>3 DEF Ledger, Numbered
      <3> QED
        BY <3>1, <3>2, <3>3
    <2>5. ASSUME NEW u \in Y, NEW v \in Y, Name(u) = Name(v) PROVE u = v
      <3>1. u.by = v.by /\ u.n = v.n
        BY <2>5 DEF Name
      <3>2. CASE u = t \/ v = t
        BY <1>1, <1>2, <1>3, <3>1, <3>2
      <3>3. CASE u # t /\ v # t
        BY <2>5, <3>3 DEF Ledger, Numbered
      <3> QED
        BY <3>2, <3>3
    <2> QED
      BY <2>4, <2>5 DEF Numbered
  <1>9. Rising(Y)
    <2> SUFFICES ASSUME NEW u \in Y, NEW v \in Y,
                        NEW id \in DOMAIN u.puts \cap DOMAIN v.puts,
                        u.by = v.by, u.n < v.n
                 PROVE  Before(u.puts[id].path, v.puts[id].path)
      BY DEF Rising
    <2>1. CASE u = t
      <3>1. CASE v = t
        BY <1>1, <1>2, <2>1, <3>1
      <3>2. CASE v # t
        <4>1. v.n <= Cardinality(own) /\ v.n \in Nat
          BY <1>1, <1>3, <2>1, <3>2
        <4>2. Cardinality(own) + 1 < v.n
          BY <1>1, <2>1
        <4> QED
          BY <1>2, <4>1, <4>2
      <3> QED
        BY <3>1, <3>2
    <2>2. CASE u # t /\ v = t
      <3> DEFINE p == Entry(I, id).path
                 w == u.puts[id]
      <3>1. u \in I /\ u \in X /\ id \in DOMAIN u.puts
        BY <1>1, <2>2
      <3>2. w \in Writes(I, id)
        BY <3>1 DEF Writes
      <3>3. p \in Seq(Clients) /\ (w = Entry(I, id) \/ Before(w.path, p))
        BY <3>2, EntryTyped
      <3>4. w.path \in Seq(Clients)
        BY <3>1 DEF Ledger, Signed
      <3>5. p \in Seq(Nat) /\ w.path \in Seq(Nat) /\ c \in Nat
        BY <3>3, <3>4, SeqMonotonic, CanvasAssumption
      <3>6. Before(p, Append(p, c)) /\ Append(p, c) \in Seq(Nat)
        BY <3>5, BeforeAppend, AppendProperties
      <3>7. Before(w.path, Append(p, c))
        BY <3>3, <3>5, <3>6, BeforeTransitive
      <3> QED
        BY <1>1, <2>2, <3>7
    <2>3. CASE u # t /\ v # t
      BY <2>3 DEF Ledger, Rising
    <2> QED
      BY <2>1, <2>2, <2>3
  <1>10. \A u \in Y : Typed(u) /\ Signed(u)
    BY <1>6, <1>7 DEF Ledger
  <1>11. \A u \in X : u.by = c => u.n < t.n
    BY <1>1, <1>2, <1>3
  <1> QED
    BY <1>5, <1>8, <1>9, <1>10, <1>11 DEF Ledger, t

\* A transaction builds on what its client's document has integrated.
LEMMA PastIsKnown ==
  ASSUME NEW c, NEW I, NEW puts, NEW fs, NEW D,
         \A t \in I : Name(t) \in D /\ t.past \subseteq D
  PROVE  /\ Transaction(c, I, puts, fs).by = c
         /\ Transaction(c, I, puts, fs).past \subseteq D
  BY DEF Transaction

\* Document D has integrated I, and among X it has all that c has written.
Knowing(c, I, D, X) ==
    /\ I \subseteq X
    /\ \A u \in X : u.by = c => u \in I
    /\ \A u \in I : Name(u) \in D /\ u.past \subseteq D

Writable(sc, S, F) == S \subseteq Ids /\ F \subseteq Ids /\ \A id \in S : sc[id] \in Element

\* R: the elements at S and the files F, written one after the other.
Records(c, R, I, sc, S, F) ==
    LET T == writeElements(c, I, sc, S) IN R = T \cup writeFiles(c, I \cup T, F)

\* R, of client c whose document is D, may be added to X: it is numbered on,
\* and builds on what the document knows.
Added(X, R, c, D) ==
    /\ Ledger(X \cup R)
    /\ \A t \in R, u \in X : u.by = c => u.n < t.n
    /\ \A t \in R : t.by = c /\ t.past \subseteq D \cup Names(R)

\* What is written may be added.
LEMMA Recorded ==
  ASSUME NEW X, Ledger(X), NEW c \in Clients, NEW I, NEW D, Knowing(c, I, D, X),
         NEW sc, NEW S, NEW F, Writable(sc, S, F), NEW R, Records(c, R, I, sc, S, F)
  PROVE  Added(X, R, c, D)
  <1> DEFINE T == writeElements(c, I, sc, S)
             J == I \cup T
             U == writeFiles(c, J, F)
             puts == [id \in S |-> [el |-> sc[id],
                                    path |-> Append(Entry(I, id).path, c)]]
             t == Transaction(c, I, puts, {})
             u == Transaction(c, J, <<>>, F)
  <1>0. /\ I \in SUBSET X
        /\ \A v \in X : v.by = c => v \in I
        /\ \A v \in I : Name(v) \in D /\ v.past \subseteq D
    BY DEF Knowing
  <1>1. \A id \in DOMAIN puts : /\ id \in Ids /\ puts[id].el \in Element
                                /\ puts[id].path = Append(Entry(I, id).path, c)
    BY DEF Writable
  <1>2. T = {} \/ T = {t}
    BY DEF writeElements
  <1>3. U = {} \/ U = {u}
    BY DEF writeFiles
  <1>4. R = T \cup U
    BY DEF Records
  <1> HIDE DEF puts, T, U
  <1>5. Ledger(X \cup {t}) /\ \A v \in X : v.by = c => v.n < t.n
    BY <1>0, <1>1, LedgerAdd
  <1>6. t.by = c /\ t.past \subseteq D
    BY <1>0, PastIsKnown
  <1> HIDE DEF t
  <1>7. u.by = c /\ u.past \subseteq D \cup Names(T)
    <2>1. \A v \in J : /\ Name(v) \in D \cup Names(T)
                      /\ v.past \subseteq D \cup Names(T)
      BY <1>0, <1>2, <1>6 DEF Names
    <2> HIDE DEF J
    <2>2. PICK E : E = D \cup Names(T)
      OBVIOUS
    <2>3. \A v \in J : Name(v) \in E /\ v.past \subseteq E
      BY <2>1, <2>2
    <2> QED
      BY <2>2, <2>3, PastIsKnown
  <1>8. Ledger(X \cup T) /\ \A v \in T : v.by = c
    <2>1. CASE T = {}
      BY <2>1
    <2>2. CASE T = {t}
      BY <1>5, <1>6, <2>2
    <2> QED
      BY <1>2, <2>1, <2>2
  <1>9. /\ Ledger((X \cup T) \cup {u})
        /\ \A v \in X \cup T : v.by = c => v.n < u.n
    <2>1. /\ J \in SUBSET (X \cup T)
          /\ \A v \in X \cup T : v.by = c => v \in J
          /\ \A id \in DOMAIN <<>> : /\ id \in Ids /\ <<>>[id].el \in Element
                                     /\ <<>>[id].path = Append(Entry(J, id).path, c)
      BY <1>0, <1>8
    <2>2. F \in SUBSET Ids
      BY DEF Writable
    <2> HIDE DEF J
    <2> QED
      BY <1>8, <2>1, <2>2, LedgerAdd
  <1> HIDE DEF u
  <1>10. Ledger(X \cup R)
    <2>1. CASE U = {}
      <3>1. X \cup R = X \cup T
        BY <1>4, <2>1
      <3> QED
        BY <1>8, <3>1
    <2>2. CASE U = {u}
      <3>1. X \cup R = (X \cup T) \cup {u}
        BY <1>4, <2>2
      <3> QED
        BY <1>9, <3>1
    <2> QED
      BY <1>3, <2>1, <2>2
  <1>11. ASSUME NEW v \in R
         PROVE  v.by = c /\ v.past \subseteq D \cup Names(R)
    <2>1. v = t \/ v = u
      BY <1>2, <1>3, <1>4
    <2>2. Names(T) \subseteq Names(R)
      BY <1>4 DEF Names
    <2> QED
      BY <1>6, <1>7, <2>1, <2>2
  <1>12. \A v \in R, w \in X : w.by = c => w.n < v.n
    BY <1>2, <1>3, <1>4, <1>5, <1>9
  <1> QED
    BY <1>10, <1>11, <1>12 DEF Added

\* The elements bring no files with them.
LEMMA ElementsOnly ==
  ASSUME NEW c, NEW I, NEW sc, NEW S
  PROVE  /\ \A t \in writeElements(c, I, sc, S) : t.files = {}
         /\ readFiles(I \cup writeElements(c, I, sc, S)) = readFiles(I)
  <1> DEFINE T == writeElements(c, I, sc, S)
  <1>1. \A t \in T : t.files = {}
    BY DEF writeElements, Transaction
  <1> HIDE DEF T
  <1>2. readFiles(I \cup T) = readFiles(I)
    BY <1>1 DEF readFiles
  <1> QED
    BY <1>1, <1>2 DEF T

-----------------------------------------------------------------------------
(* Frames.                                                                  *)

Frame == [kind : {"step1", "update"}, names : SUBSET (Clients \X Nat)]

\* Frames in box name transactions in N, and wait only for clients that are
\* connected according to l.
BoxOK(b, N) ==
    /\ b \in [Clients -> Seq(Frame)]
    /\ \A s \in Clients : \A i \in 1..Len(b[s]) : b[s][i].names \subseteq N
FramesOK(box, N, l) ==
    /\ box \in [Clients -> [Clients -> Seq(Frame)]]
    /\ \A c \in Clients :
         /\ BoxOK(box[c], N)
         /\ (\E s \in Clients : box[c][s] # <<>>) => l[c] = "online"

\* The frames in a box, in whatever order they will be received.
Held(b) == {m \in Frame : \E s \in Clients : \E i \in 1..Len(b[s]) : b[s][i] = m}

\* More transactions, and clients that connect, change nothing about frames.
LEMMA FramesMore ==
  ASSUME NEW box, NEW N, NEW l, FramesOK(box, N, l), NEW M, N \subseteq M, NEW k,
         \A c \in Clients : l[c] = "online" => k[c] = "online"
  PROVE  FramesOK(box, M, k)
  BY DEF FramesOK, BoxOK

\* A frame at the end of a queue.
LEMMA BoxAppend ==
  ASSUME NEW b, NEW N, BoxOK(b, N), NEW s \in Clients, NEW m \in Frame, m.names \subseteq N
  PROVE  LET k == [b EXCEPT ![s] = Append(b[s], m)] IN
         BoxOK(k, N) /\ Held(k) = Held(b) \cup {m}
  <1> DEFINE k == [b EXCEPT ![s] = Append(b[s], m)]
  <1>0. b \in [Clients -> Seq(Frame)] /\ b[s] \in Seq(Frame) /\ Len(b[s]) \in Nat
    BY LenProperties DEF BoxOK
  <1>1. /\ k[s] \in Seq(Frame)
        /\ Len(k[s]) = Len(b[s]) + 1
        /\ \A i \in 1..Len(b[s]) : k[s][i] = b[s][i]
        /\ k[s][Len(b[s]) + 1] = m
        /\ \A t \in Clients \ {s} : k[t] = b[t]
    BY <1>0, AppendProperties
  <1>2. k \in [Clients -> Seq(Frame)]
    BY <1>0, AppendProperties
  <1> HIDE DEF k
  <1>3. /\ \A i \in 1..Len(k[s]) : i \in 1..Len(b[s]) \/ i = Len(b[s]) + 1
        /\ \A i \in 1..Len(b[s]) : i \in 1..Len(k[s])
        /\ Len(b[s]) + 1 \in 1..Len(k[s])
    BY <1>0, <1>1
  <1>4. ASSUME NEW t \in Clients PROVE \A i \in 1..Len(k[t]) : k[t][i].names \subseteq N
    <2>1. CASE t = s
      BY <1>1, <1>3, <2>1 DEF BoxOK
    <2>2. CASE t # s
      BY <1>1, <2>2 DEF BoxOK
    <2> QED
      BY <2>1, <2>2
  <1>5. ASSUME NEW x \in Held(k) PROVE x \in Held(b) \/ x = m
    <2>0. PICK t \in Clients : \E i \in 1..Len(k[t]) : x = k[t][i]
      BY DEF Held
    <2>1. PICK i \in 1..Len(k[t]) : x = k[t][i]
      BY <2>0
    <2>2. CASE t = s
      BY <1>1, <1>3, <2>1, <2>2 DEF Held
    <2>3. CASE t # s
      BY <1>1, <2>1, <2>3 DEF Held
    <2> QED
      BY <2>2, <2>3
  <1>6. ASSUME NEW x \in Held(b) PROVE x \in Held(k)
    <2>0. PICK t \in Clients : \E i \in 1..Len(b[t]) : x = b[t][i]
      BY DEF Held
    <2>1. PICK i \in 1..Len(b[t]) : x = b[t][i]
      BY <2>0
    <2>2. CASE t = s
      BY <1>1, <1>3, <2>1, <2>2 DEF Held
    <2>3. CASE t # s
      BY <1>1, <2>1, <2>3 DEF Held
    <2> QED
      BY <2>2, <2>3
  <1>7. m \in Held(k)
    BY <1>1, <1>3 DEF Held
  <1>8. BoxOK(k, N) /\ Held(k) = Held(b) \cup {m}
    BY <1>2, <1>4, <1>5, <1>6, <1>7 DEF BoxOK, Held
  <1> QED
    BY <1>8 DEF k

\* A frame that is taken out.
LEMMA BoxTail ==
  ASSUME NEW b, NEW N, BoxOK(b, N), NEW s \in Clients, b[s] # <<>>
  PROVE  LET k == [b EXCEPT ![s] = Tail(b[s])] IN
         /\ BoxOK(k, N)
         /\ Head(b[s]) \in Frame /\ Head(b[s]).names \subseteq N
         /\ Head(b[s]) \in Held(b)
         /\ Held(k) \subseteq Held(b) /\ Held(b) \subseteq Held(k) \cup {Head(b[s])}
  <1> DEFINE k == [b EXCEPT ![s] = Tail(b[s])]
             h == Head(b[s])
  <1>0. b \in [Clients -> Seq(Frame)] /\ b[s] \in Seq(Frame)
    BY DEF BoxOK
  <1>1. /\ Len(b[s]) \in Nat \ {0} /\ h = b[s][1] /\ h \in Frame
        /\ Tail(b[s]) \in Seq(Frame)
        /\ Len(Tail(b[s])) = Len(b[s]) - 1
        /\ \A i \in 1..Len(Tail(b[s])) : Tail(b[s])[i] = b[s][i + 1]
    BY <1>0, HeadTailProperties, EmptySeq
  <1>2. k \in [Clients -> Seq(Frame)] /\ k[s] = Tail(b[s])
        /\ \A t \in Clients \ {s} : k[t] = b[t]
    BY <1>0, <1>1
  <1> HIDE DEF k, h
  <1>3. /\ \A i \in 1..Len(k[s]) : i + 1 \in 1..Len(b[s]) /\ k[s][i] = b[s][i + 1]
        /\ 1 \in 1..Len(b[s])
        /\ \A i \in 1..Len(b[s]) : i = 1 \/ (i - 1 \in 1..Len(k[s]) /\ k[s][i - 1] = b[s][i])
    <2>1. ASSUME NEW i \in 1..Len(b[s]), i # 1
          PROVE  i - 1 \in 1..Len(k[s]) /\ k[s][i - 1] = b[s][i]
      <3>1. i - 1 \in 1..Len(k[s]) /\ (i - 1) + 1 = i
        BY <1>1, <1>2, <2>1
      <3> QED
        BY <1>1, <1>2, <3>1
    <2> QED
      BY <1>1, <1>2, <2>1
  <1>4. ASSUME NEW t \in Clients PROVE \A i \in 1..Len(k[t]) : k[t][i].names \subseteq N
    <2>1. CASE t = s
      BY <1>3, <2>1 DEF BoxOK
    <2>2. CASE t # s
      BY <1>2, <2>2 DEF BoxOK
    <2> QED
      BY <2>1, <2>2
  <1>5. ASSUME NEW x \in Held(k) PROVE x \in Held(b)
    <2>0. PICK t \in Clients : \E i \in 1..Len(k[t]) : x = k[t][i]
      BY DEF Held
    <2>1. PICK i \in 1..Len(k[t]) : x = k[t][i]
      BY <2>0
    <2>2. CASE t = s
      BY <1>3, <2>1, <2>2 DEF Held
    <2>3. CASE t # s
      BY <1>2, <2>1, <2>3 DEF Held
    <2> QED
      BY <2>2, <2>3
  <1>6. ASSUME NEW x \in Held(b) PROVE x \in Held(k) \/ x = h
    <2>0. PICK t \in Clients : \E i \in 1..Len(b[t]) : x = b[t][i]
      BY DEF Held
    <2>1. PICK i \in 1..Len(b[t]) : x = b[t][i]
      BY <2>0
    <2>2. CASE t = s
      BY <1>1, <1>3, <2>1, <2>2 DEF Held
    <2>3. CASE t # s
      BY <1>2, <2>1, <2>3 DEF Held
    <2> QED
      BY <2>2, <2>3
  <1>7. h \in Frame /\ h.names \subseteq N /\ h \in Held(b)
    BY <1>1, <1>3 DEF BoxOK, Held
  <1> QED
    BY <1>2, <1>4, <1>5, <1>6, <1>7 DEF BoxOK, k, h

\* An empty box.
LEMMA BoxEmpty ==
  ASSUME NEW N
  PROVE  LET b == [s \in Clients |-> <<>>] IN BoxOK(b, N) /\ Held(b) = {}
  <1>1. <<>> \in Seq(Frame) /\ Len(<<>>) = 0
    BY EmptySeq
  <1> QED
    BY <1>1 DEF BoxOK, Held

\* A client takes out a frame: nobody else notices.
LEMMA FramesTail ==
  ASSUME NEW box, NEW N, NEW l, FramesOK(box, N, l), NEW c \in Clients,
         NEW s \in Clients, box[c][s] # <<>>
  PROVE  LET b == [box EXCEPT ![c][s] = Tail(box[c][s])]
             m == Head(box[c][s])
         IN /\ FramesOK(b, N, l)
            /\ m \in Frame /\ m.names \subseteq N /\ m \in Held(box[c])
            /\ l[c] = "online"
            /\ Held(b[c]) \subseteq Held(box[c]) /\ Held(box[c]) \subseteq Held(b[c]) \cup {m}
            /\ \A d \in Clients \ {c} : b[d] = box[d]
  <1> DEFINE k == [box[c] EXCEPT ![s] = Tail(box[c][s])]
             b == [box EXCEPT ![c][s] = Tail(box[c][s])]
             m == Head(box[c][s])
  <1>0. BoxOK(box[c], N) /\ box \in [Clients -> [Clients -> Seq(Frame)]] /\ l[c] = "online"
    BY DEF FramesOK
  <1>1. /\ BoxOK(k, N) /\ m \in Frame /\ m.names \subseteq N /\ m \in Held(box[c])
        /\ Held(k) \subseteq Held(box[c]) /\ Held(box[c]) \subseteq Held(k) \cup {m}
    BY <1>0, BoxTail
  <1>2. b = [box EXCEPT ![c] = k]
    OBVIOUS
  <1> HIDE DEF k, b, m
  <1>3. b[c] = k /\ \A d \in Clients \ {c} : b[d] = box[d]
    BY <1>0, <1>2
  <1>4. k \in [Clients -> Seq(Frame)]
    BY <1>1 DEF BoxOK
  <1>5. b \in [Clients -> [Clients -> Seq(Frame)]]
    BY <1>0, <1>2, <1>4
  <1>6. FramesOK(b, N, l)
    BY <1>0, <1>1, <1>3, <1>5 DEF FramesOK
  <1>7. /\ FramesOK(b, N, l)
        /\ m \in Frame /\ m.names \subseteq N /\ m \in Held(box[c])
        /\ l[c] = "online"
        /\ Held(b[c]) \subseteq Held(box[c]) /\ Held(box[c]) \subseteq Held(b[c]) \cup {m}
        /\ \A d \in Clients \ {c} : b[d] = box[d]
    BY <1>0, <1>1, <1>3, <1>6
  <1> QED
    BY <1>7 DEF b, m

\* What waits has been sent to a client that is connected.
LEMMA FramesHead ==
  ASSUME NEW box, NEW N, NEW l, FramesOK(box, N, l), NEW c \in Clients,
         NEW s \in Clients, box[c][s] # <<>>
  PROVE  /\ Head(box[c][s]) \in Frame /\ Head(box[c][s]).names \subseteq N
         /\ Head(box[c][s]) \in Held(box[c])
         /\ l[c] = "online"
  <1>0. BoxOK(box[c], N) /\ l[c] = "online"
    BY DEF FramesOK
  <1>1. PICK b : b = box[c]
    OBVIOUS
  <1>2. BoxOK(b, N) /\ b[s] # <<>>
    BY <1>0, <1>1
  <1>3. Head(b[s]) \in Frame /\ Head(b[s]).names \subseteq N /\ Head(b[s]) \in Held(b)
    <2>1. Head(b[s]) \in Frame /\ Head(b[s]) = b[s][1] /\ 1 \in 1..Len(b[s])
      BY <1>2, HeadTailProperties, EmptySeq DEF BoxOK
    <2> QED
      BY <1>2, <2>1 DEF BoxOK, Held
  <1> QED
    BY <1>0, <1>1, <1>3

\* A frame that is queued for the others.
LEMMA FramesBroadcast ==
  ASSUME NEW box, NEW N, FramesOK(box, N, link), NEW c \in Clients,
         NEW m \in Frame, m.names \subseteq N
  PROVE  LET b == Broadcast(box, c, m) IN
         /\ FramesOK(b, N, link)
         /\ \A d \in Clients : Held(b[d]) = IF d # c /\ link[d] = "online"
                                            THEN Held(box[d]) \cup {m} ELSE Held(box[d])
  <1> DEFINE b == Broadcast(box, c, m)
  <1>1. ASSUME NEW d \in Clients
        PROVE  /\ BoxOK(b[d], N)
               /\ (\E s \in Clients : b[d][s] # <<>>) => link[d] = "online"
               /\ Held(b[d]) = IF d # c /\ link[d] = "online"
                               THEN Held(box[d]) \cup {m} ELSE Held(box[d])
    <2>0. BoxOK(box[d], N)
      BY DEF FramesOK
    <2>1. CASE d # c /\ link[d] = "online"
      <3>1. b[d] = [box[d] EXCEPT ![c] = Append(box[d][c], m)]
        BY <2>1 DEF Broadcast
      <3>2. BoxOK(b[d], N) /\ Held(b[d]) = Held(box[d]) \cup {m}
        BY <2>0, <3>1, BoxAppend
      <3> QED
        BY <2>1, <3>2
    <2>2. CASE ~(d # c /\ link[d] = "online")
      <3>1. b[d] = box[d]
        BY <2>2 DEF Broadcast
      <3> QED
        BY <2>2, <3>1 DEF FramesOK
    <2> QED
      BY <2>1, <2>2
  <1>2. b = [d \in Clients |-> b[d]]
    BY DEF Broadcast
  <1> HIDE DEF b
  <1>3. b \in [Clients -> [Clients -> Seq(Frame)]]
    BY <1>1, <1>2 DEF BoxOK
  <1>4. /\ FramesOK(b, N, link)
        /\ \A d \in Clients : Held(b[d]) = IF d # c /\ link[d] = "online"
                                           THEN Held(box[d]) \cup {m} ELSE Held(box[d])
    BY <1>1, <1>3 DEF FramesOK
  <1> QED
    BY <1>4 DEF b

\* An update that is sent, if there is one and a connection.
LEMMA FramesSend ==
  ASSUME NEW box, NEW N \in SUBSET (Clients \X Nat), FramesOK(box, N, link),
         NEW c \in Clients, NEW T, Names(T) \subseteq N
  PROVE  LET b == Send(box, c, T) IN
         /\ FramesOK(b, N, link)
         /\ \A d \in Clients : Held(box[d]) \subseteq Held(b[d])
         /\ T # {} /\ link[c] = "online" =>
              \A d \in Clients \ {c} : link[d] = "online" => Update(Names(T)) \in Held(b[d])
  <1> DEFINE m == Update(Names(T))
             b == Broadcast(box, c, m)
  <1>1. m \in Frame /\ m.names \subseteq N
    BY DEF Update, Frame
  <1> HIDE DEF m
  <1>2. /\ FramesOK(b, N, link)
        /\ \A d \in Clients : Held(b[d]) = IF d # c /\ link[d] = "online"
                                           THEN Held(box[d]) \cup {m} ELSE Held(box[d])
    BY <1>1, FramesBroadcast
  <1>3. Send(box, c, T) = IF T = {} \/ link[c] # "online" THEN box ELSE b
    BY DEF Send, m
  <1> HIDE DEF b
  <1>4. CASE T = {} \/ link[c] # "online"
    BY <1>3, <1>4
  <1>5. CASE ~(T = {} \/ link[c] # "online")
    BY <1>2, <1>3, <1>5 DEF m
  <1> QED
    BY <1>4, <1>5

-----------------------------------------------------------------------------
(* The inductive invariant.                                                 *)

\* Who is not in the room has seen, changed and written nothing.
Newcomers ==
    \A c \in Clients : link[c] = "out" =>
        /\ ~changed[c]
        /\ \A id \in Ids : scene[c][id] = NoElement
        /\ \A t \in txns : t.by # c

\* A client's document has integrated all that the client has written.
OwnAreIntegrated ==
    \A t \in txns : Name(t) \in doc[t.by] /\ t.past \subseteq doc[t.by]

SyncInv ==
    /\ TypeOK
    /\ Ledger(txns)
    /\ FramesOK(inbox, Names(txns), link)
    /\ Newcomers
    /\ OwnAreIntegrated

\* The initial state satisfies it.
LEMMA SyncInit == Init => SyncInv
  <1> SUFFICES ASSUME Init PROVE SyncInv
    OBVIOUS
  <1>1. play \in Play /\ play.edits \in Nat /\ MaxDrops \in Nat
    BY CanvasAssumption DEF Init, Play
  <1>2. TypeOK
    BY <1>1 DEF Init, TypeOK
  <1>3. Ledger(txns)
    BY FS_EmptySet DEF Init, Ledger, Numbered, Rising
  <1>4. FramesOK(inbox, Names(txns), link)
    <2>1. \A c \in Clients : inbox[c] = [s \in Clients |-> <<>>]
      BY DEF Init
    <2>2. \A c \in Clients : BoxOK(inbox[c], Names(txns)) /\ \A s \in Clients : inbox[c][s] = <<>>
      BY <2>1, BoxEmpty
    <2>3. inbox \in [Clients -> [Clients -> Seq(Frame)]]
      BY <2>2 DEF Init, BoxOK
    <2> QED
      BY <2>2, <2>3 DEF FramesOK
  <1> QED
    BY <1>2, <1>3, <1>4 DEF Init, SyncInv, Newcomers, OwnAreIntegrated

\* The names of transactions are pairs of a client and a number.
LEMMA NamesTyped ==
  ASSUME NEW X, Ledger(X)
  PROVE  Names(X) \subseteq Clients \X Nat
  BY DEF Ledger, Typed, Names, Name

\* A larger set of transactions keeps their part of the type.
LEMMA TxnsTyped ==
  ASSUME NEW X, Ledger(X)
  PROVE  \A t \in X : /\ t.by \in Clients /\ t.n \in Nat \ {0}
                      /\ t.files \subseteq Ids
                      /\ \A id \in DOMAIN t.puts : id \in Ids /\ t.puts[id].el \in Element
  BY DEF Ledger, Typed

\* A client that is in the room records transactions T and U in its document.
LEMMA RecordsOwn ==
  ASSUME NEW c \in Clients, OwnAreIntegrated, doc \in [Clients -> SUBSET Names(txns)],
         NEW D, NEW R,
         (\E t \in txns : t.by = c) => doc[c] \subseteq D,
         \A t \in R : t.by = c /\ t.past \subseteq D \cup Names(R),
         txns' = txns \cup R, doc' = [doc EXCEPT ![c] = D \cup Names(R)]
  PROVE  OwnAreIntegrated'
  <1> SUFFICES ASSUME NEW t \in txns'
               PROVE  Name(t) \in doc'[t.by] /\ t.past \subseteq doc'[t.by]
    BY DEF OwnAreIntegrated
  <1>0. doc'[c] = D \cup Names(R) /\ \A d \in Clients \ {c} : doc'[d] = doc[d]
    OBVIOUS
  <1>1. CASE t \in R
    BY <1>0, <1>1 DEF Names
  <1>2. CASE t \in txns /\ t.by = c
    BY <1>0, <1>2 DEF OwnAreIntegrated
  <1>3. CASE t \in txns /\ t.by # c
    BY <1>3 DEF OwnAreIntegrated
  <1> QED
    BY <1>1, <1>2, <1>3

\* What the seeder does that has a version to start from: the elements and the
\* files of the version are written to the empty document.
Seeding(c, I, seed, R) ==
    /\ I = {}
    /\ seed = [id \in Ids |-> IF id \in Saved THEN SavedElement ELSE NoElement]
    /\ Knowing(c, I, I, txns)
    /\ Writable(seed, Saved, Saved)
    /\ Records(c, R, I, seed, Saved, Saved)

LEMMA SeedWritten ==
  ASSUME SyncInv, NEW c \in Clients, Mount(c), c = Seeder, Saved # {}
  PROVE  \E I, seed, R :
           /\ Seeding(c, I, seed, R) /\ Added(txns, R, c, I)
           /\ scene' = [scene EXCEPT ![c] = seed]
           /\ files' = [files EXCEPT ![c] = Saved]
           /\ txns' = txns \cup R
           /\ doc' = [doc EXCEPT ![c] = Names(R)]
  <1> DEFINE I == {}
             seed == [id \in Ids |-> IF id \in Saved THEN SavedElement ELSE NoElement]
             T == writeElements(c, I, seed, Saved)
             U == writeFiles(c, I \cup T, Saved)
             R == T \cup U
  <1>1. /\ scene' = [scene EXCEPT ![c] = seed]
        /\ files' = [files EXCEPT ![c] = Saved]
        /\ txns' = txns \cup R
        /\ doc' = [doc EXCEPT ![c] = Names(R)]
    <2>1. I \cup T = T
      OBVIOUS
    <2> QED
      BY <2>1 DEF Mount
  <1>2. Records(c, R, I, seed, Saved, Saved)
    BY DEF Records
  <1> HIDE DEF U, R, T
  <1>3. Knowing(c, I, I, txns)
    BY DEF SyncInv, Newcomers, Mount, Knowing
  <1>4. Writable(seed, Saved, Saved)
    BY CanvasAssumption DEF SavedElement, Element, Writable
  <1>5. Seeding(c, I, seed, R)
    BY <1>2, <1>3, <1>4 DEF Seeding
  <1> HIDE DEF I, seed
  <1>6. Added(txns, R, c, I)
    BY <1>2, <1>3, <1>4, Recorded DEF SyncInv
  <1> QED
    BY <1>1, <1>5, <1>6

\* Mounting seeds the document of the seeder.
LEMMA SyncMount ==
  ASSUME SyncInv, NEW c \in Clients, Mount(c)
  PROVE  SyncInv'
  <1>0. TypeOK /\ Ledger(txns) /\ Newcomers /\ OwnAreIntegrated /\ link[c] = "out"
    BY DEF SyncInv, Mount
  <1>1. link' = [link EXCEPT ![c] = "offline"] /\ link \in [Clients -> {"out", "offline", "online"}]
    BY <1>0 DEF Mount, TypeOK
  <1>2. CASE ~(c = Seeder /\ Saved # {})
    <2>0. \A d \in Clients : link[d] = "online" => link'[d] = "online"
      BY <1>0, <1>1
    <2>1. UNCHANGED <<scene, files, txns, doc, play, changed, inbox, drops, edits>>
      BY <1>2 DEF Mount
    <2>2. TypeOK'
      BY <1>0, <1>1, <2>1 DEF TypeOK
    <2>3. FramesOK(inbox, Names(txns), link)'
      BY <1>0, <2>0, <2>1, FramesMore DEF SyncInv
    <2> QED
      BY <1>0, <1>1, <2>1, <2>2, <2>3 DEF SyncInv, Newcomers, OwnAreIntegrated
  <1>3. CASE c = Seeder /\ Saved # {}
    <2>1. PICK I, seed, R :
            /\ Seeding(c, I, seed, R) /\ Added(txns, R, c, I)
            /\ scene' = [scene EXCEPT ![c] = seed]
            /\ files' = [files EXCEPT ![c] = Saved]
            /\ txns' = txns \cup R
            /\ doc' = [doc EXCEPT ![c] = Names(R)]
      BY <1>3, SeedWritten
    <2>2. UNCHANGED <<play, changed, inbox, drops, edits>>
      BY DEF Mount
    <2>3. Saved \subseteq Ids /\ SavedElement \in Element
      BY CanvasAssumption DEF SavedElement, Element
    <2>4. seed \in [Ids -> Element \cup {NoElement}]
      BY <2>1, <2>3 DEF Seeding
    <2>0. \A d \in Clients : link[d] = "online" => link'[d] = "online"
      BY <1>0, <1>1
    <2>5. /\ Ledger(txns \cup R)
          /\ \A t \in R : t.by = c /\ t.past \subseteq {} \cup Names(R)
      BY <2>1 DEF Added, Seeding
    <2>6. Ledger(txns)' /\ txns' = txns \cup R
      BY <2>1, <2>5
    <2>7. Names(txns) \subseteq Names(txns') /\ Names(R) \subseteq Names(txns')
      BY <2>6 DEF Names
    <2>8. OwnAreIntegrated'
      <3>1. doc' = [doc EXCEPT ![c] = {} \cup Names(R)]
        BY <2>1
      <3>2. ~ \E t \in txns : t.by = c
        BY <1>0 DEF Newcomers
      <3>3. /\ OwnAreIntegrated /\ doc \in [Clients -> SUBSET Names(txns)]
            /\ \A t \in R : t.by = c /\ t.past \subseteq {} \cup Names(R)
            /\ txns' = txns \cup R
        BY <1>0, <2>5, <2>6 DEF TypeOK
      <3> QED
        BY <3>1, <3>2, <3>3, RecordsOwn
    <2>9. FramesOK(inbox, Names(txns), link)'
      BY <1>0, <2>0, <2>2, <2>7, FramesMore DEF SyncInv
    <2>10. doc' \in [Clients -> SUBSET Names(txns')]
      BY <1>0, <2>1, <2>7 DEF TypeOK
    <2>11. TypeOK'
      BY <1>0, <1>1, <2>1, <2>2, <2>3, <2>4, <2>6, <2>10, TxnsTyped DEF TypeOK
    <2>12. Newcomers'
      BY <1>0, <1>1, <2>1, <2>2, <2>5, <2>6 DEF Newcomers, TypeOK
    <2> QED
      BY <2>6, <2>8, <2>9, <2>11, <2>12 DEF SyncInv
  <1> QED
    BY <1>2, <1>3

\* Connecting asks the others for what the document lacks.
LEMMA SyncConnect ==
  ASSUME SyncInv, NEW c \in Clients, Connect(c) \/ Disconnect(c)
  PROVE  SyncInv'
  <1>0. /\ TypeOK /\ Ledger(txns) /\ Newcomers /\ OwnAreIntegrated
        /\ FramesOK(inbox, Names(txns), link)
    BY DEF SyncInv
  <1>1. CASE Connect(c)
    <2>1. /\ link[c] = "offline" /\ link' = [link EXCEPT ![c] = "online"]
          /\ inbox' = Broadcast(inbox, c, Step1(doc[c]))
          /\ UNCHANGED <<play, scene, files, txns, doc, changed, drops, edits>>
      BY <1>1 DEF Connect
    <2>2. Step1(doc[c]) \in Frame /\ Step1(doc[c]).names \subseteq Names(txns)
      BY <1>0, NamesTyped DEF Step1, Frame, Integrated, Names
    <2>3. FramesOK(inbox', Names(txns), link)
      BY <1>0, <2>1, <2>2, FramesBroadcast
    <2>4. FramesOK(inbox, Names(txns), link)'
      BY <1>0, <2>1, <2>3, FramesMore DEF TypeOK
    <2>5. TypeOK'
      BY <1>0, <2>1 DEF TypeOK
    <2> QED
      BY <1>0, <2>1, <2>4, <2>5 DEF SyncInv, Newcomers, OwnAreIntegrated, TypeOK
  <1>2. CASE Disconnect(c)
    <2>1. /\ link[c] = "online" /\ link' = [link EXCEPT ![c] = "offline"]
          /\ drops < MaxDrops /\ drops' = drops + 1
          /\ inbox' = [inbox EXCEPT ![c] = [s \in Clients |-> <<>>]]
          /\ UNCHANGED <<play, scene, files, txns, doc, changed, edits>>
      BY <1>2 DEF Disconnect
    <2>2. FramesOK(inbox, Names(txns), link)'
      <3>1. PICK b : b = [s \in Clients |-> <<>>]
        OBVIOUS
      <3>2. BoxOK(b, Names(txns)) /\ b \in [Clients -> Seq(Frame)] /\ \A s \in Clients : b[s] = <<>>
        BY <3>1, BoxEmpty DEF BoxOK
      <3>3. /\ inbox' \in [Clients -> [Clients -> Seq(Frame)]]
            /\ inbox'[c] = b /\ \A d \in Clients \ {c} : inbox'[d] = inbox[d]
        BY <1>0, <2>1, <3>1, <3>2 DEF FramesOK
      <3>4. \A d \in Clients \ {c} : link'[d] = link[d]
        BY <1>0, <2>1 DEF TypeOK
      <3> QED
        BY <1>0, <2>1, <3>2, <3>3, <3>4 DEF FramesOK
    <2>3. TypeOK'
      BY <1>0, <2>1, CanvasAssumption DEF TypeOK
    <2> QED
      BY <1>0, <2>1, <2>2, <2>3 DEF SyncInv, Newcomers, OwnAreIntegrated, TypeOK
  <1> QED
    BY <1>1, <1>2

\* A client that restores the saved version shows elements.
LEMMA MergeTyped ==
  ASSUME NEW sc \in [Ids -> Element \cup {NoElement}], NEW nonce \in Nat
  PROVE  mergeRestoredElements(sc, nonce) \in [Ids -> Element \cup {NoElement}]
  <1> SUFFICES ASSUME NEW id \in Ids
               PROVE  mergeRestoredElements(sc, nonce)[id] \in Element \cup {NoElement}
    BY DEF mergeRestoredElements
  <1>1. sc[id] # NoElement => sc[id].ver \in Nat
    BY DEF Element
  <1> QED
    BY <1>1 DEF mergeRestoredElements, SavedElement, Element

\* Users change what is shown.
LEMMA SyncEdit ==
  ASSUME SyncInv, NEW c \in Clients, Edit(c) \/ Restore(c)
  PROVE  SyncInv'
  <1>0. /\ TypeOK /\ Ledger(txns) /\ Newcomers /\ OwnAreIntegrated
        /\ FramesOK(inbox, Names(txns), link) /\ play \in Play
    BY CanvasAssumption DEF SyncInv, TypeOK
  <1>1. /\ link[c] # "out" /\ edits < play.edits /\ edits' = edits + 1
        /\ changed' = [changed EXCEPT ![c] = TRUE]
        /\ UNCHANGED <<play, link, txns, doc, inbox, drops>>
    BY DEF Edit, Restore, CanEdit
  <1>2. /\ scene' \in [Clients -> [Ids -> Element \cup {NoElement}]]
        /\ \A d \in Clients \ {c} : scene'[d] = scene[d]
        /\ files' \in [Clients -> SUBSET Ids]
    <2>1. CASE Edit(c)
      <3>1. PICK id \in play.ids, nonce \in play.nonces, del \in BOOLEAN :
                 Edit(c)!(id, nonce, del)
        BY <2>1 DEF Edit
      <3> DEFINE old == IF scene[c][id] = NoElement THEN 0 ELSE scene[c][id].ver
                 e == [ver |-> old + 1, nonce |-> nonce, del |-> del]
      <3>2. id \in Ids /\ nonce \in Nat
        BY <1>0 DEF Play
      <3>3. e \in Element
        <4>1. old \in Nat
          BY <1>0, <3>2 DEF TypeOK, Element
        <4> QED
          BY <3>2, <4>1 DEF Element
      <3>4. /\ scene' = [scene EXCEPT ![c][id] = e]
            /\ files' = [files EXCEPT ![c] = IF scene[c][id] = NoElement
                                             THEN files[c] \cup {id} ELSE files[c]]
        BY <3>1
      <3> HIDE DEF e
      <3> QED
        BY <1>0, <3>2, <3>3, <3>4 DEF TypeOK
    <2>2. CASE Restore(c)
      <3>1. PICK nonce \in play.nonces : Restore(c)!(nonce)
        BY <2>2 DEF Restore
      <3>2. nonce \in Nat /\ Saved \subseteq Ids
        BY <1>0, CanvasAssumption DEF Play
      <3>3. mergeRestoredElements(scene[c], nonce) \in [Ids -> Element \cup {NoElement}]
        BY <1>0, <3>2, MergeTyped DEF TypeOK
      <3> QED
        BY <1>0, <3>1, <3>2, <3>3 DEF TypeOK
    <2> QED
      BY <2>1, <2>2
  <1>3. edits' \in 0..play.edits
    BY <1>0, <1>1 DEF TypeOK, Play
  <1>4. TypeOK'
    BY <1>0, <1>1, <1>2, <1>3 DEF TypeOK
  <1> QED
    BY <1>0, <1>1, <1>2, <1>4 DEF SyncInv, Newcomers, OwnAreIntegrated, TypeOK

\* A peer answers with what it has.
LEMMA SyncStep1 ==
  ASSUME SyncInv, NEW c \in Clients, NEW s \in Clients, ReceiveStep1(c, s)
  PROVE  SyncInv'
  <1> DEFINE lacking == doc[c] \ Head(inbox[c][s]).names
             rest == [inbox EXCEPT ![c][s] = Tail(inbox[c][s])]
  <1>0. /\ TypeOK /\ Ledger(txns) /\ Newcomers /\ OwnAreIntegrated
        /\ FramesOK(inbox, Names(txns), link)
    BY DEF SyncInv
  <1>1. /\ inbox[c][s] # <<>>
        /\ inbox' = IF lacking = {} THEN rest ELSE Broadcast(rest, c, Update(lacking))
        /\ UNCHANGED <<play, link, scene, files, txns, doc, changed, drops, edits>>
    BY DEF ReceiveStep1
  <1>2. FramesOK(rest, Names(txns), link)
    BY <1>0, <1>1, FramesTail
  <1>3. Update(lacking) \in Frame /\ Update(lacking).names \subseteq Names(txns)
    BY <1>0, NamesTyped DEF Update, Frame, TypeOK
  <1> HIDE DEF lacking, rest
  <1>4. FramesOK(inbox', Names(txns), link)
    BY <1>1, <1>2, <1>3, FramesBroadcast
  <1>5. TypeOK'
    BY <1>0, <1>1 DEF TypeOK
  <1> QED
    BY <1>0, <1>1, <1>4, <1>5 DEF SyncInv, Newcomers, OwnAreIntegrated

\* A document takes an update in.
LEMMA SyncUpdate ==
  ASSUME SyncInv, NEW c \in Clients, NEW s \in Clients, ReceiveUpdate(c, s)
  PROVE  SyncInv'
  <1> DEFINE D == doc[c] \cup Head(inbox[c][s]).names
             I == Integrated(D)
             new == I \ Integrated(doc[c])
             merged == [id \in Ids |-> Reconcile(scene[c][id], Shared(I, id))]
  <1>0. /\ TypeOK /\ Ledger(txns) /\ Newcomers /\ OwnAreIntegrated
        /\ FramesOK(inbox, Names(txns), link)
    BY DEF SyncInv
  <1>1. /\ inbox[c][s] # <<>>
        /\ inbox' = [inbox EXCEPT ![c][s] = Tail(inbox[c][s])]
        /\ doc' = [doc EXCEPT ![c] = D]
        /\ scene' = scene \/ scene' = [scene EXCEPT ![c] = merged]
        /\ files' = [files EXCEPT ![c] = files[c] \cup readFiles(new)]
        /\ changed' = [changed EXCEPT ![c] = changed[c] \/ new # {}]
        /\ UNCHANGED <<play, link, txns, drops, edits>>
    BY DEF ReceiveUpdate
  <1>2. /\ FramesOK(inbox', Names(txns), link)
        /\ D \subseteq Names(txns)
        /\ link[c] = "online"
    <2> HIDE DEF D, I, new, merged
    <2>0. inbox[c][s] # <<>>
      BY <1>1
    <2>1. FramesOK([inbox EXCEPT ![c][s] = Tail(inbox[c][s])], Names(txns), link)
      BY <1>0, <2>0, FramesTail
    <2>3. Head(inbox[c][s]).names \subseteq Names(txns) /\ link[c] = "online"
      BY <1>0, <2>0, FramesHead
    <2>2. doc[c] \subseteq Names(txns)
      BY <1>0 DEF TypeOK
    <2> QED
      BY <1>1, <2>1, <2>2, <2>3 DEF D
  <1>3. I \subseteq txns /\ new \subseteq txns
    BY DEF Integrated
  <1>4. merged \in [Ids -> Element \cup {NoElement}]
    <2> HIDE DEF I
    <2>1. \A id \in Ids : Shared(I, id) \in Element \cup {NoElement}
      BY <1>0, <1>3, EntryTyped
    <2> QED
      BY <1>0, <2>1 DEF TypeOK, Reconcile
  <1>5. readFiles(new) \subseteq Ids
    <2> HIDE DEF new
    <2>1. \A t \in new : t.files \subseteq Ids
      BY <1>0, <1>3 DEF TypeOK
    <2> QED
      BY <2>1 DEF readFiles
  <1>6. (new # {}) \in BOOLEAN /\ D \in SUBSET Names(txns)
    BY <1>2
  <1> HIDE DEF D, I, new, merged
  <1>7. changed' \in [Clients -> BOOLEAN] /\ \A d \in Clients \ {c} : changed'[d] = changed[d]
    BY <1>0, <1>1, <1>6 DEF TypeOK
  <1>8. TypeOK'
    BY <1>0, <1>1, <1>4, <1>5, <1>6, <1>7 DEF TypeOK
  <1>9. Newcomers'
    BY <1>0, <1>1, <1>2, <1>7 DEF Newcomers, TypeOK
  <1>10. OwnAreIntegrated'
    BY <1>0, <1>1 DEF OwnAreIntegrated, D, TypeOK
  <1> QED
    BY <1>0, <1>1, <1>2, <1>8, <1>9, <1>10 DEF SyncInv

\* What HandleChange writes: S are the elements that are newer in the scene, F
\* the files that are not in the document I.
Writing(c, I, S, F, R) ==
    /\ I = Integrated(doc[c])
    /\ S = collectElementUpdates(scene[c], I)
    /\ F = collectNewFiles(files[c], I)
    /\ Knowing(c, I, doc[c], txns)
    /\ Writable(scene[c], S, F)
    /\ Records(c, R, I, scene[c], S, F)

LEMMA ChangeWritten ==
  ASSUME SyncInv, NEW c \in Clients, HandleChange(c)
  PROVE  \E I, S, F, R :
           /\ Writing(c, I, S, F, R) /\ Added(txns, R, c, doc[c])
           /\ txns' = txns \cup R
           /\ doc' = [doc EXCEPT ![c] = doc[c] \cup Names(R)]
  <1> DEFINE I == Integrated(doc[c])
             S == collectElementUpdates(scene[c], I)
             T == writeElements(c, I, scene[c], S)
             F == collectNewFiles(files[c], I \cup T)
             U == writeFiles(c, I \cup T, F)
             R == T \cup U
  <1>0. TypeOK /\ Ledger(txns) /\ OwnAreIntegrated
    BY DEF SyncInv
  <1>1. /\ txns' = txns \cup R
        /\ doc' = [doc EXCEPT ![c] = doc[c] \cup Names(R)]
    BY DEF HandleChange
  <1>2. Records(c, R, I, scene[c], S, F)
    BY DEF Records
  <1>3. readFiles(I \cup T) = readFiles(I)
    BY ElementsOnly
  <1>4. F = collectNewFiles(files[c], I)
    BY <1>3 DEF collectNewFiles
  <1> HIDE DEF U, R, F, T, S
  <1>5. Knowing(c, I, doc[c], txns)
    BY <1>0 DEF Knowing, OwnAreIntegrated, Integrated
  <1>6. S \subseteq Ids /\ \A id \in S : scene[c][id] \in Element
    BY <1>0 DEF S, collectElementUpdates, TypeOK
  <1> HIDE DEF I
  <1>7. Writable(scene[c], S, F)
    <2>1. F \subseteq Ids
      BY <1>0, <1>4 DEF collectNewFiles, TypeOK
    <2> QED
      BY <1>6, <2>1 DEF Writable
  <1>8. Added(txns, R, c, doc[c])
    BY <1>0, <1>2, <1>5, <1>7, Recorded
  <1>9. I = Integrated(doc[c]) /\ S = collectElementUpdates(scene[c], I)
    BY DEF I, S
  <1>10. Writing(c, I, S, F, R)
    BY <1>2, <1>4, <1>5, <1>7, <1>9 DEF Writing
  <1> QED
    BY <1>1, <1>8, <1>10

\* What is newer in the scene is written, and sent.
LEMMA SyncChange ==
  ASSUME SyncInv, NEW c \in Clients, HandleChange(c)
  PROVE  SyncInv'
  <1>0. /\ TypeOK /\ Ledger(txns) /\ Newcomers /\ OwnAreIntegrated
        /\ FramesOK(inbox, Names(txns), link)
    BY DEF SyncInv
  <1>1. PICK T, U :
          /\ changed[c]
          /\ txns' = txns \cup T \cup U
          /\ inbox' = Send(Send(inbox, c, T), c, U)
          /\ changed' = [changed EXCEPT ![c] = FALSE]
          /\ UNCHANGED <<play, link, scene, files, drops, edits>>
    BY DEF HandleChange
  <1>2. PICK R : /\ Added(txns, R, c, doc[c])
                 /\ txns' = txns \cup R
                 /\ doc' = [doc EXCEPT ![c] = doc[c] \cup Names(R)]
    BY ChangeWritten
  <1>3. /\ Ledger(txns \cup R)
        /\ \A t \in R : t.by = c /\ t.past \subseteq doc[c] \cup Names(R)
    BY <1>2 DEF Added
  <1>4. Ledger(txns)' /\ txns' = txns \cup R
    BY <1>2, <1>3
  <1>5. /\ Names(txns) \subseteq Names(txns') /\ Names(R) \subseteq Names(txns')
        /\ Names(T) \subseteq Names(txns') /\ Names(U) \subseteq Names(txns')
    BY <1>1, <1>2 DEF Names
  <1>6. OwnAreIntegrated'
    <2>1. /\ OwnAreIntegrated /\ doc \in [Clients -> SUBSET Names(txns)]
          /\ doc[c] \subseteq doc[c]
          /\ \A t \in R : t.by = c /\ t.past \subseteq doc[c] \cup Names(R)
          /\ txns' = txns \cup R /\ doc' = [doc EXCEPT ![c] = doc[c] \cup Names(R)]
      BY <1>0, <1>2, <1>3 DEF TypeOK
    <2> QED
      BY <2>1, RecordsOwn
  <1>7. FramesOK(inbox', Names(txns'), link)
    <2>1. Names(txns') \in SUBSET (Clients \X Nat)
      BY <1>4, NamesTyped
    <2>2. FramesOK(inbox, Names(txns'), link)
      BY <1>0, <1>5, FramesMore
    <2>3. FramesOK(Send(inbox, c, T), Names(txns'), link)
      BY <1>5, <2>1, <2>2, FramesSend
    <2> QED
      BY <1>1, <1>5, <2>1, <2>3, FramesSend
  <1>8. FramesOK(inbox, Names(txns), link)'
    BY <1>1, <1>7
  <1>9. doc' \in [Clients -> SUBSET Names(txns')]
    BY <1>0, <1>2, <1>5 DEF TypeOK
  <1>10. TypeOK'
    BY <1>0, <1>1, <1>4, <1>9, TxnsTyped DEF TypeOK
  <1>11. Newcomers'
    BY <1>0, <1>1, <1>2, <1>3 DEF Newcomers, TypeOK
  <1> QED
    BY <1>4, <1>6, <1>8, <1>10, <1>11 DEF SyncInv

\* Every step keeps the invariant.
LEMMA SyncStep == SyncInv /\ [Next]_vars => SyncInv'
  <1> SUFFICES ASSUME SyncInv, [Next]_vars PROVE SyncInv'
    OBVIOUS
  <1>1. CASE UNCHANGED vars
    BY <1>1 DEF vars, SyncInv, TypeOK, Newcomers, OwnAreIntegrated
  <1> QED
    BY <1>1, SyncMount, SyncConnect, SyncEdit, SyncStep1, SyncUpdate, SyncChange DEF Next

\* The invariant holds in every reachable state.
LEMMA SyncInvariant == Spec => []SyncInv
  BY SyncInit, SyncStep, PTL DEF Spec

(***************************************************************************)
(* Every reachable state is typed: in particular the document of every      *)
(* client knows only transactions that exist, and what a transaction writes *)
(* are elements.                                                            *)
(***************************************************************************)
THEOREM CanvasTypeCorrect == Spec => []TypeOK
  <1>1. SyncInv => TypeOK
    BY DEF SyncInv
  <1> QED
    BY <1>1, SyncInvariant, PTL

-----------------------------------------------------------------------------
(* What is shown of an element.                                             *)

\* y may be shown where x was.
NotOlder(x, y) == x # NoElement => y # NoElement /\ y.ver >= x.ver

\* Whatever the document says of an element, a scene does not go back.
LEMMA ReconcileNotOlder ==
  ASSUME NEW x \in Element \cup {NoElement}, NEW y \in Element \cup {NoElement}
  PROVE  NotOlder(x, Reconcile(x, y))
  <1> SUFFICES ASSUME x # NoElement, Reconcile(x, y) # x
               PROVE  y # NoElement /\ y.ver >= x.ver /\ Reconcile(x, y) = y
    BY DEF NotOlder, Element
  <1> QED
    BY DEF Reconcile, Element

\* Restoring is a new version of every element that was shown.
LEMMA RestoreNotOlder ==
  ASSUME NEW sc \in [Ids -> Element \cup {NoElement}], NEW nonce \in Nat, NEW id \in Ids
  PROVE  NotOlder(sc[id], mergeRestoredElements(sc, nonce)[id])
  <1> SUFFICES ASSUME sc[id] # NoElement
               PROVE  /\ mergeRestoredElements(sc, nonce)[id] # NoElement
                      /\ mergeRestoredElements(sc, nonce)[id].ver >= sc[id].ver
    BY DEF NotOlder
  <1>1. sc[id] \in Element /\ sc[id].ver \in Nat
    BY DEF Element
  <1>2. mergeRestoredElements(sc, nonce)[id] \in Element
    BY <1>1 DEF mergeRestoredElements, Element
  <1>3. mergeRestoredElements(sc, nonce)[id].ver \in {sc[id].ver, sc[id].ver + 1}
    BY <1>1 DEF mergeRestoredElements
  <1> QED
    BY <1>1, <1>2, <1>3, ElementAssumption

\* No step takes a scene back.
LEMMA ScenesStep ==
  ASSUME SyncInv, [Next]_vars, NEW c \in Clients, NEW id \in Ids
  PROVE  NotOlder(scene[c][id], scene'[c][id])
  <1>0. /\ scene \in [Clients -> [Ids -> Element \cup {NoElement}]]
        /\ play \in Play /\ Newcomers /\ Ledger(txns)
    BY CanvasAssumption DEF SyncInv, TypeOK
  <1>1. \A x \in Element \cup {NoElement} : NotOlder(x, x)
    BY DEF NotOlder, Element
  <1>2. CASE scene'[c] = scene[c]
    BY <1>0, <1>1, <1>2
  <1>3. CASE Mount(c)
    BY <1>0, <1>3 DEF Mount, Newcomers, NotOlder
  <1>4. CASE Edit(c)
    <2>1. PICK i \in play.ids, nonce \in play.nonces, del \in BOOLEAN :
               Edit(c)!(i, nonce, del)
      BY <1>4 DEF Edit
    <2> DEFINE old == IF scene[c][i] = NoElement THEN 0 ELSE scene[c][i].ver
               e == [ver |-> old + 1, nonce |-> nonce, del |-> del]
    <2>2. i \in Ids /\ nonce \in Nat /\ scene[c][i] \in Element \cup {NoElement}
      BY <1>0 DEF Play
    <2>3. old \in Nat
      BY <2>2 DEF Element
    <2>4. scene' = [scene EXCEPT ![c][i] = e]
      BY <2>1
    <2>5. e \in Element /\ e.ver = old + 1
      BY <2>2, <2>3 DEF Element
    <2>6. NotOlder(scene[c][i], e)
      BY <2>2, <2>3, <2>5, ElementAssumption DEF NotOlder
    <2> HIDE DEF e
    <2> QED
      BY <1>0, <1>1, <2>2, <2>4, <2>6
  <1>5. CASE Restore(c)
    <2>1. PICK nonce \in play.nonces : Restore(c)!(nonce)
      BY <1>5 DEF Restore
    <2>2. nonce \in Nat /\ scene[c] \in [Ids -> Element \cup {NoElement}]
      BY <1>0 DEF Play
    <2>3. scene'[c] = mergeRestoredElements(scene[c], nonce)
      BY <1>0, <2>1
    <2> QED
      BY <2>2, <2>3, RestoreNotOlder
  <1>6. ASSUME NEW s \in Clients, ReceiveUpdate(c, s) PROVE NotOlder(scene[c][id], scene'[c][id])
    <2> DEFINE I == Integrated(doc[c] \cup Head(inbox[c][s]).names)
               merged == [i \in Ids |-> Reconcile(scene[c][i], Shared(I, i))]
    <2>1. scene' = scene \/ scene' = [scene EXCEPT ![c] = merged]
      BY <1>6 DEF ReceiveUpdate
    <2>2. I \subseteq txns
      BY DEF Integrated
    <2> HIDE DEF I
    <2>3. Shared(I, id) \in Element \cup {NoElement}
      BY <1>0, <2>2, EntryTyped
    <2>4. NotOlder(scene[c][id], merged[id])
      BY <1>0, <2>3, ReconcileNotOlder
    <2> QED
      BY <1>0, <1>2, <2>1, <2>4
  <1>7. CASE ~(Mount(c) \/ Edit(c) \/ Restore(c) \/ \E s \in Clients : ReceiveUpdate(c, s))
    <2>1. ASSUME NEW d \in Clients, NEW s \in Clients,
                 Connect(d) \/ Disconnect(d) \/ ReceiveStep1(d, s) \/ HandleChange(d)
          PROVE  scene'[c] = scene[c]
      BY <2>1 DEF Connect, Disconnect, ReceiveStep1, HandleChange
    <2>2. ASSUME NEW d \in Clients, d # c, NEW s \in Clients,
                 Mount(d) \/ Edit(d) \/ Restore(d) \/ ReceiveUpdate(d, s)
          PROVE  scene'[c] = scene[c]
      <3>1. CASE Mount(d)
        <4>1. scene' = scene \/ \E seed : scene' = [scene EXCEPT ![d] = seed]
          BY <3>1 DEF Mount
        <4> QED
          BY <1>0, <2>2, <4>1
      <3>2. CASE Edit(d)
        BY <1>0, <2>2, <3>2 DEF Edit
      <3>3. CASE Restore(d)
        BY <1>0, <2>2, <3>3 DEF Restore
      <3>4. CASE ReceiveUpdate(d, s)
        BY <1>0, <2>2, <3>4 DEF ReceiveUpdate
      <3> QED
        BY <2>2, <3>1, <3>2, <3>3, <3>4
    <2>3. UNCHANGED vars => scene'[c] = scene[c]
      BY DEF vars
    <2>4. scene'[c] = scene[c]
      BY <1>7, <2>1, <2>2, <2>3 DEF Next
    <2> QED
      BY <1>2, <2>4
  <1> QED
    BY <1>3, <1>4, <1>5, <1>6, <1>7

(***************************************************************************)
(* What a browser shows of an element never goes back to an older version   *)
(* and never disappears, whatever the others write, however the frames are  *)
(* ordered, and although the document itself may go back: of concurrent     *)
(* writes it keeps the one of the larger client id.                         *)
(***************************************************************************)
THEOREM ScenesNeverGoBack == Spec => NeverBackwards
  <1>1. SyncInv /\ [Next]_vars =>
          [\A c \in Clients, id \in Ids : scene[c][id] # NoElement =>
             /\ scene'[c][id] # NoElement
             /\ scene'[c][id].ver >= scene[c][id].ver]_vars
    BY ScenesStep DEF NotOlder
  <1> QED
    BY <1>1, SyncInvariant, PTL DEF Spec, NeverBackwards
=============================================================================
