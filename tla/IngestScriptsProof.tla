-------------------------- MODULE IngestScriptsProof --------------------------
(***************************************************************************)
(* The scripts of the repository meet the conditions of IngestOrder, for   *)
(* any data that meets DataAssumption: any number of components, products, *)
(* suppliers and relationships, in the order the generators write them.    *)
(* With the theorems of IngestOrderProof, its guarantees hold of any       *)
(* number of processes, each running one of the scripts, under any         *)
(* interleaving, crash and rerun.                                          *)
(*                                                                         *)
(* A script is a concatenation of calls, one group for each element of its *)
(* data (FlattenSeq), so its calls are found by induction on the data.     *)
(* The induction theorems of the library take the predicate as an          *)
(* operator, which no prover here can instantiate; the fact beneath them,  *)
(* that < is well-founded on Nat, does not, and gives the least element of *)
(* a set of numbers and with it induction over sets.                       *)
(***************************************************************************)
EXTENDS IngestScripts, IngestOrderProof, SequenceTheorems

WF == INSTANCE WellFoundedInduction

------------------------------------------------------------------------------
(* Induction *)

\* The theorem of the library, as a fact about a set of pairs.
LEMMA LessWellFounded == WF!IsWellFoundedOn({p \in Nat \X Nat : p[1] < p[2]}, Nat)
  BY WF!NatLessThanWellFounded, Zenon DEF WF!OpToRel

LEMMA LeastElement ==
  ASSUME NEW T, T \subseteq Nat, T # {}
  PROVE  \E x \in T : \A y \in T : x <= y
  <1>1. PICK x \in T : \A y \in T : ~(<<y, x>> \in {p \in Nat \X Nat : p[1] < p[2]})
    BY LessWellFounded, WF!WFMin
  <1>2. \A y \in T : ~(y < x)
    BY <1>1
  <1> QED
    BY <1>2

\* Induction, the predicate being a set.
LEMMA Induction ==
  ASSUME NEW S, 0 \in S, \A n \in Nat : n \in S => n + 1 \in S
  PROVE  Nat \subseteq S
  <1> SUFFICES ASSUME Nat \ S # {} PROVE FALSE
    OBVIOUS
  <1>1. PICK x \in Nat \ S : \A y \in Nat \ S : x <= y
    BY LeastElement
  <1>2. x # 0 /\ x - 1 \in Nat
    OBVIOUS
  <1>3. x - 1 \in S
    BY <1>1, <1>2
  <1> QED
    BY <1>1, <1>2, <1>3

------------------------------------------------------------------------------
(* Concatenation of a sequence of sequences *)

\* f holds the concatenations of the first 1, 2, ..., n members of ss.
Flattens(f, ss, n) ==
  f = [i \in 1..n |-> IF i = 1 THEN ss[i] ELSE f[i - 1] \o ss[i]]

LEMMA FlattenExists ==
  ASSUME NEW ss
  PROVE  \A n \in Nat : \E f : Flattens(f, ss, n)
  <1> DEFINE S == {n \in Nat : \E f : Flattens(f, ss, n)}
  <1>1. 0 \in S
    <2> DEFINE f == [i \in 1..0 |-> ss]
    <2>1. Flattens(f, ss, 0)
      BY DEF Flattens
    <2> QED
      BY <2>1
  <1>2. ASSUME NEW n \in Nat, n \in S PROVE n + 1 \in S
    <2>1. PICK f : Flattens(f, ss, n)
      BY <1>2
    <2>2. \A i \in 1..n : f[i] = IF i = 1 THEN ss[i] ELSE f[i - 1] \o ss[i]
      BY <2>1 DEF Flattens
    <2> DEFINE g == [i \in 1..(n + 1) |->
                       IF i <= n THEN f[i]
                       ELSE IF i = 1 THEN ss[i] ELSE f[i - 1] \o ss[i]]
    <2>3. \A i \in 1..(n + 1) : g[i] = IF i = 1 THEN ss[i] ELSE g[i - 1] \o ss[i]
      <3> SUFFICES ASSUME NEW i \in 1..(n + 1)
                   PROVE  g[i] = IF i = 1 THEN ss[i] ELSE g[i - 1] \o ss[i]
        OBVIOUS
      <3>1. i # 1 => i - 1 \in 1..n /\ g[i - 1] = f[i - 1]
        OBVIOUS
      <3> QED
        BY <2>2, <3>1
    <2>4. Flattens(g, ss, n + 1)
      BY <2>3 DEF Flattens
    <2> QED
      BY <2>4
  <1> HIDE DEF S
  <1>3. Nat \subseteq S
    BY <1>1, <1>2, Induction
  <1> QED
    BY <1>3 DEF S

LEMMA FlattenSteps ==
  ASSUME NEW ss, Len(ss) \in Nat \ {0}
  PROVE  \E f : /\ FlattenSeq(ss) = f[Len(ss)]
                /\ \A i \in 1..Len(ss) : f[i] = IF i = 1 THEN ss[i] ELSE f[i - 1] \o ss[i]
  <1> DEFINE f == CHOOSE f : Flattens(f, ss, Len(ss))
  <1>1. FlattenSeq(ss) = f[Len(ss)]
    BY DEF FlattenSeq, Flattens
  <1>2. Flattens(f, ss, Len(ss))
    BY FlattenExists
  <1> HIDE DEF f
  <1>3. \A i \in 1..Len(ss) : f[i] = IF i = 1 THEN ss[i] ELSE f[i - 1] \o ss[i]
    BY <1>2 DEF Flattens
  <1> QED
    BY <1>1, <1>3

LEMMA FlattenEmpty ==
  ASSUME NEW X, NEW ss \in Seq(X), Len(ss) = 0
  PROVE  FlattenSeq(ss) = <<>>
  <1>1. FlattenSeq(ss) = ss
    BY DEF FlattenSeq
  <1> QED
    BY <1>1, EmptySeq

\* What is closed under concatenation is closed under FlattenSeq.
LEMMA FlattenClosed ==
  ASSUME NEW C, <<>> \in C, \A s, t \in C : s \o t \in C, NEW ss \in Seq(C)
  PROVE  FlattenSeq(ss) \in C
  <1>1. CASE Len(ss) = 0
    BY <1>1, FlattenEmpty
  <1>2. CASE Len(ss) # 0
    <2>1. Len(ss) \in Nat \ {0} /\ \A i \in 1..Len(ss) : ss[i] \in C
      BY <1>2, LenProperties, ElementOfSeq
    <2>2. PICK f : /\ FlattenSeq(ss) = f[Len(ss)]
                   /\ \A i \in 1..Len(ss) : f[i] = IF i = 1 THEN ss[i] ELSE f[i - 1] \o ss[i]
      BY <2>1, FlattenSteps
    <2> DEFINE S == {n \in Nat : n \in 1..Len(ss) => f[n] \in C}
    <2>3. 0 \in S
      OBVIOUS
    <2>4. ASSUME NEW n \in Nat, n \in S PROVE n + 1 \in S
      BY <2>1, <2>2, <2>4
    <2> HIDE DEF S
    <2>5. Nat \subseteq S
      BY <2>3, <2>4, Induction
    <2> QED
      BY <2>1, <2>2, <2>5 DEF S
  <1> QED
    BY <1>1, <1>2

LEMMA ConcatRange ==
  ASSUME NEW X, NEW s \in Seq(X), NEW t \in Seq(X)
  PROVE  Range(s \o t) = Range(s) \cup Range(t)
  <1>1. /\ DOMAIN s = 1..Len(s) /\ Len(s) \in Nat
        /\ DOMAIN t = 1..Len(t) /\ Len(t) \in Nat
        /\ DOMAIN (s \o t) = 1..(Len(s) + Len(t))
        /\ \A i \in 1..(Len(s) + Len(t)) :
             (s \o t)[i] = IF i <= Len(s) THEN s[i] ELSE t[i - Len(s)]
    BY LenProperties, ConcatProperties
  <1>2. ASSUME NEW x \in Range(s \o t) PROVE x \in Range(s) \cup Range(t)
    BY <1>1, <1>2 DEF Range
  <1>3. ASSUME NEW x \in Range(s) PROVE x \in Range(s \o t)
    BY <1>1, <1>3 DEF Range
  <1>4. ASSUME NEW i \in 1..Len(t) PROVE t[i] \in Range(s \o t)
    <2>1. Len(s) + i \in DOMAIN (s \o t) /\ (s \o t)[Len(s) + i] = t[i]
      BY <1>1
    <2> QED
      BY <2>1 DEF Range
  <1> QED
    BY <1>1, <1>2, <1>3, <1>4 DEF Range

LEMMA FlattenRange ==
  ASSUME NEW X, NEW ss \in Seq(Seq(X))
  PROVE  Range(FlattenSeq(ss)) = UNION {Range(ss[i]) : i \in 1..Len(ss)}
  <1>1. CASE Len(ss) = 0
    <2>1. FlattenSeq(ss) = <<>>
      BY <1>1, FlattenEmpty
    <2>2. Range(<<>>) = {}
      BY DEF Range
    <2> QED
      BY <1>1, <2>1, <2>2
  <1>2. CASE Len(ss) # 0
    <2>1. Len(ss) \in Nat \ {0} /\ \A i \in 1..Len(ss) : ss[i] \in Seq(X)
      BY <1>2, LenProperties, ElementOfSeq
    <2>2. PICK f : /\ FlattenSeq(ss) = f[Len(ss)]
                   /\ \A i \in 1..Len(ss) : f[i] = IF i = 1 THEN ss[i] ELSE f[i - 1] \o ss[i]
      BY <2>1, FlattenSteps
    <2> DEFINE Good(n) == /\ f[n] \in Seq(X)
                          /\ Range(f[n]) = UNION {Range(ss[i]) : i \in 1..n}
    <2>3. ASSUME NEW n \in Nat, n + 1 \in 1..Len(ss), n = 0 \/ Good(n) PROVE Good(n + 1)
      <3>1. CASE n = 0
        BY <2>1, <2>2, <3>1
      <3>2. CASE n # 0
        <4>0. n + 1 # 1 /\ (n + 1) - 1 = n
          BY <3>2
        <4>1. f[n + 1] = f[n] \o ss[n + 1] /\ ss[n + 1] \in Seq(X)
          BY <2>1, <2>2, <2>3, <4>0
        <4>2. f[n + 1] \in Seq(X) /\ Range(f[n + 1]) = Range(f[n]) \cup Range(ss[n + 1])
          BY <2>3, <3>2, <4>1, ConcatRange, ConcatProperties
        <4>3. 1..(n + 1) = (1..n) \cup {n + 1}
          OBVIOUS
        <4> QED
          BY <2>3, <3>2, <4>2, <4>3
      <3> QED
        BY <3>1, <3>2
    <2> HIDE DEF Good
    <2> DEFINE S == {n \in Nat : n \in 1..Len(ss) => Good(n)}
    <2>4. 0 \in S
      OBVIOUS
    <2>5. ASSUME NEW n \in Nat, n \in S PROVE n + 1 \in S
      <3>1. n + 1 \in 1..Len(ss) => n = 0 \/ n \in 1..Len(ss)
        BY <2>1
      <3> QED
        BY <2>3, <2>5, <3>1
    <2> HIDE DEF S
    <2>6. Nat \subseteq S
      BY <2>4, <2>5, Induction
    <2>7. Good(Len(ss))
      BY <2>1, <2>6 DEF S
    <2> QED
      BY <2>2, <2>7 DEF Good
  <1> QED
    BY <1>1, <1>2

LEMMA FlattenSingles ==
  ASSUME NEW X, NEW e \in Seq(X)
  PROVE  FlattenSeq([i \in DOMAIN e |-> <<e[i]>>]) = e
  <1> DEFINE ss == [i \in DOMAIN e |-> <<e[i]>>]
  <1>1. DOMAIN e = 1..Len(e) /\ Len(e) \in Nat /\ \A i \in 1..Len(e) : e[i] \in X
    BY LenProperties
  <1>2. \A i \in 1..Len(e) : ss[i] = <<e[i]>> /\ ss[i] \in Seq(X)
    BY <1>1
  <1>3. ss \in Seq(Seq(X)) /\ Len(ss) = Len(e)
    BY <1>1, <1>2
  <1>4. /\ DOMAIN e = 1..Len(e) /\ Len(e) \in Nat /\ \A i \in 1..Len(e) : e[i] \in X
        /\ ss \in Seq(Seq(X)) /\ Len(ss) = Len(e) /\ \A i \in 1..Len(e) : ss[i] = <<e[i]>>
    BY <1>1, <1>2, <1>3
  <1> SUFFICES FlattenSeq(ss) = e
    OBVIOUS
  <1> HIDE DEF ss
  <1>5. CASE Len(e) = 0
    BY <1>4, <1>5, FlattenEmpty, EmptySeq
  <1>6. CASE Len(e) # 0
    <2>1. PICK f : /\ FlattenSeq(ss) = f[Len(e)]
                   /\ \A i \in 1..Len(e) : f[i] = IF i = 1 THEN ss[i] ELSE f[i - 1] \o ss[i]
      BY <1>4, <1>6, FlattenSteps
    <2> DEFINE Good(n) == f[n] \in Seq(X) /\ Len(f[n]) = n /\ \A i \in 1..n : f[n][i] = e[i]
    <2>2. ASSUME NEW n \in Nat, n + 1 \in 1..Len(e), n = 0 \/ Good(n) PROVE Good(n + 1)
      <3>1. e[n + 1] \in X /\ ss[n + 1] = <<e[n + 1]>> /\ <<e[n + 1]>> \in Seq(X)
        BY <1>4, <2>2
      <3>2. CASE n = 0
        <4>1. f[n + 1] = <<e[n + 1]>> /\ n + 1 = 1
          BY <2>1, <2>2, <3>1, <3>2
        <4> QED
          BY <3>1, <4>1
      <3>3. CASE n # 0
        <4>0. n + 1 # 1 /\ (n + 1) - 1 = n
          BY <3>3
        <4>1. f[n + 1] = f[n] \o <<e[n + 1]>>
          BY <2>1, <2>2, <3>1, <4>0
        <4> QED
          BY <2>2, <3>1, <3>3, <4>1, ConcatProperties
      <3> QED
        BY <3>2, <3>3
    <2> HIDE DEF Good
    <2> DEFINE S == {n \in Nat : n \in 1..Len(e) => Good(n)}
    <2>3. 0 \in S
      OBVIOUS
    <2>4. ASSUME NEW n \in Nat, n \in S PROVE n + 1 \in S
      <3>1. n + 1 \in 1..Len(e) => n = 0 \/ n \in 1..Len(e)
        BY <1>4
      <3> QED
        BY <2>2, <2>4, <3>1
    <2> HIDE DEF S
    <2>5. Nat \subseteq S
      BY <2>3, <2>4, Induction
    <2>6. Good(Len(e))
      BY <1>4, <1>6, <2>5 DEF S
    <2> QED
      BY <1>4, <2>1, <2>6, SeqEqual DEF Good
  <1> QED
    BY <1>5, <1>6

------------------------------------------------------------------------------
(* Ordered sequences of calls *)

LEMMA AddRefused ==
  ASSUME NEW n, NEW G \in Seq(Graphs), NODE_TO_GRAPHS[n.label] = G
  PROVE  AddNode(n) = [i \in DOMAIN G |-> StoreNode(G[i], n)]
  <1> DEFINE e == [i \in DOMAIN G |-> StoreNode(G[i], n)]
  <1>1. e \in Seq({StoreNode(g, n) : g \in Graphs})
    OBVIOUS
  <1>2. AddNode(n) = FlattenSeq([i \in DOMAIN G |-> <<StoreNode(G[i], n)>>])
    BY DEF AddNode, ForEach
  <1>3. [i \in DOMAIN G |-> <<StoreNode(G[i], n)>>] = [i \in DOMAIN e |-> <<e[i]>>]
    OBVIOUS
  <1> QED
    BY <1>1, <1>2, <1>3, FlattenSingles

Copy(g, l, i) == StoreNode(g, KeyOf(l, i))

LEMMA AddNodeOf ==
  ASSUME NEW i
  PROVE  /\ AddNode(KeyOf("Component", i)) =
              <<Copy("ebom", "Component", i), Copy("routing", "Component", i),
                Copy("sourcing", "Component", i)>>
         /\ AddNode(KeyOf("Product", i)) =
              <<Copy("ebom", "Product", i), Copy("routing", "Product", i)>>
         /\ AddNode(KeyOf("Process", i)) = <<Copy("routing", "Process", i)>>
         /\ AddNode(KeyOf("Supplier", i)) = <<Copy("sourcing", "Supplier", i)>>
  <1>1. <<"ebom", "routing", "sourcing">> \in Seq(Graphs) /\ <<"ebom", "routing">> \in Seq(Graphs)
    BY DEF Graphs
  <1>2. <<"routing">> \in Seq(Graphs) /\ <<"sourcing">> \in Seq(Graphs)
    BY DEF Graphs
  <1>3. /\ NODE_TO_GRAPHS[KeyOf("Component", i).label] = <<"ebom", "routing", "sourcing">>
        /\ NODE_TO_GRAPHS[KeyOf("Product", i).label] = <<"ebom", "routing">>
        /\ NODE_TO_GRAPHS[KeyOf("Process", i).label] = <<"routing">>
        /\ NODE_TO_GRAPHS[KeyOf("Supplier", i).label] = <<"sourcing">>
    BY DEF KeyOf, NODE_TO_GRAPHS
  <1>4. AddNode(KeyOf("Component", i)) =
          [j \in DOMAIN <<"ebom", "routing", "sourcing">> |->
             StoreNode(<<"ebom", "routing", "sourcing">>[j], KeyOf("Component", i))]
    BY <1>1, <1>3, AddRefused
  <1>5. AddNode(KeyOf("Product", i)) =
          [j \in DOMAIN <<"ebom", "routing">> |->
             StoreNode(<<"ebom", "routing">>[j], KeyOf("Product", i))]
    BY <1>1, <1>3, AddRefused
  <1>6. AddNode(KeyOf("Process", i)) =
          [j \in DOMAIN <<"routing">> |-> StoreNode(<<"routing">>[j], KeyOf("Process", i))]
    BY <1>2, <1>3, AddRefused
  <1>7. AddNode(KeyOf("Supplier", i)) =
          [j \in DOMAIN <<"sourcing">> |-> StoreNode(<<"sourcing">>[j], KeyOf("Supplier", i))]
    BY <1>2, <1>3, AddRefused
  <1> QED
    BY <1>4, <1>5, <1>6, <1>7 DEF Copy

------------------------------------------------------------------------------
(* Calls in order *)

\* The domains a component is in before it is written to this one.
Earlier == [ebom |-> {}, routing |-> {"ebom"}, sourcing |-> {"ebom", "routing"}]

\* What must have been called before call c, over all conditions of IngestOrder.
Needs(c) ==
  CASE c.kind = "node" ->
         {ConfigureIngest(c.graph)} \cup
         {StoreNode(g, c.node) : g \in IF c.node \in Components THEN Earlier[c.graph] ELSE {}}
    [] c.kind = "edge" ->
         {StoreNode(GraphOf(c.edge), c.edge.source), StoreNode(GraphOf(c.edge), c.edge.target)}
         \cup IF IsSupply(c) THEN {MasterRow(c.edge.source)} ELSE {}
    [] c.kind = "row" -> {StoreNode(g, c.node) : g \in Graphs}
    [] OTHER -> {}

\* The sequences of calls from P that find what they need, beyond what B grants.
Ordered(P, B) ==
  {s \in Seq(P) : \A i \in 1..Len(s) : Needs(s[i]) \subseteq B \cup {s[j] : j \in 1..(i - 1)}}

LEMMA OrderedEmpty ==
  ASSUME NEW P, NEW B
  PROVE  <<>> \in Ordered(P, B)
  BY DEF Ordered

LEMMA OrderedOne ==
  ASSUME NEW P, NEW B, NEW c \in P, Needs(c) \subseteq B
  PROVE  <<c>> \in Ordered(P, B) /\ Range(<<c>>) = {c}
  <1>1. <<c>> \in Seq(P) /\ Len(<<c>>) = 1 /\ <<c>>[1] = c /\ DOMAIN <<c>> = {1}
    OBVIOUS
  <1> QED
    BY <1>1 DEF Ordered, Range

LEMMA OrderedMore ==
  ASSUME NEW P, NEW Q, P \subseteq Q, NEW B, NEW D, B \subseteq D, NEW s \in Ordered(P, B)
  PROVE  s \in Ordered(Q, D)
  BY SeqMonotonic DEF Ordered

LEMMA OrderedConcat ==
  ASSUME NEW P, NEW B, NEW s \in Ordered(P, B), NEW t \in Ordered(P, B \cup Range(s))
  PROVE  s \o t \in Ordered(P, B) /\ Range(s \o t) = Range(s) \cup Range(t)
  <1>1. s \in Seq(P) /\ t \in Seq(P)
    BY DEF Ordered
  <1>2. /\ DOMAIN s = 1..Len(s) /\ Len(s) \in Nat /\ DOMAIN t = 1..Len(t) /\ Len(t) \in Nat
        /\ s \o t \in Seq(P) /\ Len(s \o t) = Len(s) + Len(t)
        /\ \A i \in 1..(Len(s) + Len(t)) :
             (s \o t)[i] = IF i <= Len(s) THEN s[i] ELSE t[i - Len(s)]
    BY <1>1, LenProperties, ConcatProperties
  <1>3. ASSUME NEW i \in 1..(Len(s) + Len(t)), NEW c \in Needs((s \o t)[i])
        PROVE  c \in B \cup {(s \o t)[j] : j \in 1..(i - 1)}
    <2>1. CASE i <= Len(s)
      <3>1. c \in B \cup {s[j] : j \in 1..(i - 1)}
        BY <1>2, <1>3, <2>1 DEF Ordered
      <3>2. \A j \in 1..(i - 1) : (s \o t)[j] = s[j]
        BY <1>2, <2>1
      <3> QED
        BY <3>1, <3>2
    <2>2. CASE i > Len(s)
      <3> DEFINE k == i - Len(s)
      <3>1. k \in 1..Len(t) /\ (s \o t)[i] = t[k]
        BY <1>2, <2>2
      <3>2. c \in B \cup Range(s) \cup {t[j] : j \in 1..(k - 1)}
        BY <1>3, <3>1 DEF Ordered
      <3>3. \A j \in 1..Len(s) : j \in 1..(i - 1) /\ (s \o t)[j] = s[j]
        BY <1>2, <2>2
      <3>4. \A j \in 1..(k - 1) : /\ Len(s) + j \in 1..(i - 1)
                                  /\ (s \o t)[Len(s) + j] = t[j]
        BY <1>2, <2>2, <3>1
      <3>5. Range(s) = {s[j] : j \in 1..Len(s)}
        BY <1>2 DEF Range
      <3> HIDE DEF k
      <3> QED
        BY <3>2, <3>3, <3>4, <3>5
    <2> QED
      BY <1>2, <2>1, <2>2
  <1>4. Range(s \o t) = Range(s) \cup Range(t)
    BY <1>1, ConcatRange
  <1> DEFINE st == s \o t
  <1>5. /\ st \in Seq(P)
        /\ \A i \in 1..Len(st) : Needs(st[i]) \subseteq B \cup {st[j] : j \in 1..(i - 1)}
    BY <1>2, <1>3
  <1> HIDE DEF st
  <1>6. st \in Ordered(P, B)
    BY <1>5 DEF Ordered
  <1> QED
    BY <1>4, <1>6 DEF st

LEMMA OrderedTwo ==
  ASSUME NEW P, NEW B, NEW c \in P, NEW d \in P,
         Needs(c) \subseteq B, Needs(d) \subseteq B \cup {c}
  PROVE  <<c, d>> \in Ordered(P, B) /\ Range(<<c, d>>) = {c, d}
  <1> DEFINE s == <<c, d>>
  <1>1. s \in Seq(P) /\ Len(s) = 2 /\ DOMAIN s = {1, 2} /\ s[1] = c /\ s[2] = d
    OBVIOUS
  <1> HIDE DEF s
  <1>2. \A i \in 1..Len(s) : Needs(s[i]) \subseteq B \cup {s[j] : j \in 1..(i - 1)}
    <2>1. 1..Len(s) = {1, 2} /\ c \in {s[j] : j \in 1..(2 - 1)}
      BY <1>1
    <2>2. Needs(s[1]) \subseteq B \cup {s[j] : j \in 1..(1 - 1)}
      BY <1>1
    <2>3. Needs(s[2]) \subseteq B \cup {s[j] : j \in 1..(2 - 1)}
      BY <1>1, <2>1
    <2> QED
      BY <2>1, <2>2, <2>3
  <1>3. s \in Ordered(P, B)
    BY <1>1, <1>2 DEF Ordered
  <1>4. Range(s) = {c, d}
    BY <1>1 DEF Range
  <1> QED
    BY <1>3, <1>4 DEF s

LEMMA OrderedThree ==
  ASSUME NEW P, NEW B, NEW c \in P, NEW d \in P, NEW e \in P,
         Needs(c) \subseteq B, Needs(d) \subseteq B \cup {c}, Needs(e) \subseteq B \cup {c, d}
  PROVE  <<c, d, e>> \in Ordered(P, B) /\ Range(<<c, d, e>>) = {c, d, e}
  <1> DEFINE s == <<c, d, e>>
  <1>1. /\ s \in Seq(P) /\ Len(s) = 3 /\ DOMAIN s = {1, 2, 3}
        /\ s[1] = c /\ s[2] = d /\ s[3] = e
    OBVIOUS
  <1> HIDE DEF s
  <1>2. \A i \in 1..Len(s) : Needs(s[i]) \subseteq B \cup {s[j] : j \in 1..(i - 1)}
    <2>1. /\ 1..Len(s) = {1, 2, 3}
          /\ c \in {s[j] : j \in 1..(2 - 1)} /\ {c, d} \subseteq {s[j] : j \in 1..(3 - 1)}
      BY <1>1
    <2>2. Needs(s[1]) \subseteq B \cup {s[j] : j \in 1..(1 - 1)}
      BY <1>1
    <2>3. Needs(s[2]) \subseteq B \cup {s[j] : j \in 1..(2 - 1)}
      BY <1>1, <2>1
    <2>4. Needs(s[3]) \subseteq B \cup {s[j] : j \in 1..(3 - 1)}
      BY <1>1, <2>1
    <2> QED
      BY <2>1, <2>2, <2>3, <2>4
  <1>3. s \in Ordered(P, B)
    BY <1>1, <1>2 DEF Ordered
  <1>4. Range(s) = {c, d, e}
    BY <1>1 DEF Range
  <1> QED
    BY <1>3, <1>4 DEF s

LEMMA OrderedFlatten ==
  ASSUME NEW P, NEW B, NEW ss \in Seq(Ordered(P, B))
  PROVE  /\ FlattenSeq(ss) \in Ordered(P, B)
         /\ Range(FlattenSeq(ss)) = UNION {Range(ss[i]) : i \in 1..Len(ss)}
  <1>1. \A s, t \in Ordered(P, B) : s \o t \in Ordered(P, B)
    BY OrderedMore, OrderedConcat
  <1>2. ss \in Seq(Seq(P))
    BY SeqMonotonic DEF Ordered
  <1> QED
    BY <1>1, <1>2, OrderedEmpty, FlattenClosed, FlattenRange

------------------------------------------------------------------------------
(* What single calls need *)

\* Calls no store refuses for their label; those that add; those without a
\* master row; those that have nothing to do with suppliers either.
Sound  == {c \in StoreCall : c.kind = "node" => NodeAllowed(c.graph, c.node)}
Adding == {c \in Sound : c.kind \in {"configure", "node", "edge", "row"}}
Loads  == {c \in Adding : c.kind # "row"}
Plain  == {c \in Loads : ~IsSupply(c)}

LEMMA ConfigureNeeds ==
  ASSUME NEW g \in Graphs
  PROVE  ConfigureIngest(g) \in Plain /\ Needs(ConfigureIngest(g)) = {}
  BY DEF ConfigureIngest, Needs, Plain, Loads, Adding, Sound, StoreCall, IsSupply

LEMMA CopyNeeds ==
  ASSUME NEW l \in Labels, NEW i \in Ids[l], NEW g \in Graphs, l \in DOMAIN_NODES[g]
  PROVE  /\ Copy(g, l, i) \in Plain
         /\ Needs(Copy(g, l, i)) =
              {ConfigureIngest(g)}
              \cup {Copy(h, l, i) : h \in IF l = "Component" THEN Earlier[g] ELSE {}}
  <1>1. KeyOf(l, i) \in Node /\ KeyOf(l, i).label = l
    BY DEF KeyOf, Node, Labelled
  <1>2. KeyOf(l, i) \in Components <=> l = "Component"
    BY DEF KeyOf, Components, Labelled
  <1>3. /\ Copy(g, l, i) = [kind |-> "node", graph |-> g, node |-> KeyOf(l, i)]
        /\ Copy(g, l, i).kind = "node"
        /\ Copy(g, l, i).graph = g
        /\ Copy(g, l, i).node = KeyOf(l, i)
    BY DEF Copy, StoreNode
  <1>4. Copy(g, l, i) \in StoreCall
    BY <1>1, <1>3 DEF StoreCall
  <1>5. Copy(g, l, i) \in Plain
    BY <1>1, <1>3, <1>4 DEF Plain, Loads, Adding, Sound, IsSupply, NodeAllowed
  <1>6. Needs(Copy(g, l, i)) =
          {ConfigureIngest(g)}
          \cup {StoreNode(h, KeyOf(l, i)) : h \in IF l = "Component" THEN Earlier[g] ELSE {}}
    BY <1>2, <1>3 DEF Needs
  <1> QED
    BY <1>5, <1>6 DEF Copy

LEMMA RowNeeds ==
  ASSUME NEW i \in Ids["Component"]
  PROVE  /\ MasterRow(KeyOf("Component", i)) \in Adding
         /\ Needs(MasterRow(KeyOf("Component", i))) = {Copy(g, "Component", i) : g \in Graphs}
  <1>1. KeyOf("Component", i) \in Components
    BY DEF KeyOf, Components, Labelled
  <1> QED
    BY <1>1 DEF MasterRow, Needs, Adding, Sound, StoreCall, Copy

Link(t, src, dst) ==
  StoreEdge([type   |-> t,
             source |-> KeyOf(ALLOWED_EDGES[t].source, src),
             target |-> KeyOf(ALLOWED_EDGES[t].target, dst)])

LEMMA LinkNeeds ==
  ASSUME NEW t \in EdgeTypes,
         NEW src \in Ids[ALLOWED_EDGES[t].source], NEW dst \in Ids[ALLOWED_EDGES[t].target]
  PROVE  /\ Link(t, src, dst) \in Loads
         /\ t # "SUPPLIED_BY" => Link(t, src, dst) \in Plain
         /\ Needs(Link(t, src, dst)) =
              {Copy(EDGE_TO_GRAPH[t], ALLOWED_EDGES[t].source, src),
               Copy(EDGE_TO_GRAPH[t], ALLOWED_EDGES[t].target, dst)}
              \cup IF t = "SUPPLIED_BY"
                   THEN {MasterRow(KeyOf(ALLOWED_EDGES[t].source, src))} ELSE {}
  <1> DEFINE e == [type   |-> t,
                   source |-> KeyOf(ALLOWED_EDGES[t].source, src),
                   target |-> KeyOf(ALLOWED_EDGES[t].target, dst)]
  <1>1. /\ Link(t, src, dst) = [kind |-> "edge", edge |-> e]
        /\ Link(t, src, dst).kind = "edge" /\ Link(t, src, dst).edge = e
    BY DEF Link, StoreEdge
  <1>2. /\ e.type = t
        /\ e.source = KeyOf(ALLOWED_EDGES[t].source, src)
        /\ e.target = KeyOf(ALLOWED_EDGES[t].target, dst)
    OBVIOUS
  <1>3. e \in Edge
    <2>1. /\ KeyOf(ALLOWED_EDGES[t].source, src) \in Labelled(ALLOWED_EDGES[t].source)
          /\ KeyOf(ALLOWED_EDGES[t].target, dst) \in Labelled(ALLOWED_EDGES[t].target)
      BY DEF KeyOf, Labelled
    <2> QED
      BY <2>1 DEF Edge
  <1> HIDE DEF e
  <1>4. Link(t, src, dst) \in Loads
    BY <1>1, <1>3 DEF Loads, Adding, Sound, StoreCall
  <1>5. IsSupply(Link(t, src, dst)) <=> t = "SUPPLIED_BY"
    BY <1>1, <1>2 DEF IsSupply
  <1>6. Needs(Link(t, src, dst)) =
          {StoreNode(EDGE_TO_GRAPH[t], e.source), StoreNode(EDGE_TO_GRAPH[t], e.target)}
          \cup IF t = "SUPPLIED_BY" THEN {MasterRow(e.source)} ELSE {}
    BY <1>1, <1>2, <1>5 DEF Needs, GraphOf
  <1> QED
    BY <1>2, <1>4, <1>5, <1>6 DEF Plain, Copy

------------------------------------------------------------------------------
(* The loops of the scripts *)

Configs         == {ConfigureIngest(g) : g \in Graphs}
SupplierCopies  == {Copy("sourcing", "Supplier", x) : x \in Range(SUPPLIERS)}
ProductCopies   == {Copy("ebom", "Product", x) : x \in Range(PRODUCTS)}
                   \cup {Copy("routing", "Product", x) : x \in Range(PRODUCTS)}
ProcessCopies   == {Copy("routing", "Process", x) : x \in Range(PROCESSES)}
ComponentCopies == UNION {{Copy(g, "Component", r.component) : r \in Range(COMPONENT_BOM)} :
                            g \in Graphs}
Rows == {MasterRow(KeyOf("Component", r.component)) : r \in Range(COMPONENT_BOM)}

LEMMA RangeOf ==
  ASSUME NEW X, NEW s \in Seq(X)
  PROVE  /\ DOMAIN s = 1..Len(s) /\ Len(s) \in Nat
         /\ Range(s) = {s[i] : i \in 1..Len(s)}
         /\ Range(s) \subseteq X
  <1>1. DOMAIN s = 1..Len(s) /\ Len(s) \in Nat /\ \A i \in 1..Len(s) : s[i] \in X
    BY LenProperties, ElementOfSeq
  <1> QED
    BY <1>1 DEF Range

Item == [component : Ids["Component"], supplier : Range(SUPPLIERS),
         products : Seq(Range(PRODUCTS)), processes : Seq(Range(PROCESSES))]

LEMMA Data ==
  /\ Range(SUPPLIERS) \subseteq Ids["Supplier"]
  /\ Range(PRODUCTS) \subseteq Ids["Product"]
  /\ Range(PROCESSES) \subseteq Ids["Process"]
  /\ SUPPLIERS \in Seq(Ids["Supplier"])
  /\ PRODUCTS \in Seq(Ids["Product"])
  /\ PROCESSES \in Seq(Ids["Process"])
  /\ COMPONENT_BOM \in Seq(Item)
  /\ PRODUCT_PROCESSES \in Seq(Range(PRODUCTS) \X Range(PROCESSES))
  <1>1. /\ SUPPLIERS \in Seq(Ids["Supplier"])
        /\ PRODUCTS \in Seq(Ids["Product"])
        /\ PROCESSES \in Seq(Ids["Process"])
        /\ COMPONENT_BOM \in Seq(Item)
        /\ PRODUCT_PROCESSES \in Seq(Range(PRODUCTS) \X Range(PROCESSES))
    BY DataAssumption DEF Item
  <1> QED
    BY <1>1, RangeOf

LEMMA DataItem ==
  ASSUME NEW i \in DOMAIN COMPONENT_BOM
  PROVE  /\ COMPONENT_BOM[i].component \in Ids["Component"]
         /\ COMPONENT_BOM[i].supplier \in Range(SUPPLIERS)
         /\ COMPONENT_BOM[i].products \in Seq(Range(PRODUCTS))
         /\ COMPONENT_BOM[i].processes \in Seq(Range(PROCESSES))
         /\ COMPONENT_BOM[i] \in Range(COMPONENT_BOM)
  <1>1. COMPONENT_BOM[i] \in Item
    BY Data, LenProperties, ElementOfSeq
  <1> QED
    BY <1>1 DEF Item, Range

\* A loop whose body makes calls in order, whatever it finds besides B.
LEMMA Loop ==
  ASSUME NEW P, NEW B, NEW X, NEW seq \in Seq(X), NEW ss,
         ss = [i \in DOMAIN seq |-> ss[i]],
         \A i \in DOMAIN seq : ss[i] \in Ordered(P, B)
  PROVE  /\ FlattenSeq(ss) \in Ordered(P, B)
         /\ \A i \in DOMAIN seq : Range(ss[i]) \subseteq Range(FlattenSeq(ss))
  <1>1. DOMAIN seq = 1..Len(seq) /\ Len(seq) \in Nat
    BY RangeOf
  <1>2. ss \in Seq(Ordered(P, B)) /\ Len(ss) = Len(seq)
    BY <1>1
  <1> QED
    BY <1>1, <1>2, OrderedFlatten

LEMMA SupplierNodes ==
  ASSUME NEW B, Configs \subseteq B
  PROVE  /\ SourcingSeedNodes \in Ordered(Plain, B)
         /\ SupplierCopies \subseteq Range(SourcingSeedNodes)
  <1> DEFINE ss == [i \in DOMAIN SUPPLIERS |-> AddNode(KeyOf("Supplier", SUPPLIERS[i]))]
  <1>1. SourcingSeedNodes = FlattenSeq(ss)
    BY DEF SourcingSeedNodes, ForEach
  <1>2. ASSUME NEW i \in DOMAIN SUPPLIERS
        PROVE  /\ ss[i] \in Ordered(Plain, B)
               /\ Range(ss[i]) = {Copy("sourcing", "Supplier", SUPPLIERS[i])}
    <2>1. SUPPLIERS[i] \in Ids["Supplier"]
      BY Data DEF Range
    <2>2. /\ Copy("sourcing", "Supplier", SUPPLIERS[i]) \in Plain
          /\ Needs(Copy("sourcing", "Supplier", SUPPLIERS[i])) = {ConfigureIngest("sourcing")}
      BY <2>1, CopyNeeds DEF Labels, Graphs, DOMAIN_NODES
    <2>3. ConfigureIngest("sourcing") \in B
      BY DEF Configs, Graphs
    <2>4. ss[i] = <<Copy("sourcing", "Supplier", SUPPLIERS[i])>>
      BY Data, AddNodeOf
    <2> HIDE DEF ss
    <2> QED
      BY <2>2, <2>3, <2>4, OrderedOne
  <1>3. ss = [i \in DOMAIN SUPPLIERS |-> ss[i]]
    OBVIOUS
  <1> HIDE DEF ss
  <1>4. /\ FlattenSeq(ss) \in Ordered(Plain, B)
        /\ \A i \in DOMAIN SUPPLIERS : Range(ss[i]) \subseteq Range(FlattenSeq(ss))
    BY <1>2, <1>3, Data, Loop
  <1> QED
    BY <1>1, <1>2, <1>4 DEF SupplierCopies, Range

LEMMA ProcessNodes ==
  ASSUME NEW B, Configs \subseteq B
  PROVE  /\ RoutingSeedNodes \in Ordered(Plain, B)
         /\ ProcessCopies \subseteq Range(RoutingSeedNodes)
  <1> DEFINE ss == [i \in DOMAIN PROCESSES |-> AddNode(KeyOf("Process", PROCESSES[i]))]
  <1>1. RoutingSeedNodes = FlattenSeq(ss)
    BY DEF RoutingSeedNodes, ForEach
  <1>2. ASSUME NEW i \in DOMAIN PROCESSES
        PROVE  /\ ss[i] \in Ordered(Plain, B)
               /\ Range(ss[i]) = {Copy("routing", "Process", PROCESSES[i])}
    <2>1. PROCESSES[i] \in Ids["Process"]
      BY Data DEF Range
    <2>2. /\ Copy("routing", "Process", PROCESSES[i]) \in Plain
          /\ Needs(Copy("routing", "Process", PROCESSES[i])) = {ConfigureIngest("routing")}
      BY <2>1, CopyNeeds DEF Labels, Graphs, DOMAIN_NODES
    <2>3. ConfigureIngest("routing") \in B
      BY DEF Configs, Graphs
    <2>4. ss[i] = <<Copy("routing", "Process", PROCESSES[i])>>
      BY Data, AddNodeOf
    <2> HIDE DEF ss
    <2> QED
      BY <2>2, <2>3, <2>4, OrderedOne
  <1>3. ss = [i \in DOMAIN PROCESSES |-> ss[i]]
    OBVIOUS
  <1> HIDE DEF ss
  <1>4. /\ FlattenSeq(ss) \in Ordered(Plain, B)
        /\ \A i \in DOMAIN PROCESSES : Range(ss[i]) \subseteq Range(FlattenSeq(ss))
    BY <1>2, <1>3, Data, Loop
  <1> QED
    BY <1>1, <1>2, <1>4 DEF ProcessCopies, Range

LEMMA ProductNodes ==
  ASSUME NEW B, Configs \subseteq B
  PROVE  /\ EbomSeedNodes \in Ordered(Plain, B)
         /\ ProductCopies \subseteq Range(EbomSeedNodes)
  <1> DEFINE ss == [i \in DOMAIN PRODUCTS |-> AddNode(KeyOf("Product", PRODUCTS[i]))]
  <1>1. EbomSeedNodes = FlattenSeq(ss)
    BY DEF EbomSeedNodes, ForEach
  <1>2. ASSUME NEW i \in DOMAIN PRODUCTS
        PROVE  /\ ss[i] \in Ordered(Plain, B)
               /\ Range(ss[i]) = {Copy("ebom", "Product", PRODUCTS[i]),
                                  Copy("routing", "Product", PRODUCTS[i])}
    <2>1. PRODUCTS[i] \in Ids["Product"]
      BY Data DEF Range
    <2>2. \A g \in {"ebom", "routing"} :
            /\ Copy(g, "Product", PRODUCTS[i]) \in Plain
            /\ Needs(Copy(g, "Product", PRODUCTS[i])) = {ConfigureIngest(g)}
            /\ ConfigureIngest(g) \in B
      BY <2>1, CopyNeeds DEF Labels, Graphs, DOMAIN_NODES, Configs
    <2>3. ss[i] = <<Copy("ebom", "Product", PRODUCTS[i]), Copy("routing", "Product", PRODUCTS[i])>>
      BY Data, AddNodeOf
    <2> HIDE DEF ss
    <2> QED
      BY <2>2, <2>3, OrderedTwo
  <1>3. ss = [i \in DOMAIN PRODUCTS |-> ss[i]]
    OBVIOUS
  <1> HIDE DEF ss
  <1>4. /\ FlattenSeq(ss) \in Ordered(Plain, B)
        /\ \A i \in DOMAIN PRODUCTS : Range(ss[i]) \subseteq Range(FlattenSeq(ss))
    BY <1>2, <1>3, Data, Loop
  <1> QED
    BY <1>1, <1>2, <1>4 DEF ProductCopies, Range

\* AddNode of a component, in the order ebom, routing, sourcing.
LEMMA ComponentNode ==
  ASSUME NEW B, Configs \subseteq B, NEW i \in Ids["Component"]
  PROVE  /\ AddNode(Component(i)) \in Ordered(Plain, B)
         /\ Range(AddNode(Component(i))) = {Copy(g, "Component", i) : g \in Graphs}
  <1>1. Component(i) = KeyOf("Component", i)
    BY DEF Component, KeyOf
  <1>2. \A g \in Graphs :
          /\ Copy(g, "Component", i) \in Plain
          /\ Needs(Copy(g, "Component", i)) =
               {ConfigureIngest(g)} \cup {Copy(h, "Component", i) : h \in Earlier[g]}
          /\ ConfigureIngest(g) \in B
    BY CopyNeeds DEF Labels, Graphs, DOMAIN_NODES, Configs
  <1>3. AddNode(Component(i)) = <<Copy("ebom", "Component", i), Copy("routing", "Component", i),
                                  Copy("sourcing", "Component", i)>>
    BY <1>1, AddNodeOf
  <1>4. /\ Needs(Copy("ebom", "Component", i)) \subseteq B
        /\ Needs(Copy("routing", "Component", i)) \subseteq B \cup {Copy("ebom", "Component", i)}
        /\ Needs(Copy("sourcing", "Component", i)) \subseteq
             B \cup {Copy("ebom", "Component", i), Copy("routing", "Component", i)}
    BY <1>2 DEF Earlier, Graphs
  <1> QED
    BY <1>2, <1>3, <1>4, OrderedThree DEF Graphs

LEMMA ComponentNodes ==
  ASSUME NEW B, Configs \subseteq B
  PROVE  /\ AddComponents \in Ordered(Plain, B)
         /\ ComponentCopies \subseteq Range(AddComponents)
  <1> DEFINE ss == [i \in DOMAIN COMPONENT_BOM |-> AddNode(Component(COMPONENT_BOM[i].component))]
  <1>1. AddComponents = FlattenSeq(ss)
    BY DEF AddComponents, ForEach
  <1>2. ASSUME NEW i \in DOMAIN COMPONENT_BOM
        PROVE  /\ ss[i] \in Ordered(Plain, B)
               /\ Range(ss[i]) = {Copy(g, "Component", COMPONENT_BOM[i].component) : g \in Graphs}
    <2>1. COMPONENT_BOM[i].component \in Ids["Component"]
      BY DataItem
    <2>2. ss[i] = AddNode(Component(COMPONENT_BOM[i].component))
      OBVIOUS
    <2> HIDE DEF ss
    <2> QED
      BY <2>1, <2>2, ComponentNode
  <1>3. ss = [i \in DOMAIN COMPONENT_BOM |-> ss[i]]
    OBVIOUS
  <1> HIDE DEF ss
  <1>4. /\ FlattenSeq(ss) \in Ordered(Plain, B)
        /\ \A i \in DOMAIN COMPONENT_BOM : Range(ss[i]) \subseteq Range(FlattenSeq(ss))
    BY <1>2, <1>3, Data, Loop
  <1> QED
    BY <1>1, <1>2, <1>4 DEF ComponentCopies, Range

ComponentRows == ForEach(COMPONENT_BOM, LAMBDA r : UpsertComponent(r.component))

\* upsert_component: the row when all copies are there.
LEMMA ComponentRow ==
  ASSUME NEW B, Configs \subseteq B, NEW i \in Ids["Component"]
  PROVE  /\ UpsertComponent(i) \in Ordered(Adding, B)
         /\ Range(UpsertComponent(i)) =
              {Copy(g, "Component", i) : g \in Graphs} \cup {MasterRow(KeyOf("Component", i))}
  <1> DEFINE nodes == AddNode(Component(i))
             row   == <<MasterRow(KeyOf("Component", i))>>
  <1>1. UpsertComponent(i) = nodes \o row
    BY DEF UpsertComponent, Component, KeyOf
  <1>2. nodes \in Ordered(Adding, B) /\ Range(nodes) = {Copy(g, "Component", i) : g \in Graphs}
    BY ComponentNode, OrderedMore DEF Plain, Loads
  <1>3. row \in Ordered(Adding, B \cup Range(nodes)) /\ Range(row) = {MasterRow(KeyOf("Component", i))}
    BY <1>2, RowNeeds, OrderedOne
  <1> HIDE DEF nodes, row
  <1> QED
    BY <1>1, <1>2, <1>3, OrderedConcat

LEMMA ComponentRowsInOrder ==
  ASSUME NEW B, Configs \subseteq B
  PROVE  /\ ComponentRows \in Ordered(Adding, B)
         /\ ComponentCopies \cup Rows \subseteq Range(ComponentRows)
  <1> DEFINE ss == [i \in DOMAIN COMPONENT_BOM |-> UpsertComponent(COMPONENT_BOM[i].component)]
  <1>1. ComponentRows = FlattenSeq(ss)
    BY DEF ComponentRows, ForEach
  <1>2. ASSUME NEW i \in DOMAIN COMPONENT_BOM
        PROVE  /\ ss[i] \in Ordered(Adding, B)
               /\ Range(ss[i]) =
                    {Copy(g, "Component", COMPONENT_BOM[i].component) : g \in Graphs}
                    \cup {MasterRow(KeyOf("Component", COMPONENT_BOM[i].component))}
    <2>1. COMPONENT_BOM[i].component \in Ids["Component"]
      BY DataItem
    <2>2. ss[i] = UpsertComponent(COMPONENT_BOM[i].component)
      OBVIOUS
    <2> HIDE DEF ss
    <2> QED
      BY <2>1, <2>2, ComponentRow
  <1>3. ss = [i \in DOMAIN COMPONENT_BOM |-> ss[i]]
    OBVIOUS
  <1> HIDE DEF ss
  <1>4. /\ FlattenSeq(ss) \in Ordered(Adding, B)
        /\ \A i \in DOMAIN COMPONENT_BOM : Range(ss[i]) \subseteq Range(FlattenSeq(ss))
    BY <1>2, <1>3, Data, Loop
  <1>5. ASSUME NEW r \in Range(COMPONENT_BOM)
        PROVE  /\ MasterRow(KeyOf("Component", r.component)) \in Range(FlattenSeq(ss))
               /\ \A g \in Graphs : Copy(g, "Component", r.component) \in Range(FlattenSeq(ss))
    <2>1. PICK i \in DOMAIN COMPONENT_BOM : r = COMPONENT_BOM[i]
      BY DEF Range
    <2> QED
      BY <1>2, <1>4, <2>1
  <1> QED
    BY <1>1, <1>4, <1>5 DEF ComponentCopies, Rows

\* AddEdge when the copies of both ends are there.
LEMMA EdgeInOrder ==
  ASSUME NEW P, NEW B, NEW t \in EdgeTypes,
         NEW src \in Ids[ALLOWED_EDGES[t].source], NEW dst \in Ids[ALLOWED_EDGES[t].target],
         Link(t, src, dst) \in P,
         Copy(EDGE_TO_GRAPH[t], ALLOWED_EDGES[t].source, src) \in B,
         Copy(EDGE_TO_GRAPH[t], ALLOWED_EDGES[t].target, dst) \in B,
         t = "SUPPLIED_BY" => MasterRow(KeyOf(ALLOWED_EDGES[t].source, src)) \in B
  PROVE  AddEdge(t, src, dst) \in Ordered(P, B)
  <1>1. AddEdge(t, src, dst) = <<Link(t, src, dst)>>
    BY DEF AddEdge, Link
  <1>2. Needs(Link(t, src, dst)) \subseteq B
    BY LinkNeeds
  <1> QED
    BY <1>1, <1>2, OrderedOne

LEMMA SupplyEdges ==
  ASSUME NEW B, SupplierCopies \cup ComponentCopies \cup Rows \subseteq B
  PROVE  SourcingSeedEdges \in Ordered(Loads, B)
  <1> DEFINE ss == [i \in DOMAIN COMPONENT_BOM |->
                      AddEdge("SUPPLIED_BY", COMPONENT_BOM[i].component, COMPONENT_BOM[i].supplier)]
  <1>1. SourcingSeedEdges = FlattenSeq(ss)
    BY DEF SourcingSeedEdges, ForEach
  <1>2. ASSUME NEW i \in DOMAIN COMPONENT_BOM PROVE ss[i] \in Ordered(Loads, B)
    <2> DEFINE c == COMPONENT_BOM[i].component
               x == COMPONENT_BOM[i].supplier
    <2>1. c \in Ids["Component"] /\ x \in Ids["Supplier"]
      BY Data, DataItem
    <2>2. /\ Copy("sourcing", "Component", c) \in B
          /\ Copy("sourcing", "Supplier", x) \in B
          /\ MasterRow(KeyOf("Component", c)) \in B
      BY DataItem DEF ComponentCopies, SupplierCopies, Rows, Graphs
    <2>3. /\ ALLOWED_EDGES["SUPPLIED_BY"].source = "Component"
          /\ ALLOWED_EDGES["SUPPLIED_BY"].target = "Supplier"
          /\ EDGE_TO_GRAPH["SUPPLIED_BY"] = "sourcing"
          /\ "SUPPLIED_BY" \in EdgeTypes
      BY DEF ALLOWED_EDGES, EDGE_TO_GRAPH, EdgeTypes
    <2>4. ss[i] = AddEdge("SUPPLIED_BY", c, x)
      OBVIOUS
    <2> HIDE DEF ss, c, x
    <2>5. Link("SUPPLIED_BY", c, x) \in Loads
      BY <2>1, <2>3, LinkNeeds
    <2> QED
      BY <2>1, <2>2, <2>3, <2>4, <2>5, EdgeInOrder
  <1>3. ss = [i \in DOMAIN COMPONENT_BOM |-> ss[i]]
    OBVIOUS
  <1> HIDE DEF ss
  <1> QED
    BY <1>1, <1>2, <1>3, Data, Loop

LEMMA UseEdges ==
  ASSUME NEW B, ProductCopies \cup ComponentCopies \subseteq B
  PROVE  EbomSeedEdges \in Ordered(Plain, B)
  <1> DEFINE ss == [i \in DOMAIN COMPONENT_BOM |->
                      FlattenSeq([j \in DOMAIN COMPONENT_BOM[i].products |->
                        AddEdge("USED_IN", COMPONENT_BOM[i].component,
                                COMPONENT_BOM[i].products[j])])]
  <1>1. EbomSeedEdges = FlattenSeq(ss)
    BY DEF EbomSeedEdges, ForEach
  <1>2. ASSUME NEW i \in DOMAIN COMPONENT_BOM PROVE ss[i] \in Ordered(Plain, B)
    <2> DEFINE c  == COMPONENT_BOM[i].component
               xs == COMPONENT_BOM[i].products
               tt == [j \in DOMAIN xs |-> AddEdge("USED_IN", c, xs[j])]
    <2>1. c \in Ids["Component"] /\ xs \in Seq(Range(PRODUCTS))
      BY DataItem
    <2>2. ss[i] = FlattenSeq(tt)
      OBVIOUS
    <2>3. Copy("ebom", "Component", c) \in B
      BY DataItem DEF ComponentCopies, Graphs
    <2> HIDE DEF ss, c, xs
    <2>4. ASSUME NEW j \in DOMAIN xs PROVE tt[j] \in Ordered(Plain, B)
      <3> DEFINE x == xs[j]
      <3>1. x \in Range(PRODUCTS)
        BY <2>1, LenProperties, ElementOfSeq
      <3>2. x \in Ids["Product"] /\ Copy("ebom", "Product", x) \in B
        BY <3>1, Data DEF ProductCopies
      <3>3. /\ ALLOWED_EDGES["USED_IN"].source = "Component"
            /\ ALLOWED_EDGES["USED_IN"].target = "Product"
            /\ EDGE_TO_GRAPH["USED_IN"] = "ebom"
            /\ "USED_IN" \in EdgeTypes
        BY DEF ALLOWED_EDGES, EDGE_TO_GRAPH, EdgeTypes
      <3>4. tt[j] = AddEdge("USED_IN", c, x)
        OBVIOUS
      <3> HIDE DEF tt, x
      <3>5. Link("USED_IN", c, x) \in Plain
        BY <2>1, <3>2, <3>3, LinkNeeds
      <3> QED
        BY <2>1, <2>3, <3>2, <3>3, <3>4, <3>5, EdgeInOrder
    <2>5. tt = [j \in DOMAIN xs |-> tt[j]]
      OBVIOUS
    <2> HIDE DEF tt
    <2> QED
      BY <2>1, <2>2, <2>4, <2>5, Loop
  <1>3. ss = [i \in DOMAIN COMPONENT_BOM |-> ss[i]]
    OBVIOUS
  <1> HIDE DEF ss
  <1> QED
    BY <1>1, <1>2, <1>3, Data, Loop

LEMMA RoutingEdges ==
  ASSUME NEW B, ProductCopies \cup ProcessCopies \cup ComponentCopies \subseteq B
  PROVE  RoutingSeedEdges \in Ordered(Plain, B)
  <1> DEFINE ss == [i \in DOMAIN COMPONENT_BOM |->
                      FlattenSeq([j \in DOMAIN COMPONENT_BOM[i].processes |->
                        AddEdge("INPUT_OF", COMPONENT_BOM[i].component,
                                COMPONENT_BOM[i].processes[j])])]
             uu == [i \in DOMAIN PRODUCT_PROCESSES |->
                      AddEdge("PRODUCED_BY", PRODUCT_PROCESSES[i][1], PRODUCT_PROCESSES[i][2])]
  <1>1. RoutingSeedEdges = FlattenSeq(ss) \o FlattenSeq(uu)
    BY DEF RoutingSeedEdges, ForEach
  <1>2. ASSUME NEW i \in DOMAIN COMPONENT_BOM PROVE ss[i] \in Ordered(Plain, B)
    <2> DEFINE c  == COMPONENT_BOM[i].component
               xs == COMPONENT_BOM[i].processes
               tt == [j \in DOMAIN xs |-> AddEdge("INPUT_OF", c, xs[j])]
    <2>1. c \in Ids["Component"] /\ xs \in Seq(Range(PROCESSES))
      BY DataItem
    <2>2. ss[i] = FlattenSeq(tt)
      OBVIOUS
    <2>3. Copy("routing", "Component", c) \in B
      BY DataItem DEF ComponentCopies, Graphs
    <2> HIDE DEF ss, c, xs
    <2>4. ASSUME NEW j \in DOMAIN xs PROVE tt[j] \in Ordered(Plain, B)
      <3> DEFINE x == xs[j]
      <3>1. x \in Range(PROCESSES)
        BY <2>1, LenProperties, ElementOfSeq
      <3>2. x \in Ids["Process"] /\ Copy("routing", "Process", x) \in B
        BY <3>1, Data DEF ProcessCopies
      <3>3. /\ ALLOWED_EDGES["INPUT_OF"].source = "Component"
            /\ ALLOWED_EDGES["INPUT_OF"].target = "Process"
            /\ EDGE_TO_GRAPH["INPUT_OF"] = "routing"
            /\ "INPUT_OF" \in EdgeTypes
        BY DEF ALLOWED_EDGES, EDGE_TO_GRAPH, EdgeTypes
      <3>4. tt[j] = AddEdge("INPUT_OF", c, x)
        OBVIOUS
      <3> HIDE DEF tt, x
      <3>5. Link("INPUT_OF", c, x) \in Plain
        BY <2>1, <3>2, <3>3, LinkNeeds
      <3> QED
        BY <2>1, <2>3, <3>2, <3>3, <3>4, <3>5, EdgeInOrder
    <2>5. tt = [j \in DOMAIN xs |-> tt[j]]
      OBVIOUS
    <2> HIDE DEF tt
    <2> QED
      BY <2>1, <2>2, <2>4, <2>5, Loop
  <1>3. ASSUME NEW i \in DOMAIN PRODUCT_PROCESSES PROVE uu[i] \in Ordered(Plain, B)
    <2> DEFINE p == PRODUCT_PROCESSES[i][1]
               x == PRODUCT_PROCESSES[i][2]
    <2>1. PRODUCT_PROCESSES[i] \in Range(PRODUCTS) \X Range(PROCESSES)
      BY Data, LenProperties, ElementOfSeq
    <2>2. /\ p \in Ids["Product"] /\ Copy("routing", "Product", p) \in B
          /\ x \in Ids["Process"] /\ Copy("routing", "Process", x) \in B
      BY <2>1, Data DEF ProductCopies, ProcessCopies
    <2>3. /\ ALLOWED_EDGES["PRODUCED_BY"].source = "Product"
          /\ ALLOWED_EDGES["PRODUCED_BY"].target = "Process"
          /\ EDGE_TO_GRAPH["PRODUCED_BY"] = "routing"
          /\ "PRODUCED_BY" \in EdgeTypes
      BY DEF ALLOWED_EDGES, EDGE_TO_GRAPH, EdgeTypes
    <2>4. uu[i] = AddEdge("PRODUCED_BY", p, x)
      OBVIOUS
    <2> HIDE DEF uu, p, x
    <2>5. Link("PRODUCED_BY", p, x) \in Plain
      BY <2>2, <2>3, LinkNeeds
    <2> QED
      BY <2>2, <2>3, <2>4, <2>5, EdgeInOrder
  <1>4. /\ ss = [i \in DOMAIN COMPONENT_BOM |-> ss[i]]
        /\ uu = [i \in DOMAIN PRODUCT_PROCESSES |-> uu[i]]
    OBVIOUS
  <1> HIDE DEF ss, uu
  <1>5. FlattenSeq(ss) \in Ordered(Plain, B) /\ FlattenSeq(uu) \in Ordered(Plain, B)
    BY <1>2, <1>3, <1>4, Data, Loop
  <1>6. FlattenSeq(uu) \in Ordered(Plain, B \cup Range(FlattenSeq(ss)))
    BY <1>5, OrderedMore
  <1> QED
    BY <1>1, <1>5, <1>6, OrderedConcat

------------------------------------------------------------------------------
(* What calls in order mean for the conditions of IngestOrder *)

LEMMA OrderedConfigures ==
  ASSUME NEW B, \A c \in B : c.kind # "configure", NEW s \in Ordered(Sound, B)
  PROVE  ConfiguresFirst(s)
  <1> SUFFICES ASSUME NEW i \in 1..Len(s), s[i].kind = "node"
               PROVE  \E j \in 1..(i - 1) : s[j] = ConfigureIngest(s[i].graph)
    BY DEF ConfiguresFirst
  <1>1. ConfigureIngest(s[i].graph) \in Needs(s[i])
    BY DEF Needs
  <1>2. ConfigureIngest(s[i].graph).kind = "configure"
    BY DEF ConfigureIngest
  <1> QED
    BY <1>1, <1>2 DEF Ordered

\* What a call needs of nodes, a sequence in order has called before.
LEMMA OrderedNode ==
  ASSUME NEW P, NEW B, \A c \in B : c.kind # "node", NEW s \in Ordered(P, B),
         NEW i \in 1..Len(s), NEW g, NEW n, StoreNode(g, n) \in Needs(s[i])
  PROVE  NodeBefore(s, i, g, n)
  <1>1. StoreNode(g, n).kind = "node"
    BY DEF StoreNode
  <1> QED
    BY <1>1 DEF Ordered, NodeBefore

LEMMA OrderedEndpoints ==
  ASSUME NEW B, \A c \in B : c.kind # "node", NEW s \in Ordered(Sound, B)
  PROVE  EndpointsFirst(s) /\ PartsInOrder(s)
  <1>1. ASSUME NEW i \in 1..Len(s), s[i].kind = "node"
        PROVE  /\ NodeAllowed(s[i].graph, s[i].node)
               /\ \A g \in Graphs, h \in {"routing", "sourcing"} :
                    /\ s[i].node \in Components
                    /\ s[i].graph = h
                    /\ g = "ebom" \/ (g = "routing" /\ h = "sourcing")
                    => NodeBefore(s, i, g, s[i].node)
    <2>1. s[i] \in Sound
      BY ElementOfSeq DEF Ordered
    <2>2. \A g \in Graphs, h \in {"routing", "sourcing"} :
            g = "ebom" \/ (g = "routing" /\ h = "sourcing") => g \in Earlier[h]
      BY DEF Earlier
    <2>3. \A g \in Earlier[s[i].graph] :
            s[i].node \in Components => StoreNode(g, s[i].node) \in Needs(s[i])
      BY <1>1 DEF Needs
    <2> QED
      BY <1>1, <2>1, <2>2, <2>3, OrderedNode DEF Sound
  <1>2. ASSUME NEW i \in 1..Len(s), s[i].kind = "edge"
        PROVE  /\ NodeBefore(s, i, GraphOf(s[i].edge), s[i].edge.source)
               /\ NodeBefore(s, i, GraphOf(s[i].edge), s[i].edge.target)
    <2>1. /\ StoreNode(GraphOf(s[i].edge), s[i].edge.source) \in Needs(s[i])
          /\ StoreNode(GraphOf(s[i].edge), s[i].edge.target) \in Needs(s[i])
      BY <1>2 DEF Needs
    <2> QED
      BY <2>1, OrderedNode
  <1>3. ASSUME NEW i \in 1..Len(s), s[i].kind = "row", NEW g \in Graphs
        PROVE  NodeBefore(s, i, g, s[i].node)
    <2>1. StoreNode(g, s[i].node) \in Needs(s[i])
      BY <1>3 DEF Needs
    <2> QED
      BY <2>1, OrderedNode
  <1>4. EndpointsFirst(s)
    BY <1>1, <1>2 DEF EndpointsFirst
  <1>5. PartsInOrder(s)
    BY <1>1, <1>3 DEF PartsInOrder
  <1> QED
    BY <1>4, <1>5

LEMMA OrderedLoads ==
  ASSUME NEW B, \A c \in B : c.kind # "node", NEW s \in Ordered(Loads, B)
  PROVE  AddsInOrder(s) /\ PartsInOrder(s)
  <1>1. s \in Ordered(Sound, B)
    BY OrderedMore DEF Loads, Adding
  <1>2. \A i \in 1..Len(s) : s[i] \in Loads
    BY ElementOfSeq DEF Ordered
  <1>3. Keeps(s) /\ OpensForRows(s)
    BY <1>2 DEF Keeps, NoneBetween, OpensForRows, Loads, Adding
  <1> QED
    BY <1>1, <1>3, OrderedEndpoints DEF AddsInOrder

LEMMA PlainLeavesMaster ==
  ASSUME NEW s \in Seq(Plain)
  PROVE  LeavesMaster(s)
  <1>1. \A i \in 1..Len(s) : s[i] \in Plain
    BY ElementOfSeq
  <1> QED
    BY <1>1 DEF LeavesMaster, Plain, Loads, Adding

\* A script that adds with the master open from its first call to its last.
Session(s) ==
  /\ s \in Ordered(Sound, {})
  /\ Len(s) \in Nat /\ Len(s) >= 2
  /\ s[1].kind = "open" /\ s[Len(s)].kind = "close"
  /\ \A i \in 1..Len(s) : s[i].kind \notin {"reset", "unlink"}
  /\ \A i \in 1..(Len(s) - 1) : s[i].kind # "close"

LEMMA Bracketed ==
  ASSUME NEW x \in Ordered(Adding, {})
  PROVE  Session(<<OpenMaster>> \o x \o <<CloseMaster>>)
  <1> DEFINE s == <<OpenMaster>> \o x \o <<CloseMaster>>
  <1>1. /\ OpenMaster \in Sound /\ Needs(OpenMaster) = {} /\ OpenMaster.kind = "open"
        /\ CloseMaster \in Sound /\ Needs(CloseMaster) = {} /\ CloseMaster.kind = "close"
    BY DEF OpenMaster, CloseMaster, Sound, StoreCall, Needs
  <1>2. <<OpenMaster>> \in Ordered(Sound, {}) /\ Range(<<OpenMaster>>) = {OpenMaster}
    BY <1>1, OrderedOne
  <1>3. x \in Ordered(Sound, {} \cup Range(<<OpenMaster>>))
    BY OrderedMore DEF Adding
  <1>4. <<OpenMaster>> \o x \in Ordered(Sound, {})
    BY <1>2, <1>3, OrderedConcat
  <1>5. <<CloseMaster>> \in Ordered(Sound, {} \cup Range(<<OpenMaster>> \o x))
    BY <1>1, OrderedOne
  <1>6. s \in Ordered(Sound, {})
    BY <1>4, <1>5, OrderedConcat
  <1>7. x \in Seq(Sound) /\ x \in Seq(Adding) /\ <<OpenMaster>> \in Seq(Sound)
        /\ <<CloseMaster>> \in Seq(Sound) /\ <<OpenMaster>> \o x \in Seq(Sound)
    BY <1>1, <1>3, <1>4 DEF Ordered
  <1>8. /\ Len(x) \in Nat /\ Len(<<OpenMaster>>) = 1 /\ Len(<<CloseMaster>>) = 1
        /\ Len(<<OpenMaster>> \o x) = Len(x) + 1
        /\ \A i \in 1..(Len(x) + 1) :
             (<<OpenMaster>> \o x)[i] = IF i <= 1 THEN <<OpenMaster>>[i] ELSE x[i - 1]
    BY <1>7, LenProperties, ConcatProperties
  <1>9. /\ Len(s) = Len(x) + 2
        /\ \A i \in 1..(Len(x) + 2) :
             s[i] = IF i <= Len(x) + 1 THEN (<<OpenMaster>> \o x)[i]
                    ELSE <<CloseMaster>>[i - (Len(x) + 1)]
    BY <1>7, <1>8, ConcatProperties
  <1>10. /\ s[1] = OpenMaster /\ s[Len(s)] = CloseMaster
         /\ \A i \in 2..(Len(s) - 1) : s[i] = x[i - 1] /\ i - 1 \in 1..Len(x)
    BY <1>8, <1>9
  <1> HIDE DEF s
  <1>11. \A i \in 2..(Len(s) - 1) : s[i].kind \in {"configure", "node", "edge", "row"}
    <2>1. \A i \in 1..Len(x) : x[i] \in Adding
      BY <1>7, ElementOfSeq
    <2> QED
      BY <1>10, <2>1 DEF Adding
  <1>12. \A i \in 1..Len(s) : i = 1 \/ i = Len(s) \/ i \in 2..(Len(s) - 1)
    BY <1>8, <1>9
  <1>13. /\ Len(s) \in Nat /\ Len(s) >= 2
         /\ s[1].kind = "open" /\ s[Len(s)].kind = "close"
    BY <1>1, <1>8, <1>9, <1>10
  <1>14. \A i \in 1..Len(s) : s[i].kind \notin {"reset", "unlink"}
    BY <1>11, <1>12, <1>13
  <1>15. \A i \in 1..(Len(s) - 1) : s[i].kind # "close"
    <2>1. \A i \in 1..(Len(s) - 1) : i = 1 \/ i \in 2..(Len(s) - 1)
      BY <1>13
    <2> QED
      BY <1>11, <1>13, <2>1
  <1>16. Session(s)
    BY <1>6, <1>13, <1>14, <1>15 DEF Session
  <1> QED
    BY <1>16 DEF s

LEMMA SessionAdds ==
  ASSUME NEW s, Session(s)
  PROVE  /\ ConfiguresFirst(s) /\ AddsInOrder(s) /\ PartsInOrder(s)
         /\ MasterFirst(s) /\ \A i \in 1..Len(s) : s[i].kind # "unlink"
  <1>1. ConfiguresFirst(s) /\ EndpointsFirst(s) /\ PartsInOrder(s)
    BY OrderedConfigures, OrderedEndpoints DEF Session
  <1>2. Keeps(s)
    BY DEF Session, Keeps, NoneBetween
  <1>3. OpensForRows(s)
    <2> SUFFICES ASSUME NEW i \in 1..Len(s), s[i].kind = "row"
                 PROVE  \E j \in 1..(i - 1) :
                          s[j].kind = "open" /\ NoneBetween(s, j, i, {"close", "unlink"})
      BY DEF OpensForRows
    <2>1. 1 \in 1..(i - 1) /\ i \in 1..(Len(s) - 1)
      BY DEF Session
    <2>2. NoneBetween(s, 1, i, {"close", "unlink"})
      BY <2>1 DEF Session, NoneBetween
    <2> QED
      BY <2>1, <2>2 DEF Session
  <1>4. MasterFirst(s)
    <2>1. ASSUME NEW i \in 1..Len(s), IsSupply(s[i])
          PROVE  \E j \in 1..(i - 1) : /\ s[j] = MasterRow(s[i].edge.source)
                                       /\ NoneBetween(s, j, i, {"unlink"})
      <3>1. MasterRow(s[i].edge.source) \in Needs(s[i])
        BY <2>1 DEF Needs, IsSupply
      <3>2. PICK j \in 1..(i - 1) : s[j] = MasterRow(s[i].edge.source)
        BY <3>1 DEF Session, Ordered
      <3>3. NoneBetween(s, j, i, {"unlink"})
        BY DEF Session, NoneBetween
      <3> QED
        BY <3>2, <3>3
    <2> QED
      BY <2>1 DEF Session, MasterFirst
  <1> QED
    BY <1>1, <1>2, <1>3, <1>4 DEF Session, AddsInOrder

------------------------------------------------------------------------------
(* The scripts of the repository *)

LEMMA GraphConfigs == Configs = {ConfigureIngest("sourcing"), ConfigureIngest("ebom"),
                                 ConfigureIngest("routing")}
  BY DEF Configs, Graphs

LEMMA AllConfigured ==
  ASSUME NEW B
  PROVE  ConfigureAllDemo \in Ordered(Plain, B) /\ Range(ConfigureAllDemo) = Configs
  <1>1. \A g \in {"sourcing", "ebom", "routing"} :
          ConfigureIngest(g) \in Plain /\ Needs(ConfigureIngest(g)) = {}
    BY ConfigureNeeds DEF Graphs
  <1> QED
    BY <1>1, OrderedThree, GraphConfigs DEF ConfigureAllDemo

\* One more loop after what a script has done so far.
LEMMA Then ==
  ASSUME NEW P, NEW Q, P \subseteq Q, NEW B, NEW s \in Ordered(Q, B), NEW t,
         t \in Ordered(P, B \cup Range(s))
  PROVE  s \o t \in Ordered(Q, B) /\ Range(s \o t) = Range(s) \cup Range(t)
  <1>1. t \in Ordered(Q, B \cup Range(s))
    BY OrderedMore
  <1> QED
    BY <1>1, OrderedConcat

LEMMA Classes == Plain \subseteq Loads /\ Loads \subseteq Adding /\ Adding \subseteq Sound
  BY DEF Plain, Loads, Adding

LEMMA SeedInOrder == SeedComplexBom \in Ordered(Adding, {})
  <1> DEFINE s1 == ConfigureAllDemo
             s2 == s1 \o SourcingSeedNodes
             s3 == s2 \o EbomSeedNodes
             s4 == s3 \o RoutingSeedNodes
             s5 == s4 \o ComponentRows
             s6 == s5 \o SourcingSeedEdges
             s7 == s6 \o EbomSeedEdges
  <1>1. SeedComplexBom = s7 \o RoutingSeedEdges
    BY DEF SeedComplexBom, ComponentRows
  <1>2. s1 \in Ordered(Adding, {}) /\ Configs \subseteq Range(s1)
    BY AllConfigured, OrderedMore, Classes
  <1> HIDE DEF s1
  <1>3. /\ s2 \in Ordered(Adding, {})
        /\ Configs \cup SupplierCopies \subseteq Range(s2)
    <2>1. /\ SourcingSeedNodes \in Ordered(Plain, {} \cup Range(s1))
          /\ SupplierCopies \subseteq Range(SourcingSeedNodes)
      BY <1>2, SupplierNodes
    <2> QED
      BY <1>2, <2>1, Then, Classes
  <1> HIDE DEF s2
  <1>4. /\ s3 \in Ordered(Adding, {})
        /\ Configs \cup SupplierCopies \cup ProductCopies \subseteq Range(s3)
    <2>1. /\ EbomSeedNodes \in Ordered(Plain, {} \cup Range(s2))
          /\ ProductCopies \subseteq Range(EbomSeedNodes)
      BY <1>3, ProductNodes
    <2> QED
      BY <1>3, <2>1, Then, Classes
  <1> HIDE DEF s3
  <1>5. /\ s4 \in Ordered(Adding, {})
        /\ Configs \cup SupplierCopies \cup ProductCopies \cup ProcessCopies \subseteq Range(s4)
    <2>1. /\ RoutingSeedNodes \in Ordered(Plain, {} \cup Range(s3))
          /\ ProcessCopies \subseteq Range(RoutingSeedNodes)
      BY <1>4, ProcessNodes
    <2> QED
      BY <1>4, <2>1, Then, Classes
  <1> HIDE DEF s4
  <1>6. /\ s5 \in Ordered(Adding, {})
        /\ SupplierCopies \cup ProductCopies \cup ProcessCopies \cup ComponentCopies \cup Rows
             \subseteq Range(s5)
    <2>1. /\ ComponentRows \in Ordered(Adding, {} \cup Range(s4))
          /\ ComponentCopies \cup Rows \subseteq Range(ComponentRows)
      BY <1>5, ComponentRowsInOrder
    <2> QED
      BY <1>5, <2>1, Then, Classes
  <1> HIDE DEF s5
  <1>7. /\ s6 \in Ordered(Adding, {})
        /\ ProductCopies \cup ProcessCopies \cup ComponentCopies \subseteq Range(s6)
    <2>1. SourcingSeedEdges \in Ordered(Loads, {} \cup Range(s5))
      BY <1>6, SupplyEdges
    <2> QED
      BY <1>6, <2>1, Then, Classes
  <1> HIDE DEF s6
  <1>8. /\ s7 \in Ordered(Adding, {})
        /\ ProductCopies \cup ProcessCopies \cup ComponentCopies \subseteq Range(s7)
    <2>1. EbomSeedEdges \in Ordered(Plain, {} \cup Range(s6))
      BY <1>7, UseEdges
    <2> QED
      BY <1>7, <2>1, Then, Classes
  <1> HIDE DEF s7
  <1> QED
    <2>1. RoutingSeedEdges \in Ordered(Plain, {} \cup Range(s7))
      BY <1>8, RoutingEdges
    <2> QED
      BY <1>1, <1>8, <2>1, Then, Classes

LEMMA SeedSession == Session(SeedScript)
  BY SeedInOrder, Bracketed DEF SeedScript

LEMMA ConfigureOne ==
  ASSUME NEW g \in Graphs, NEW B
  PROVE  <<ConfigureIngest(g)>> \in Ordered(Plain, B)
  BY ConfigureNeeds, OrderedOne

\* The connectors rely on configurations they do not make, and that of sourcing
\* on master rows.
LEMMA EbomInOrder == EbomConnector \in Ordered(Plain, Configs)
  <1> DEFINE s1 == <<ConfigureIngest("ebom")>>
             s2 == s1 \o EbomSeedNodes
             s3 == s2 \o AddComponents
  <1>1. EbomConnector = s3 \o EbomSeedEdges
    BY DEF EbomConnector
  <1>2. s1 \in Ordered(Plain, Configs)
    BY ConfigureOne DEF Graphs
  <1> HIDE DEF s1
  <1>3. s2 \in Ordered(Plain, Configs) /\ ProductCopies \subseteq Range(s2)
    <2>1. /\ EbomSeedNodes \in Ordered(Plain, Configs \cup Range(s1))
          /\ ProductCopies \subseteq Range(EbomSeedNodes)
      BY <1>2, ProductNodes
    <2> QED
      BY <1>2, <2>1, Then, Classes
  <1> HIDE DEF s2
  <1>4. s3 \in Ordered(Plain, Configs) /\ ProductCopies \cup ComponentCopies \subseteq Range(s3)
    <2>1. /\ AddComponents \in Ordered(Plain, Configs \cup Range(s2))
          /\ ComponentCopies \subseteq Range(AddComponents)
      BY <1>3, ComponentNodes
    <2> QED
      BY <1>3, <2>1, Then, Classes
  <1> HIDE DEF s3
  <1> QED
    <2>1. EbomSeedEdges \in Ordered(Plain, Configs \cup Range(s3))
      BY <1>4, UseEdges
    <2> QED
      BY <1>1, <1>4, <2>1, Then, Classes

LEMMA RoutingInOrder == RoutingConnector \in Ordered(Plain, Configs)
  <1> DEFINE s1 == <<ConfigureIngest("routing")>>
             s2 == s1 \o RoutingSeedNodes
             s3 == s2 \o EbomSeedNodes
             s4 == s3 \o AddComponents
  <1>1. RoutingConnector = s4 \o RoutingSeedEdges
    BY DEF RoutingConnector
  <1>2. s1 \in Ordered(Plain, Configs)
    BY ConfigureOne DEF Graphs
  <1> HIDE DEF s1
  <1>3. s2 \in Ordered(Plain, Configs) /\ ProcessCopies \subseteq Range(s2)
    <2>1. /\ RoutingSeedNodes \in Ordered(Plain, Configs \cup Range(s1))
          /\ ProcessCopies \subseteq Range(RoutingSeedNodes)
      BY <1>2, ProcessNodes
    <2> QED
      BY <1>2, <2>1, Then, Classes
  <1> HIDE DEF s2
  <1>4. s3 \in Ordered(Plain, Configs) /\ ProcessCopies \cup ProductCopies \subseteq Range(s3)
    <2>1. /\ EbomSeedNodes \in Ordered(Plain, Configs \cup Range(s2))
          /\ ProductCopies \subseteq Range(EbomSeedNodes)
      BY <1>3, ProductNodes
    <2> QED
      BY <1>3, <2>1, Then, Classes
  <1> HIDE DEF s3
  <1>5. /\ s4 \in Ordered(Plain, Configs)
        /\ ProcessCopies \cup ProductCopies \cup ComponentCopies \subseteq Range(s4)
    <2>1. /\ AddComponents \in Ordered(Plain, Configs \cup Range(s3))
          /\ ComponentCopies \subseteq Range(AddComponents)
      BY <1>4, ComponentNodes
    <2> QED
      BY <1>4, <2>1, Then, Classes
  <1> HIDE DEF s4
  <1> QED
    <2>1. RoutingSeedEdges \in Ordered(Plain, Configs \cup Range(s4))
      BY <1>5, RoutingEdges
    <2> QED
      BY <1>1, <1>5, <2>1, Then, Classes

LEMMA SourcingInOrder == SourcingConnector \in Ordered(Loads, Configs \cup Rows)
  <1> DEFINE B  == Configs \cup Rows
             s1 == <<ConfigureIngest("sourcing")>>
             s2 == s1 \o SourcingSeedNodes
             s3 == s2 \o AddComponents
  <1>1. SourcingConnector = s3 \o SourcingSeedEdges
    BY DEF SourcingConnector
  <1>2. s1 \in Ordered(Loads, B)
    BY ConfigureOne, OrderedMore, Classes DEF Graphs
  <1> HIDE DEF s1
  <1>3. s2 \in Ordered(Loads, B) /\ SupplierCopies \subseteq Range(s2)
    <2>1. /\ SourcingSeedNodes \in Ordered(Plain, B \cup Range(s1))
          /\ SupplierCopies \subseteq Range(SourcingSeedNodes)
      BY <1>2, SupplierNodes
    <2> QED
      BY <1>2, <2>1, Then, Classes
  <1> HIDE DEF s2
  <1>4. s3 \in Ordered(Loads, B) /\ SupplierCopies \cup ComponentCopies \subseteq Range(s3)
    <2>1. /\ AddComponents \in Ordered(Plain, B \cup Range(s2))
          /\ ComponentCopies \subseteq Range(AddComponents)
      BY <1>3, ComponentNodes
    <2> QED
      BY <1>3, <2>1, Then, Classes
  <1> HIDE DEF s3
  <1> QED
    <2>1. SourcingSeedEdges \in Ordered(Loads, B \cup Range(s3))
      BY <1>4, SupplyEdges
    <2> QED
      BY <1>1, <1>4, <2>1, Then, Classes

------------------------------------------------------------------------------
(* The scripts that reset *)

LEMMA Resets ==
  ASSUME NEW B
  PROVE  /\ ResetNeo4j \in Ordered(Sound, B)
         /\ <<UnlinkMaster>> \in Ordered(Sound, B)
         /\ <<OpenMaster>> \in Ordered(Sound, B)
         /\ <<CloseMaster>> \in Ordered(Sound, B)
  <1>1. \A g \in {"ebom", "routing", "sourcing"} :
          ResetGraph(g) \in Sound /\ Needs(ResetGraph(g)) = {}
    BY DEF ResetGraph, Sound, StoreCall, Graphs, Needs
  <1>2. /\ UnlinkMaster \in Sound /\ Needs(UnlinkMaster) = {}
        /\ OpenMaster \in Sound /\ Needs(OpenMaster) = {}
        /\ CloseMaster \in Sound /\ Needs(CloseMaster) = {}
    BY DEF UnlinkMaster, OpenMaster, CloseMaster, Sound, StoreCall, Needs
  <1>3. ResetNeo4j \in Ordered(Sound, B)
    BY <1>1, OrderedThree DEF ResetNeo4j
  <1> QED
    BY <1>2, <1>3, OrderedOne

LEMMA ExploreInOrder == ExploreResetScript \in Ordered(Sound, {})
  <1> DEFINE s1 == <<OpenMaster>>
             s2 == s1 \o ResetNeo4j
             s3 == s2 \o <<UnlinkMaster>>
             s4 == s3 \o SeedComplexBom
  <1>1. ExploreResetScript = s4 \o <<CloseMaster>>
    BY DEF ExploreResetScript
  <1>2. s1 \in Ordered(Sound, {})
    BY Resets
  <1> HIDE DEF s1
  <1>3. s2 \in Ordered(Sound, {})
    BY <1>2, Resets, OrderedConcat
  <1> HIDE DEF s2
  <1>4. s3 \in Ordered(Sound, {})
    BY <1>3, Resets, OrderedConcat
  <1> HIDE DEF s3
  <1>5. s4 \in Ordered(Sound, {})
    <2>1. SeedComplexBom \in Ordered(Adding, {} \cup Range(s3))
      BY SeedInOrder, OrderedMore
    <2> QED
      BY <1>4, <2>1, Then, Classes
  <1> HIDE DEF s4
  <1> QED
    BY <1>1, <1>5, Resets, OrderedConcat

\* What seed --reset does before it seeds.
Clears == ResetNeo4j \o <<UnlinkMaster>>

LEMMA ClearsCalls ==
  /\ Clears \in Seq(Sound) /\ Len(Clears) = 4
  /\ Clears[1] = ResetGraph("ebom") /\ Clears[2] = ResetGraph("routing")
  /\ Clears[3] = ResetGraph("sourcing") /\ Clears[4] = UnlinkMaster
  <1> DEFINE r == <<ResetGraph("ebom"), ResetGraph("routing"), ResetGraph("sourcing")>>
             u == <<UnlinkMaster>>
  <1>1. Clears = r \o u
    BY DEF Clears, ResetNeo4j
  <1>2. /\ Len(r) = 3 /\ r[1] = ResetGraph("ebom") /\ r[2] = ResetGraph("routing")
        /\ r[3] = ResetGraph("sourcing") /\ Len(u) = 1 /\ u[1] = UnlinkMaster
    OBVIOUS
  <1>3. r \in Seq(Sound) /\ u \in Seq(Sound)
    BY Resets DEF Ordered, ResetNeo4j
  <1> HIDE DEF r, u
  <1>4. /\ r \o u \in Seq(Sound) /\ Len(r \o u) = 4
        /\ \A i \in 1..4 : (r \o u)[i] = IF i <= 3 THEN r[i] ELSE u[i - 3]
    <2>1. /\ r \o u \in Seq(Sound) /\ Len(r \o u) = Len(r) + Len(u)
          /\ \A i \in 1..(Len(r) + Len(u)) :
               (r \o u)[i] = IF i <= Len(r) THEN r[i] ELSE u[i - Len(r)]
      BY <1>3, ConcatProperties
    <2> QED
      BY <1>2, <2>1
  <1> QED
    BY <1>1, <1>2, <1>4

\* A script that clears and then adds in order.
LEMMA ClearedSession ==
  ASSUME NEW s, Session(s)
  PROVE  /\ ConfiguresFirst(Clears \o s) /\ OpensForRows(Clears \o s)
         /\ MasterFirst(Clears \o s)
  <1> DEFINE t == Clears \o s
  <1>1. s \in Seq(Sound) /\ Len(s) \in Nat
    BY DEF Session, Ordered
  <1>2. /\ Len(t) = 4 + Len(s)
        /\ \A i \in 1..(4 + Len(s)) : t[i] = IF i <= 4 THEN Clears[i] ELSE s[i - 4]
    <2>1. /\ Len(Clears \o s) = Len(Clears) + Len(s)
          /\ \A i \in 1..(Len(Clears) + Len(s)) :
               (Clears \o s)[i] = IF i <= Len(Clears) THEN Clears[i] ELSE s[i - Len(Clears)]
      BY <1>1, ClearsCalls, ConcatProperties
    <2> QED
      BY <2>1, ClearsCalls
  <1> HIDE DEF t
  <1>3. /\ t[1] = ResetGraph("ebom") /\ t[2] = ResetGraph("routing")
        /\ t[3] = ResetGraph("sourcing") /\ t[4] = UnlinkMaster
    BY <1>1, <1>2, ClearsCalls
  <1>4. \A i \in 1..4 : t[i].kind \in {"reset", "unlink"} /\ ~IsSupply(t[i])
    <2>1. 1..4 = {1, 2, 3, 4}
      OBVIOUS
    <2> QED
      BY <1>3, <2>1 DEF ResetGraph, UnlinkMaster, IsSupply
  <1>5. \A i \in 5..Len(t) : i - 4 \in 1..Len(s) /\ t[i] = s[i - 4]
    BY <1>1, <1>2
  <1>6. \A j \in 1..Len(s) : j + 4 \in 5..Len(t) /\ t[j + 4] = s[j]
    BY <1>1, <1>2
  <1>7. \A i \in 1..Len(t) : i \in 1..4 \/ i \in 5..Len(t)
    BY <1>1, <1>2
  <1>8. ConfiguresFirst(t)
    <2> SUFFICES ASSUME NEW i \in 1..Len(t), t[i].kind = "node"
                 PROVE  \E j \in 1..(i - 1) : t[j] = ConfigureIngest(t[i].graph)
      BY DEF ConfiguresFirst
    <2>1. i \in 5..Len(t)
      BY <1>4, <1>7
    <2>2. PICK j \in 1..(i - 4 - 1) : s[j] = ConfigureIngest(s[i - 4].graph)
      BY <1>5, <2>1, SessionAdds DEF ConfiguresFirst
    <2>3. j \in 1..Len(s) /\ j + 4 \in 1..(i - 1)
      BY <1>1, <1>2, <2>1
    <2> QED
      BY <1>5, <1>6, <2>1, <2>2, <2>3
  <1>9. OpensForRows(t)
    <2> SUFFICES ASSUME NEW i \in 1..Len(t), t[i].kind = "row"
                 PROVE  \E j \in 1..(i - 1) :
                          t[j].kind = "open" /\ NoneBetween(t, j, i, {"close", "unlink"})
      BY DEF OpensForRows
    <2>1. i \in 5..Len(t)
      BY <1>4, <1>7
    <2>2. PICK j \in 1..(i - 4 - 1) :
            s[j].kind = "open" /\ NoneBetween(s, j, i - 4, {"close", "unlink"})
      BY <1>5, <2>1, SessionAdds DEF AddsInOrder, OpensForRows
    <2>3. j \in 1..Len(s) /\ j + 4 \in 1..(i - 1)
      BY <1>1, <1>2, <2>1
    <2>4. ASSUME NEW k \in (j + 4)..i PROVE t[k].kind \notin {"close", "unlink"}
      <3>1. k \in 5..Len(t) /\ k - 4 \in j..(i - 4)
        BY <1>1, <1>2, <2>1
      <3> QED
        BY <1>5, <2>2, <3>1 DEF NoneBetween
    <2> QED
      BY <1>6, <2>2, <2>3, <2>4 DEF NoneBetween
  <1>10. MasterFirst(t)
    <2>1. ASSUME NEW i \in 1..Len(t), IsSupply(t[i])
          PROVE  \E j \in 1..(i - 1) : /\ t[j] = MasterRow(t[i].edge.source)
                                       /\ NoneBetween(t, j, i, {"unlink"})
      <3>1. i \in 5..Len(t)
        BY <1>4, <1>7, <2>1
      <3>2. PICK j \in 1..(i - 4 - 1) : s[j] = MasterRow(s[i - 4].edge.source)
        BY <1>5, <2>1, <3>1, SessionAdds DEF MasterFirst
      <3>3. j \in 1..Len(s) /\ j + 4 \in 1..(i - 1)
        BY <1>1, <1>2, <3>1
      <3>4. ASSUME NEW k \in (j + 4)..i PROVE t[k].kind \notin {"unlink"}
        <4>1. k \in 5..Len(t)
          BY <1>1, <1>2, <3>1
        <4> QED
          BY <1>5, <4>1, SessionAdds
      <3> QED
        BY <1>5, <1>6, <3>1, <3>2, <3>3, <3>4 DEF NoneBetween
    <2>2. ASSUME NEW i \in 1..Len(t), t[i].kind = "unlink"
          PROVE  \E j \in 1..(i - 1) : /\ t[j] = ResetGraph("sourcing")
                                       /\ \A k \in j..i : ~IsSupply(t[k])
      <3>1. i \in 1..4
        BY <1>5, <1>7, <2>2, SessionAdds
      <3>2. i = 4
        <4>1. i \in {1, 2, 3, 4}
          BY <3>1
        <4> QED
          BY <1>3, <2>2, <4>1 DEF ResetGraph
      <3>3. \A k \in 3..i : ~IsSupply(t[k])
        BY <1>4, <3>2
      <3> QED
        BY <1>3, <3>2, <3>3
    <2> QED
      BY <2>1, <2>2 DEF MasterFirst
  <1> QED
    BY <1>8, <1>9, <1>10 DEF t

\* All that a call may need but a configuration.
Granted == {c \in StoreCall : c.kind # "configure"}

LEMMA GrantedCopies ==
  SupplierCopies \cup ProductCopies \cup ProcessCopies \cup ComponentCopies \cup Rows
    \subseteq Granted
  <1>1. ASSUME NEW l \in Labels, NEW i \in Ids[l], NEW g \in Graphs, l \in DOMAIN_NODES[g]
        PROVE  Copy(g, l, i) \in Granted
    <2>1. Copy(g, l, i) \in StoreCall
      BY <1>1, CopyNeeds DEF Plain, Loads, Adding, Sound
    <2> QED
      BY <2>1 DEF Granted, Copy, StoreNode
  <1>2. ASSUME NEW r \in Range(COMPONENT_BOM) PROVE r.component \in Ids["Component"]
    BY DataItem DEF Range
  <1>3. SupplierCopies \subseteq Granted
    BY <1>1, Data DEF SupplierCopies, Labels, Graphs, DOMAIN_NODES
  <1>4. ProductCopies \subseteq Granted
    BY <1>1, Data DEF ProductCopies, Labels, Graphs, DOMAIN_NODES
  <1>5. ProcessCopies \subseteq Granted
    BY <1>1, Data DEF ProcessCopies, Labels, Graphs, DOMAIN_NODES
  <1>6. ComponentCopies \subseteq Granted
    BY <1>1, <1>2 DEF ComponentCopies, Labels, Graphs, DOMAIN_NODES
  <1>7. Rows \subseteq Granted
    <2> SUFFICES ASSUME NEW i \in Ids["Component"]
                 PROVE  MasterRow(KeyOf("Component", i)) \in Granted
      BY <1>2 DEF Rows
    <2>1. MasterRow(KeyOf("Component", i)) \in StoreCall
      BY RowNeeds DEF Adding, Sound
    <2> QED
      BY <2>1 DEF Granted, MasterRow
  <1> QED
    BY <1>3, <1>4, <1>5, <1>6, <1>7

LEMMA LoadedCopy ==
  ASSUME NEW B, Granted \subseteq B, NEW l \in Labels, NEW i \in Ids[l], NEW g \in Graphs,
         l \in DOMAIN_NODES[g], ConfigureIngest(g) \in B
  PROVE  <<Copy(g, l, i)>> \in Ordered(Plain, B)
  <1>1. Copy(g, l, i) \in Plain
    BY CopyNeeds
  <1>2. ASSUME l = "Component", NEW h \in Earlier[g] PROVE Copy(h, l, i) \in Granted
    <2>1. h \in Graphs /\ l \in DOMAIN_NODES[h]
      BY <1>2 DEF Earlier, Graphs, DOMAIN_NODES
    <2>2. Copy(h, l, i) \in StoreCall
      BY <2>1, CopyNeeds DEF Plain, Loads, Adding, Sound
    <2> QED
      BY <2>2 DEF Granted, Copy, StoreNode
  <1>3. Needs(Copy(g, l, i)) \subseteq B
    BY <1>2, CopyNeeds
  <1> QED
    BY <1>1, <1>3, OrderedOne

LEMMA LoadedNodes ==
  ASSUME NEW B, Granted \subseteq B, NEW l \in Labels, NEW seq \in Seq(Ids[l]), NEW g \in Graphs,
         l \in DOMAIN_NODES[g], ConfigureIngest(g) \in B
  PROVE  LoadNodes(g, l, seq) \in Ordered(Plain, B)
  <1> DEFINE ss == [i \in DOMAIN seq |-> <<StoreNode(g, KeyOf(l, seq[i]))>>]
  <1>1. LoadNodes(g, l, seq) = FlattenSeq(ss)
    BY DEF LoadNodes, ForEach
  <1>2. ASSUME NEW i \in DOMAIN seq PROVE ss[i] \in Ordered(Plain, B)
    <2>1. seq[i] \in Ids[l]
      BY LenProperties, ElementOfSeq
    <2>2. ss[i] = <<Copy(g, l, seq[i])>>
      BY DEF Copy
    <2> HIDE DEF ss
    <2> QED
      BY <2>1, <2>2, LoadedCopy
  <1>3. ss = [i \in DOMAIN seq |-> ss[i]]
    OBVIOUS
  <1> HIDE DEF ss
  <1> QED
    BY <1>1, <1>2, <1>3, Loop

LEMMA LoadedComponents ==
  ASSUME NEW B, Granted \subseteq B, NEW g \in Graphs, ConfigureIngest(g) \in B
  PROVE  LoadComponents(g) \in Ordered(Plain, B)
  <1> DEFINE ss == [i \in DOMAIN COMPONENT_BOM |->
                      <<StoreNode(g, Component(COMPONENT_BOM[i].component))>>]
  <1>1. LoadComponents(g) = FlattenSeq(ss)
    BY DEF LoadComponents, ForEach
  <1>2. ASSUME NEW i \in DOMAIN COMPONENT_BOM PROVE ss[i] \in Ordered(Plain, B)
    <2>1. COMPONENT_BOM[i].component \in Ids["Component"]
      BY DataItem
    <2>2. ss[i] = <<Copy(g, "Component", COMPONENT_BOM[i].component)>>
      BY DEF Copy, KeyOf, Component
    <2>3. "Component" \in Labels /\ "Component" \in DOMAIN_NODES[g]
      BY DEF Labels, DOMAIN_NODES, Graphs
    <2> HIDE DEF ss
    <2> QED
      BY <2>1, <2>2, <2>3, LoadedCopy
  <1>3. ss = [i \in DOMAIN COMPONENT_BOM |-> ss[i]]
    OBVIOUS
  <1> HIDE DEF ss
  <1> QED
    BY <1>1, <1>2, <1>3, Data, Loop

\* Each domain is configured before it is loaded.
\* One more loop after what a script that also clears has done so far.
LEMMA ThenLoads ==
  ASSUME NEW B, NEW s \in Ordered(Sound, B), NEW t, t \in Ordered(Plain, B \cup Range(s))
  PROVE  /\ s \o t \in Ordered(Sound, B)
         /\ Range(s) \subseteq Range(s \o t)
         /\ Range(t) \subseteq Range(s \o t)
  <1>1. t \in Ordered(Sound, B \cup Range(s))
    BY Classes, OrderedMore
  <1> QED
    BY <1>1, OrderedConcat

LEMMA LoadDomainsInOrder == LoadDomainsScript \in Ordered(Sound, Granted)
  <1> DEFINE B == Granted
             r1 == ResetNeo4j
             r2 == r1 \o <<ConfigureIngest("sourcing")>>
             r3 == r2 \o LoadNodes("sourcing", "Supplier", SUPPLIERS)
             r4 == r3 \o LoadComponents("sourcing")
             r5 == r4 \o SourcingSeedEdges
             s1 == r5 \o <<ConfigureIngest("ebom")>>
             s2 == s1 \o LoadNodes("ebom", "Product", PRODUCTS)
             s3 == s2 \o LoadComponents("ebom")
             s4 == s3 \o EbomSeedEdges
             t1 == s4 \o <<ConfigureIngest("routing")>>
             t2 == t1 \o LoadNodes("routing", "Process", PROCESSES)
             t3 == t2 \o LoadNodes("routing", "Product", PRODUCTS)
             t4 == t3 \o LoadComponents("routing")
  <1>1. LoadDomainsScript = t4 \o RoutingSeedEdges
    BY DEF LoadDomainsScript
  <1>2. Plain \subseteq Sound /\ Loads \subseteq Sound
    BY Classes
  <1>3. \A D : Granted \subseteq Granted \cup D
    OBVIOUS
  <1>4. \A D : /\ SourcingSeedEdges \in Ordered(Loads, B \cup D)
               /\ EbomSeedEdges \in Ordered(Plain, B \cup D)
               /\ RoutingSeedEdges \in Ordered(Plain, B \cup D)
    BY GrantedCopies, SupplyEdges, UseEdges, RoutingEdges
  <1>5. /\ "Supplier" \in Labels /\ "Supplier" \in DOMAIN_NODES["sourcing"]
        /\ "Product" \in Labels /\ "Product" \in DOMAIN_NODES["ebom"]
        /\ "Product" \in DOMAIN_NODES["routing"]
        /\ "Process" \in Labels /\ "Process" \in DOMAIN_NODES["routing"]
        /\ "sourcing" \in Graphs /\ "ebom" \in Graphs /\ "routing" \in Graphs
    BY DEF Labels, DOMAIN_NODES, Graphs
  <1>6. \A g \in Graphs : \A D :
          /\ <<ConfigureIngest(g)>> \in Ordered(Plain, B \cup D)
          /\ Range(<<ConfigureIngest(g)>>) = {ConfigureIngest(g)}
    BY ConfigureNeeds, OrderedOne
  <1>7. r1 \in Ordered(Sound, B)
    BY Resets
  <1> HIDE DEF r1
  <1>8. r2 \in Ordered(Sound, B) /\ ConfigureIngest("sourcing") \in Range(r2)
    <2>1. /\ <<ConfigureIngest("sourcing")>> \in Ordered(Plain, B \cup Range(r1))
          /\ Range(<<ConfigureIngest("sourcing")>>) = {ConfigureIngest("sourcing")}
      BY <1>5, <1>6
    <2>2. /\ r2 \in Ordered(Sound, B)
          /\ Range(r1) \subseteq Range(r2)
          /\ Range(<<ConfigureIngest("sourcing")>>) \subseteq Range(r2)
      BY <1>2, <1>7, <2>1, ThenLoads
    <2> QED
      BY <2>1, <2>2
  <1> HIDE DEF r2
  <1>9. r3 \in Ordered(Sound, B) /\ ConfigureIngest("sourcing") \in Range(r3)
    <2>1. LoadNodes("sourcing", "Supplier", SUPPLIERS) \in Ordered(Plain, B \cup Range(r2))
      BY <1>5, <1>8, Data, LoadedNodes
    <2>2. /\ r3 \in Ordered(Sound, B)
          /\ Range(r2) \subseteq Range(r3)
          /\ Range(LoadNodes("sourcing", "Supplier", SUPPLIERS)) \subseteq Range(r3)
      BY <1>2, <1>8, <2>1, ThenLoads
    <2> QED
      BY <2>1, <1>8, <2>2
  <1> HIDE DEF r3
  <1>10. r4 \in Ordered(Sound, B)
    <2>1. LoadComponents("sourcing") \in Ordered(Plain, B \cup Range(r3))
      BY <1>5, <1>9, LoadedComponents
    <2> QED
      BY <1>2, <1>9, <2>1, Then
  <1> HIDE DEF r4
  <1>11. r5 \in Ordered(Sound, B)
    BY <1>2, <1>4, <1>10, Then
  <1> HIDE DEF r5
  <1>12. s1 \in Ordered(Sound, B) /\ ConfigureIngest("ebom") \in Range(s1)
    <2>1. /\ <<ConfigureIngest("ebom")>> \in Ordered(Plain, B \cup Range(r5))
          /\ Range(<<ConfigureIngest("ebom")>>) = {ConfigureIngest("ebom")}
      BY <1>5, <1>6
    <2>2. /\ s1 \in Ordered(Sound, B)
          /\ Range(r5) \subseteq Range(s1)
          /\ Range(<<ConfigureIngest("ebom")>>) \subseteq Range(s1)
      BY <1>2, <1>11, <2>1, ThenLoads
    <2> QED
      BY <2>1, <2>2
  <1> HIDE DEF s1
  <1>13. s2 \in Ordered(Sound, B) /\ ConfigureIngest("ebom") \in Range(s2)
    <2>1. LoadNodes("ebom", "Product", PRODUCTS) \in Ordered(Plain, B \cup Range(s1))
      BY <1>5, <1>12, Data, LoadedNodes
    <2>2. /\ s2 \in Ordered(Sound, B)
          /\ Range(s1) \subseteq Range(s2)
          /\ Range(LoadNodes("ebom", "Product", PRODUCTS)) \subseteq Range(s2)
      BY <1>2, <1>12, <2>1, ThenLoads
    <2> QED
      BY <2>1, <1>12, <2>2
  <1> HIDE DEF s2
  <1>14. s3 \in Ordered(Sound, B)
    <2>1. LoadComponents("ebom") \in Ordered(Plain, B \cup Range(s2))
      BY <1>5, <1>13, LoadedComponents
    <2> QED
      BY <1>2, <1>13, <2>1, Then
  <1> HIDE DEF s3
  <1>15. s4 \in Ordered(Sound, B)
    BY <1>2, <1>4, <1>14, Then
  <1> HIDE DEF s4
  <1>16. t1 \in Ordered(Sound, B) /\ ConfigureIngest("routing") \in Range(t1)
    <2>1. /\ <<ConfigureIngest("routing")>> \in Ordered(Plain, B \cup Range(s4))
          /\ Range(<<ConfigureIngest("routing")>>) = {ConfigureIngest("routing")}
      BY <1>5, <1>6
    <2>2. /\ t1 \in Ordered(Sound, B)
          /\ Range(s4) \subseteq Range(t1)
          /\ Range(<<ConfigureIngest("routing")>>) \subseteq Range(t1)
      BY <1>2, <1>15, <2>1, ThenLoads
    <2> QED
      BY <2>1, <2>2
  <1> HIDE DEF t1
  <1>17. t2 \in Ordered(Sound, B) /\ ConfigureIngest("routing") \in Range(t2)
    <2>1. LoadNodes("routing", "Process", PROCESSES) \in Ordered(Plain, B \cup Range(t1))
      BY <1>5, <1>16, Data, LoadedNodes
    <2>2. /\ t2 \in Ordered(Sound, B)
          /\ Range(t1) \subseteq Range(t2)
          /\ Range(LoadNodes("routing", "Process", PROCESSES)) \subseteq Range(t2)
      BY <1>2, <1>16, <2>1, ThenLoads
    <2> QED
      BY <2>1, <1>16, <2>2
  <1> HIDE DEF t2
  <1>18. t3 \in Ordered(Sound, B) /\ ConfigureIngest("routing") \in Range(t3)
    <2>1. LoadNodes("routing", "Product", PRODUCTS) \in Ordered(Plain, B \cup Range(t2))
      BY <1>5, <1>17, Data, LoadedNodes
    <2>2. /\ t3 \in Ordered(Sound, B)
          /\ Range(t2) \subseteq Range(t3)
          /\ Range(LoadNodes("routing", "Product", PRODUCTS)) \subseteq Range(t3)
      BY <1>2, <1>17, <2>1, ThenLoads
    <2> QED
      BY <2>1, <1>17, <2>2
  <1> HIDE DEF t3
  <1>19. t4 \in Ordered(Sound, B)
    <2>1. LoadComponents("routing") \in Ordered(Plain, B \cup Range(t3))
      BY <1>5, <1>18, LoadedComponents
    <2> QED
      BY <1>2, <1>18, <2>1, Then
  <1> HIDE DEF t4
  <1> QED
    BY <1>1, <1>2, <1>4, <1>19, Then

------------------------------------------------------------------------------
(* The order of each script *)

LEMMA ServerSession == Session(ServerLifetime) /\ LeavesMaster(ServerLifetime)
  <1>1. ServerLifetime = <<OpenMaster>> \o <<>> \o <<CloseMaster>>
    BY DEF ServerLifetime, OpenMaster, CloseMaster
  <1>2. Session(<<OpenMaster>> \o <<>> \o <<CloseMaster>>)
    BY OrderedEmpty, Bracketed
  <1>3. LeavesMaster(ServerLifetime)
    BY DEF ServerLifetime, OpenMaster, CloseMaster, LeavesMaster, IsSupply
  <1> QED
    BY <1>1, <1>2, <1>3

LEMMA ForeignRefused == LeavesMaster(ForeignLoader) /\ Bystands(ForeignLoader)
  <1> DEFINE ss == [i \in DOMAIN PRODUCTS |-> <<StoreNode("sourcing", KeyOf("Product", PRODUCTS[i]))>>]
             Refused == {c \in StoreCall : c.kind = "node" /\ ~NodeAllowed(c.graph, c.node)}
  <1>1. ForeignLoader = FlattenSeq(ss)
    BY DEF ForeignLoader, LoadNodes, ForEach
  <1>2. ASSUME NEW i \in DOMAIN PRODUCTS PROVE ss[i] \in Seq(Refused)
    <2>1. PRODUCTS[i] \in Ids["Product"]
      BY Data, LenProperties, ElementOfSeq
    <2>2. KeyOf("Product", PRODUCTS[i]) \in Node
      <3>1. "Product" \in Labels
        BY DEF Labels
      <3> QED
        BY <2>1, <3>1 DEF KeyOf, Node, Labelled
    <2>3. StoreNode("sourcing", KeyOf("Product", PRODUCTS[i])) \in Refused
      BY <2>2 DEF StoreNode, StoreCall, Graphs, NodeAllowed, KeyOf, DOMAIN_NODES
    <2> QED
      BY <2>3
  <1>3. ForeignLoader \in Seq(Refused)
    <2>1. DOMAIN PRODUCTS = 1..Len(PRODUCTS) /\ Len(PRODUCTS) \in Nat
      BY Data, LenProperties
    <2>2. ss \in Seq(Seq(Refused))
      BY <1>2, <2>1
    <2>3. /\ <<>> \in Seq(Refused)
          /\ \A s, t \in Seq(Refused) : s \o t \in Seq(Refused)
      BY ConcatProperties
    <2>4. FlattenSeq(ss) \in Seq(Refused)
      <3> HIDE DEF ss, Refused
      <3> QED
        BY <2>2, <2>3, FlattenClosed
    <2> QED
      BY <1>1, <2>4
  <1>4. \A i \in 1..Len(ForeignLoader) : ForeignLoader[i] \in Refused
    BY <1>3, ElementOfSeq
  <1> QED
    BY <1>4 DEF LeavesMaster, IsSupply, Bystands

LEMMA ClearedSeed == SeedResetScript = Clears \o SeedScript
  BY DEF SeedResetScript, Clears

LEMMA ConfiguringScripts ==
  \A p \in {SeedScript, SeedResetScript, ExploreResetScript, LoadDomainsScript, ServerLifetime} :
    ConfiguresFirst(p)
  <1>1. ConfiguresFirst(SeedScript) /\ ConfiguresFirst(ServerLifetime)
    BY SeedSession, ServerSession, SessionAdds
  <1>2. ConfiguresFirst(SeedResetScript)
    BY SeedSession, ClearedSession, ClearedSeed
  <1>3. ConfiguresFirst(ExploreResetScript)
    BY ExploreInOrder, OrderedConfigures
  <1>4. ConfiguresFirst(LoadDomainsScript)
    BY LoadDomainsInOrder, OrderedConfigures DEF Granted
  <1> QED
    BY <1>1, <1>2, <1>3, <1>4

LEMMA AddingScripts ==
  \A p \in {SeedScript, EbomConnector, RoutingConnector, SourcingConnector, ServerLifetime} :
    AddsInOrder(p) /\ PartsInOrder(p)
  <1>1. /\ AddsInOrder(SeedScript) /\ PartsInOrder(SeedScript)
        /\ AddsInOrder(ServerLifetime) /\ PartsInOrder(ServerLifetime)
    BY SeedSession, ServerSession, SessionAdds
  <1>2. \A c \in Configs \cup Rows : c.kind # "node"
    BY DEF Configs, Rows, ConfigureIngest, MasterRow
  <1>3. /\ EbomConnector \in Ordered(Loads, Configs \cup Rows)
        /\ RoutingConnector \in Ordered(Loads, Configs \cup Rows)
    BY EbomInOrder, RoutingInOrder, Classes, OrderedMore
  <1> QED
    BY <1>1, <1>2, <1>3, SourcingInOrder, OrderedLoads

LEMMA MasterScripts ==
  /\ \A p \in {SeedScript, SeedResetScript} : OpensForRows(p) /\ MasterFirst(p)
  /\ \A p \in {EbomConnector, RoutingConnector, ServerLifetime, ForeignLoader} : LeavesMaster(p)
  <1>1. OpensForRows(SeedScript) /\ MasterFirst(SeedScript)
    BY SeedSession, SessionAdds DEF AddsInOrder
  <1>2. OpensForRows(SeedResetScript) /\ MasterFirst(SeedResetScript)
    BY SeedSession, ClearedSession, ClearedSeed
  <1>3. LeavesMaster(EbomConnector) /\ LeavesMaster(RoutingConnector)
    BY EbomInOrder, RoutingInOrder, PlainLeavesMaster DEF Ordered
  <1> QED
    BY <1>1, <1>2, <1>3, ServerSession, ForeignRefused

LEMMA ClearingFirst == Rebuilds(SeedScript) /\ Rebuilds(SeedResetScript)
  <1> DEFINE s == SeedScript
             t == Clears \o s
  <1>1. /\ s \in Ordered(Sound, {}) /\ s \in Seq(Sound) /\ Len(s) \in Nat
        /\ \A i \in 1..Len(s) : s[i].kind \notin {"reset", "unlink"}
    BY SeedSession DEF Session, Ordered
  <1>2. Rebuilds(s)
    BY <1>1, SeedSession, SessionAdds DEF Rebuilds, Undoes, AddsInOrder
  <1>3. EndpointsFirst(t) /\ OpensForRows(t)
    <2>1. Clears \in Ordered(Sound, {})
      BY Resets, OrderedMore, OrderedConcat DEF Clears
    <2>2. s \in Ordered(Sound, {} \cup Range(Clears))
      BY <1>1, OrderedMore
    <2>3. Clears \o s \in Ordered(Sound, {})
      BY <2>1, <2>2, OrderedConcat
    <2> QED
      BY <2>3, OrderedEndpoints, SeedSession, ClearedSession
  <1> HIDE DEF s
  <1>4. /\ Len(t) = 4 + Len(s)
        /\ \A i \in 1..(4 + Len(s)) : t[i] = IF i <= 4 THEN Clears[i] ELSE s[i - 4]
    <2>1. /\ Len(Clears \o s) = Len(Clears) + Len(s)
          /\ \A i \in 1..(Len(Clears) + Len(s)) :
               (Clears \o s)[i] = IF i <= Len(Clears) THEN Clears[i] ELSE s[i - Len(Clears)]
      BY <1>1, ClearsCalls, ConcatProperties
    <2> QED
      BY <2>1, ClearsCalls
  <1> HIDE DEF t
  <1>5. \A i \in 1..4 : Clears[i].kind \in {"reset", "unlink"}
    <2>1. 1..4 = {1, 2, 3, 4}
      OBVIOUS
    <2> QED
      BY <2>1, ClearsCalls DEF ResetGraph, UnlinkMaster
  <1>6. ASSUME NEW i \in 1..Len(t), NEW j \in 1..(i - 1)
        PROVE  ~Undoes(t[i], t[j])
    <2>1. CASE i <= 4
      <3>1. t[j] = Clears[j] /\ j \in 1..4
        BY <1>1, <1>4, <2>1
      <3> QED
        BY <1>5, <3>1 DEF Undoes
    <2>2. CASE i > 4
      <3>1. t[i] = s[i - 4] /\ i - 4 \in 1..Len(s)
        BY <1>1, <1>4, <2>2
      <3> QED
        BY <1>1, <3>1 DEF Undoes
    <2> QED
      BY <1>1, <1>4, <2>1, <2>2
  <1>7. Rebuilds(t)
    BY <1>3, <1>6 DEF Rebuilds
  <1> QED
    BY <1>2, <1>7, ClearedSeed DEF s, t

------------------------------------------------------------------------------
(* What the repository's scripts promise, for every dataset *)

\* Any number of processes that seed, reset and seed, load each domain on its
\* own or serve may interleave and crash: every node carries the batch metadata.
THEOREM RepositoryStamped ==
  ASSUME \A s \in Scripts :
           Program[s] \in {SeedScript, SeedResetScript, ExploreResetScript,
                           LoadDomainsScript, ServerLifetime}
  PROVE  Spec => []MetadataComplete
  <1>1. \A s \in Scripts : ConfiguresFirst(Program[s])
    BY ConfiguringScripts
  <1> QED
    BY <1>1, Stamped

\* Any number of seeding scripts, connectors and servers, in any order or at
\* once, crashed and run again: add_edge never finds an endpoint missing.
THEOREM RepositoryNeverRejected ==
  ASSUME \A s \in Scripts :
           Program[s] \in {SeedScript, EbomConnector, RoutingConnector,
                           SourcingConnector, ServerLifetime}
  PROVE  Spec => []NoRejection
  <1>1. \A s \in Scripts : AddsInOrder(Program[s])
    BY AddingScripts
  <1> QED
    BY <1>1, NeverRejected

\* ... what each of them was asked to write is there when it has ended ...
THEOREM RepositoryNothingUndone ==
  ASSUME \A s \in Scripts :
           Program[s] \in {SeedScript, EbomConnector, RoutingConnector,
                           SourcingConnector, ServerLifetime}
  PROVE  Spec => []CompletedRunComplete
  <1>1. \A s \in Scripts : AddsInOrder(Program[s])
    BY AddingScripts
  <1> QED
    BY <1>1, NothingUndone

\* ... and a component reaches the ebom store before the routing store, that
\* before the sourcing store, and the master last, whichever of them writes it.
THEOREM RepositoryReplicates ==
  ASSUME \A s \in Scripts :
           Program[s] \in {SeedScript, EbomConnector, RoutingConnector,
                           SourcingConnector, ServerLifetime}
  PROVE  Spec => ReplicationSpec
  <1>1. \A s \in Scripts : AddsInOrder(Program[s]) /\ PartsInOrder(Program[s])
    BY AddingScripts
  <1> QED
    BY <1>1, ImplementsReplication

\* One process seeds, with or without --reset, while the two connectors that
\* know no supplier, servers and foreign loaders run beside it: a component with
\* a supplier always has its row in the master.
THEOREM RepositoryBridgeKept ==
  ASSUME NEW w \in Scripts, Program[w] \in {SeedScript, SeedResetScript},
         \A s \in Scripts \ {w} :
           Program[s] \in {EbomConnector, RoutingConnector, ServerLifetime, ForeignLoader}
  PROVE  Spec => []SuppliedByInMaster
  <1>1. SoleWriter(w)
    BY MasterScripts DEF SoleWriter
  <1> QED
    BY <1>1, BridgeKept

\* One process seeds, with or without --reset, beside servers and foreign
\* loaders: all it was asked to write is there whenever it has ended normally.
THEOREM RepositoryRebuilt ==
  ASSUME NEW w \in Scripts, Program[w] \in {SeedScript, SeedResetScript},
         \A s \in Scripts \ {w} : Program[s] \in {ServerLifetime, ForeignLoader}
  PROVE  Spec => []CompletedRunComplete
  <1>1. Bystands(ServerLifetime)
    BY DEF ServerLifetime, OpenMaster, CloseMaster, Bystands
  <1>2. SoleBuilder(w)
    BY <1>1, ClearingFirst, ForeignRefused DEF SoleBuilder
  <1> QED
    BY <1>2, RebuildComplete
==============================================================================
