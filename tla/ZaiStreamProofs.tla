-------------------------- MODULE ZaiStreamProofs --------------------------
(***************************************************************************)
(* What Z.ai's tool names and its synthesized stream guarantee.  A wire    *)
(* name finds its tool, whatever tools a request declares.  The stream     *)
(* keeps the promise of TerminalStream, the gateway accepts it and its      *)
(* items are bracketed, whatever the upstream sends.                       *)
(***************************************************************************)
EXTENDS ZaiStream, TLAPS, WellFoundedInduction, FiniteSetTheorems

(* A wire-safe name holds no dot, so the encoding leaves it alone.         *)
LEMMA WireSafeFixed ==
  ASSUME NEW name \in Names, WireSafe(name)
  PROVE  EncodedName(name) = name
<1>1. Len(name) \in Nat /\ name \in [1..Len(name) -> Letters \cup Foreign \cup {".", "__"}]
  BY DEF Names
<1>2. \A i \in 1..Len(name) : name[i] # "."
  BY NamesAssumption DEF WireSafe
<1>3. \A i \in 1..Len(name) : (IF name[i] = "." THEN "__" ELSE name[i]) = name[i]
  BY <1>2
<1>4. EncodedName(name) = [i \in 1..Len(name) |-> name[i]]
  BY <1>3 DEF EncodedName
<1> QED BY <1>1, <1>4

(* Every tool of an accepted request is reached under its own name: what   *)
(* ToolNames::decode answers for the wire name of a recorded tool is that  *)
(* tool and no other.                                                      *)
THEOREM DecodeInvertsEncode ==
  ASSUME NEW names \in SUBSET Names, Recordable(names), NEW name \in names
  PROVE  Decode(names, EncodedName(name)) = name
<1> DEFINE found == CHOOSE n \in names : EncodedName(n) = EncodedName(name)
<1>1. found \in names /\ EncodedName(found) = EncodedName(name)
  OBVIOUS
<1>2. found = name
  BY <1>1 DEF Recordable, Collide
<1>3. Decode(names, EncodedName(name)) = found
  BY DEF Decode
<1> QED BY <1>2, <1>3

(* A session is not spoilt by a call of any name in Z.ai's grammar, known  *)
(* or not: the name Muse is given for it, which Muse replays in every      *)
(* later request, can be recorded beside the names of this one.            *)
THEOREM SafeCallRecordable ==
  ASSUME NEW names \in SUBSET Names, Recordable(names),
         NEW encoded \in Names, WireSafe(encoded)
  PROVE  Recordable(names \cup {Decode(names, encoded)})
<1>1. CASE \E name \in names : EncodedName(name) = encoded
  <2>1. Decode(names, encoded) \in names
    BY <1>1 DEF Decode
  <2>2. names \cup {Decode(names, encoded)} = names
    BY <2>1
  <2> QED BY <2>2
<1>2. CASE ~\E name \in names : EncodedName(name) = encoded
  <2>1. Decode(names, encoded) = encoded
    BY <1>2 DEF Decode
  <2>2. EncodedName(encoded) = encoded
    BY WireSafeFixed
  <2>3. Encodable(encoded)
    BY <2>2 DEF Encodable
  <2>4. \A name \in names \cup {encoded} : Encodable(name)
    BY <2>3 DEF Recordable
  <2>5. ~Collide(names \cup {encoded})
    BY <1>2, <2>2 DEF Recordable, Collide
  <2> QED BY <2>1, <2>4, <2>5 DEF Recordable
<1> QED BY <1>1, <1>2
-----------------------------------------------------------------------------
(* Induction over the natural numbers, for a set.                          *)
LEMMA SetInduction ==
  ASSUME NEW S, 0 \in S, \A n \in Nat : n \in S => n + 1 \in S
  PROVE  Nat \subseteq S
<1> SUFFICES ASSUME NEW z \in Nat, z \notin S PROVE FALSE
  OBVIOUS
<1> DEFINE T == {n \in Nat : n \notin S}
           R == {ss \in Nat \X Nat : ss[1] < ss[2]}
<1>1. PICK x \in T : \A y \in T : ~(<<y, x>> \in R)
  <2>1. IsWellFoundedOn(R, Nat)
    BY NatLessThanWellFounded DEF OpToRel
  <2>2. T \in SUBSET Nat /\ T # {}
    OBVIOUS
  <2> HIDE DEF R, T
  <2> QED BY <2>1, <2>2, WFMin
<1>2. x \in Nat /\ x # 0 /\ x \notin S
  OBVIOUS
<1>3. x - 1 \in Nat /\ (x - 1) + 1 = x
  BY <1>2
<1>4. x - 1 \in T
  BY <1>2, <1>3
<1>5. <<x - 1, x>> \in Nat \X Nat /\ <<x - 1, x>>[1] = x - 1 /\ <<x - 1, x>>[2] = x
  BY <1>2, <1>3
<1>6. <<x - 1, x>> \in R
  BY <1>2, <1>5
<1> QED BY <1>1, <1>4, <1>6
-----------------------------------------------------------------------------
(* Sequences, whatever their elements are.                                 *)
IsSeq(q) == \E S : q \in Seq(S)

(* Its length and its domain.                                              *)
LEMMA SeqFacts ==
  ASSUME NEW q, IsSeq(q)
  PROVE  Len(q) \in Nat /\ DOMAIN q = 1..Len(q) /\ (Len(q) = 0 <=> q = <<>>)
<1>1. PICK S : q \in Seq(S)
  BY DEF IsSeq
<1> QED BY <1>1

(* One element more.                                                       *)
LEMMA AppendFacts ==
  ASSUME NEW q, IsSeq(q), NEW e
  PROVE  /\ IsSeq(Append(q, e)) /\ Len(q) \in Nat /\ Len(Append(q, e)) = Len(q) + 1
         /\ \A p \in 1..Len(q) : Append(q, e)[p] = q[p]
         /\ Append(q, e)[Len(q) + 1] = e
<1>1. PICK S : q \in Seq(S)
  BY DEF IsSeq
<1>2. q \in Seq(S \cup {e}) /\ e \in S \cup {e}
  BY <1>1
<1>3. Append(q, e) \in Seq(S \cup {e})
  BY <1>2
<1> QED BY <1>1, <1>2, <1>3 DEF IsSeq

(* One sequence after another.                                             *)
LEMMA ConcatFacts ==
  ASSUME NEW a, IsSeq(a), NEW b, IsSeq(b)
  PROVE  /\ IsSeq(a \o b) /\ Len(a \o b) = Len(a) + Len(b)
         /\ \A p \in 1..Len(a) : (a \o b)[p] = a[p]
         /\ \A p \in 1..Len(b) : (a \o b)[Len(a) + p] = b[p]
         /\ \A e : a \o Append(b, e) = Append(a \o b, e)
<1>1. PICK S : a \in Seq(S)
  BY DEF IsSeq
<1>2. PICK U : b \in Seq(U)
  BY DEF IsSeq
<1>3. a \in Seq(S \cup U) /\ b \in Seq(S \cup U)
  BY <1>1, <1>2
<1>4. a \o b \in Seq(S \cup U)
  BY <1>3
<1>5. ASSUME NEW e PROVE a \o Append(b, e) = Append(a \o b, e)
  <2> DEFINE V == S \cup U \cup {e}
  <2>1. a \in Seq(V) /\ b \in Seq(V) /\ e \in V
    BY <1>3
  <2> HIDE DEF V
  <2>2. /\ Append(b, e) \in Seq(V) /\ a \o b \in Seq(V) /\ a \o Append(b, e) \in Seq(V)
        /\ Append(a \o b, e) \in Seq(V)
    BY <2>1
  <2>3. Len(a \o Append(b, e)) = Len(Append(a \o b, e))
    BY <2>1
  <2>4. \A p \in 1..Len(a \o Append(b, e)) : (a \o Append(b, e))[p] = Append(a \o b, e)[p]
    BY <2>1
  <2> QED BY <2>2, <2>3, <2>4
<1> QED BY <1>3, <1>4, <1>5 DEF IsSeq

(* Three elements more.                                                    *)
LEMMA ConcatThree ==
  ASSUME NEW a, IsSeq(a), NEW x, NEW y, NEW z
  PROVE  a \o <<x, y, z>> = Append(Append(Append(a, x), y), z)
<1>1. PICK S : a \in Seq(S)
  BY DEF IsSeq
<1> DEFINE V == S \cup {x, y, z}
<1>2. a \in Seq(V) /\ x \in V /\ y \in V /\ z \in V
  BY <1>1
<1> HIDE DEF V
<1>3. /\ a \o <<x, y, z>> \in Seq(V) /\ Len(a \o <<x, y, z>>) = Len(a) + 3
      /\ \A p \in 1..Len(a) : (a \o <<x, y, z>>)[p] = a[p]
      /\ (a \o <<x, y, z>>)[Len(a) + 1] = x /\ (a \o <<x, y, z>>)[Len(a) + 2] = y
      /\ (a \o <<x, y, z>>)[Len(a) + 3] = z
  BY <1>2
<1> DEFINE b == Append(Append(Append(a, x), y), z)
<1>4. /\ b \in Seq(V) /\ Len(b) = Len(a) + 3 /\ \A p \in 1..Len(a) : b[p] = a[p]
      /\ b[Len(a) + 1] = x /\ b[Len(a) + 2] = y /\ b[Len(a) + 3] = z
  BY <1>2
<1> HIDE DEF b
<1>5. Len(a) \in Nat
  BY <1>2
<1>6. \A p \in 1..(Len(a) + 3) : (a \o <<x, y, z>>)[p] = b[p]
  <2> SUFFICES ASSUME NEW p \in 1..(Len(a) + 3) PROVE (a \o <<x, y, z>>)[p] = b[p]
    OBVIOUS
  <2>1. p \in 1..Len(a) \/ p = Len(a) + 1 \/ p = Len(a) + 2 \/ p = Len(a) + 3
    BY <1>5
  <2> QED BY <1>3, <1>4, <2>1
<1>7. a \o <<x, y, z>> = b
  BY <1>3, <1>4, <1>6
<1> QED BY <1>7 DEF b

(* One sequence more is joined at the end.                                 *)
LEMMA FlattenAppend ==
  ASSUME NEW b, IsSeq(b), NEW x, IsSeq(x)
  PROVE  FlattenSeq(Append(b, x)) = FlattenSeq(b) \o x
<1> DEFINE d == Append(b, x)
           Step(c, g, i) == IF i = 1 THEN c[i] ELSE g[i - 1] \o c[i]
           IsRun(c, g, m) == g = [i \in 1..m |-> Step(c, g, i)]
           E == {m \in Nat : \E g : IsRun(d, g, m)}
<1>1. /\ IsSeq(d) /\ Len(b) \in Nat /\ Len(d) = Len(b) + 1
      /\ (\A p \in 1..Len(b) : d[p] = b[p]) /\ d[Len(b) + 1] = x
  BY AppendFacts
<1>2. FlattenSeq(d) = (CHOOSE g : IsRun(d, g, Len(d)))[Len(d)]
  <2>1. Len(d) # 0
    BY <1>1
  <2> HIDE DEF d
  <2> QED BY <2>1 DEF FlattenSeq
<1>3. Len(b) # 0 => FlattenSeq(b) = (CHOOSE g : IsRun(b, g, Len(b)))[Len(b)]
  BY DEF FlattenSeq
<1> HIDE DEF d
<1>4. 0 \in E
  <2>1. [i \in 1..0 |-> Step(d, <<>>, i)] = <<>>
    <3> HIDE DEF Step
    <3> QED OBVIOUS
  <2>2. IsRun(d, <<>>, 0)
    BY <2>1
  <2> HIDE DEF IsRun
  <2> QED BY <2>2
<1>5. ASSUME NEW m \in Nat, m \in E PROVE m + 1 \in E
  <2>1. PICK g : IsRun(d, g, m)
    BY <1>5
  <2> DEFINE h == [i \in 1..(m + 1) |-> IF i <= m THEN g[i] ELSE Step(d, g, m + 1)]
  <2>2. ASSUME NEW i \in 1..(m + 1) PROVE h[i] = Step(d, h, i)
    <3>1. i # 1 => h[i - 1] = g[i - 1]
      OBVIOUS
    <3>2. Step(d, h, i) = Step(d, g, i)
      BY <3>1
    <3>3. h[i] = Step(d, g, i)
      <4> HIDE DEF Step
      <4> QED BY <2>1
    <3> QED BY <3>2, <3>3
  <2>3. h = [i \in 1..(m + 1) |-> Step(d, h, i)]
    <3> HIDE DEF Step
    <3> QED BY <2>2
  <2> HIDE DEF h, Step
  <2>4. IsRun(d, h, m + 1) /\ m + 1 \in Nat
    BY <2>3
  <2> HIDE DEF IsRun
  <2> QED BY <2>4
<1>6. Nat \subseteq E
  <2> HIDE DEF E
  <2> QED BY <1>4, <1>5, SetInduction
<1> DEFINE g == CHOOSE g : IsRun(d, g, Len(d))
<1>7. IsRun(d, g, Len(b) + 1)
  <2>1. Len(d) \in E
    <3> HIDE DEF E
    <3> QED BY <1>1, <1>6
  <2>2. \E f : IsRun(d, f, Len(d))
    BY <2>1
  <2> HIDE DEF IsRun
  <2> QED BY <1>1, <2>2
<1>8. FlattenSeq(d) = g[Len(b) + 1]
  BY <1>1, <1>2
<1> HIDE DEF g
<1>9. CASE Len(b) = 0
  <2>1. g[1] = d[1]
    BY <1>7, <1>9
  <2>2. b = <<>> /\ FlattenSeq(b) = b
    BY <1>9, SeqFacts DEF FlattenSeq
  <2>3. <<>> \o x = x
    BY DEF IsSeq
  <2>4. FlattenSeq(d) = x
    <3>1. d[1] = x /\ Len(b) + 1 = 1
      BY <1>1, <1>9
    <3> QED BY <1>8, <2>1, <3>1
  <2> QED BY <2>2, <2>3, <2>4 DEF d
<1>10. CASE Len(b) # 0
  <2> DEFINE f == CHOOSE f : IsRun(b, f, Len(b))
             S == {m \in Nat : m \in 1..Len(b) => f[m] = g[m]}
  <2>1. IsRun(b, f, Len(b))
    <3>1. Len(b) \in E
      <4> HIDE DEF E
      <4> QED BY <1>1, <1>6
    <3>2. PICK e : IsRun(d, e, Len(b))
      BY <3>1
    <3>3. \A i \in 1..Len(b) : Step(d, e, i) = Step(b, e, i)
      BY <1>1
    <3>4. e = [i \in 1..Len(b) |-> Step(b, e, i)]
      <4> HIDE DEF Step
      <4> QED BY <3>2, <3>3
    <3>5. IsRun(b, e, Len(b))
      BY <3>4
    <3> HIDE DEF IsRun
    <3> QED BY <3>5
  <2>2. FlattenSeq(b) = f[Len(b)]
    BY <1>3, <1>10
  <2> HIDE DEF f
  <2>3. 0 \in S
    OBVIOUS
  <2>4. ASSUME NEW m \in Nat, m \in S PROVE m + 1 \in S
    <3> SUFFICES ASSUME m + 1 \in 1..Len(b) PROVE f[m + 1] = g[m + 1]
      OBVIOUS
    <3>1. f[m + 1] = Step(b, f, m + 1)
      <4> HIDE DEF Step
      <4> QED BY <2>1
    <3>2. g[m + 1] = Step(d, g, m + 1)
      <4> HIDE DEF Step
      <4> QED BY <1>1, <1>7
    <3>3. m + 1 # 1 => f[(m + 1) - 1] = g[(m + 1) - 1]
      BY <2>4, <1>1
    <3>4. d[m + 1] = b[m + 1]
      BY <1>1
    <3> QED BY <3>1, <3>2, <3>3, <3>4
  <2>5. Nat \subseteq S
    <3> HIDE DEF S
    <3> QED BY <2>3, <2>4, SetInduction
  <2>6. f[Len(b)] = g[Len(b)]
    BY <1>1, <1>10, <2>5
  <2>7. g[Len(b) + 1] = g[Len(b)] \o d[Len(b) + 1]
    <3>1. g[Len(b) + 1] = Step(d, g, Len(b) + 1)
      <4> HIDE DEF Step
      <4> QED BY <1>1, <1>7
    <3>2. Len(b) + 1 # 1 /\ (Len(b) + 1) - 1 = Len(b)
      BY <1>1, <1>10
    <3> QED BY <3>1, <3>2
  <2> QED BY <1>1, <1>8, <2>2, <2>6, <2>7 DEF d
<1> QED BY <1>9, <1>10

(* A sequence that goes one element beyond another.                        *)
LEMMA OneMore ==
  ASSUME NEW b, IsSeq(b), NEW c, IsSeq(c), Len(c) = Len(b) + 1,
         \A p \in 1..Len(b) : c[p] = b[p]
  PROVE  c = Append(b, c[Len(b) + 1])
<1> DEFINE e == c[Len(b) + 1]
<1>1. PICK S : b \in Seq(S)
  BY DEF IsSeq
<1>2. PICK U : c \in Seq(U)
  BY DEF IsSeq
<1> DEFINE V == S \cup U
<1>3. b \in Seq(V) /\ c \in Seq(V) /\ Len(b) \in Nat
  BY <1>1, <1>2
<1> HIDE DEF V
<1>4. e \in V
  BY <1>3
<1> HIDE DEF e
<1>5. /\ Append(b, e) \in Seq(V) /\ Len(Append(b, e)) = Len(b) + 1
      /\ (\A p \in 1..Len(b) : Append(b, e)[p] = b[p]) /\ Append(b, e)[Len(b) + 1] = e
  BY <1>3, <1>4
<1>6. \A p \in 1..(Len(b) + 1) : c[p] = Append(b, e)[p]
  <2> SUFFICES ASSUME NEW p \in 1..(Len(b) + 1) PROVE c[p] = Append(b, e)[p]
    OBVIOUS
  <2>1. p \in 1..Len(b) \/ p = Len(b) + 1
    BY <1>3
  <2> QED BY <1>5, <2>1 DEF e
<1> QED BY <1>3, <1>5, <1>6 DEF e

(* What nothing is added to.                                               *)
LEMMA EmptyFacts == IsSeq(<<>>) /\ (\A a : IsSeq(a) => a \o <<>> = a /\ <<>> \o a = a)
<1>1. <<>> \in Seq({})
  OBVIOUS
<1> QED BY <1>1 DEF IsSeq

(* The first of several positions stays the first when a later one joins.  *)
LEMMA FirstAppend ==
  ASSUME NEW l \in Nat, NEW A, A \subseteq 1..l, NEW B, B = A \/ B = A \cup {l + 1}
  PROVE  /\ A # {} => Min(A) \in A /\ Min(B) = Min(A)
         /\ A = {} /\ B # {} => Min(B) = l + 1
<1>1. CASE A = {}
  <2>1. B # {} => B = {l + 1}
    BY <1>1
  <2> QED BY <1>1, <2>1 DEF Min
<1>2. CASE A # {}
  <2> DEFINE R == {ss \in Nat \X Nat : ss[1] < ss[2]}
  <2>1. PICK x \in A : \A y \in A : ~(<<y, x>> \in R)
    <3>1. IsWellFoundedOn(R, Nat)
      BY NatLessThanWellFounded DEF OpToRel
    <3>2. A \in SUBSET Nat
      OBVIOUS
    <3> HIDE DEF R
    <3> QED BY <1>2, <3>1, <3>2, WFMin
  <2>2. \A y \in A : x <= y
    <3> SUFFICES ASSUME NEW y \in A, ~(x <= y) PROVE FALSE
      OBVIOUS
    <3>1. x \in Nat /\ y \in Nat /\ y < x
      OBVIOUS
    <3>2. <<y, x>> \in R
      BY <3>1
    <3> QED BY <2>1, <3>2
  <2>7. /\ A \subseteq Nat /\ x \in 1..l /\ x \in B /\ x <= l + 1 /\ l + 1 \in Nat
        /\ \A y \in B : y \in A \/ y = l + 1
    OBVIOUS
  <2>3. x \in B /\ B \subseteq Nat /\ \A y \in B : x <= y
    <3>1. \A y \in B : y \in Nat /\ x <= y
      BY <2>2, <2>7
    <3> QED BY <2>7, <3>1
  <2>4. ASSUME NEW S, S \subseteq Nat, x \in S, \A y \in S : x <= y PROVE Min(S) = x
    <3>1. Min(S) \in S /\ \A y \in S : Min(S) <= y
      BY <2>4 DEF Min
    <3>2. Min(S) \in Nat /\ x \in Nat /\ Min(S) <= x /\ x <= Min(S)
      BY <2>4, <3>1
    <3> QED BY <3>2
  <2>5. Min(A) = x
    BY <2>2, <2>4, <2>7
  <2>6. Min(B) = x
    BY <2>3, <2>4
  <2> QED BY <1>2, <2>5, <2>6
<1> QED BY <1>1, <1>2
-----------------------------------------------------------------------------
(* The items of a sequence of events.                                      *)
StreamTypes == DeltaTypes \cup DoneTypes \cup PartTypes
Adds(e, i) == e.type = "item.added" /\ e.index = i
Closes(e, i) == e.type = "item.done" /\ e.index = i
Streams(e) == e.type \in StreamTypes

(* What ItemsBracketed says of the events alone.                           *)
Bracketed(q) ==
  /\ \A p \in 1..Len(q) : Streams(q[p]) =>
       /\ \E r \in 1..(p - 1) : Adds(q[r], q[p].index)
       /\ \A r \in 1..Len(q) : Closes(q[r], q[p].index) => p < r
  /\ \A p, r \in 1..Len(q) : q[p].type = "item.added" /\ Adds(q[r], q[p].index) => p = r
  /\ \A p, r \in 1..Len(q) : q[p].type = "item.done" /\ Closes(q[r], q[p].index) => p = r
  /\ \A r \in 1..Len(q) : q[r].type = "item.done" =>
       \E p \in 1..(r - 1) :
         Adds(q[p], q[r].index) /\ q[p].body.type = q[r].body.type /\ q[p].body.id = q[r].body.id

(* An item announced under this type and name, and not closed.             *)
Live(q, i, type, id) ==
  /\ \E p \in 1..Len(q) : Adds(q[p], i) /\ q[p].body.type = type /\ q[p].body.id = id
  /\ \A p \in 1..Len(q) : ~Closes(q[p], i)

(* An output index no event has.                                           *)
Unused(q, i) == \A p \in 1..Len(q) : q[p].index # i

(* The types of events are different.                                      *)
LEMMA TypesApart ==
  /\ "item.added" \notin StreamTypes /\ "item.done" \notin StreamTypes
  /\ \A k \in TextKinds : {TextEvents[k].added, TextEvents[k].delta, TextEvents[k].text,
                           TextEvents[k].part} \subseteq StreamTypes
  /\ {"arguments.delta", "arguments.done", "input.delta", "input.done"} \subseteq StreamTypes
  /\ (StreamTypes \cup {"item.added", "item.done"}) \cap (TerminalTypes \cup ResponseTypes) = {}
  /\ {"created", "in_progress"} \cap TerminalTypes = {}
BY DEF StreamTypes, DeltaTypes, DoneTypes, PartTypes, TextEvents, TextKinds, TerminalTypes,
       ResponseTypes

(* Announcing an item under a new index.                                   *)
LEMMA BracketAdd ==
  ASSUME NEW q, IsSeq(q), Bracketed(q), NEW e, e.type = "item.added", Unused(q, e.index)
  PROVE  Bracketed(Append(q, e)) /\ Live(Append(q, e), e.index, e.body.type, e.body.id)
<1> DEFINE t == Append(q, e)
<1>1. /\ Len(q) \in Nat /\ Len(t) = Len(q) + 1 /\ \A p \in 1..Len(q) : t[p] = q[p]
      /\ t[Len(q) + 1] = e /\ 1..Len(t) = 1..Len(q) \cup {Len(q) + 1}
  BY AppendFacts
<1>2. ~Streams(e) /\ e.type # "item.done" /\ \A i : ~Closes(e, i)
  BY TypesApart DEF Streams, Closes
<1> HIDE DEF t
<1>3. \A p \in 1..Len(q) : ~Adds(q[p], e.index) /\ ~Closes(q[p], e.index)
  BY DEF Unused, Adds, Closes
<1>4. \A p \in 1..Len(t) : Streams(t[p]) =>
        /\ \E r \in 1..(p - 1) : Adds(t[r], t[p].index)
        /\ \A r \in 1..Len(t) : Closes(t[r], t[p].index) => p < r
  BY <1>1, <1>2 DEF Bracketed
<1>5. \A p, r \in 1..Len(t) : t[p].type = "item.added" /\ Adds(t[r], t[p].index) => p = r
  BY <1>1, <1>3 DEF Bracketed, Unused, Adds
<1>6. \A p, r \in 1..Len(t) : t[p].type = "item.done" /\ Closes(t[r], t[p].index) => p = r
  BY <1>1, <1>2 DEF Bracketed
<1>7. \A r \in 1..Len(t) : t[r].type = "item.done" =>
        \E p \in 1..(r - 1) :
          Adds(t[p], t[r].index) /\ t[p].body.type = t[r].body.type /\ t[p].body.id = t[r].body.id
  <2> SUFFICES ASSUME NEW r \in 1..Len(t), t[r].type = "item.done"
               PROVE  \E p \in 1..(r - 1) :
                        /\ Adds(t[p], t[r].index) /\ t[p].body.type = t[r].body.type
                        /\ t[p].body.id = t[r].body.id
    OBVIOUS
  <2>1. r \in 1..Len(q) /\ t[r] = q[r]
    BY <1>1, <1>2
  <2>2. PICK p \in 1..(r - 1) :
          Adds(q[p], q[r].index) /\ q[p].body.type = q[r].body.type /\ q[p].body.id = q[r].body.id
    BY <2>1 DEF Bracketed
  <2>3. t[p] = q[p]
    BY <1>1, <2>1
  <2> QED BY <2>1, <2>2, <2>3
<1>8. Live(t, e.index, e.body.type, e.body.id)
  BY <1>1, <1>2, <1>3 DEF Live, Adds
<1> QED BY <1>4, <1>5, <1>6, <1>7, <1>8 DEF Bracketed, t

(* Streaming an item that is announced and not closed.                     *)
LEMMA BracketStream ==
  ASSUME NEW q, IsSeq(q), Bracketed(q), NEW e, Streams(e), NEW type, NEW id,
         Live(q, e.index, type, id)
  PROVE  Bracketed(Append(q, e))
<1> DEFINE t == Append(q, e)
<1>1. /\ Len(q) \in Nat /\ Len(t) = Len(q) + 1 /\ \A p \in 1..Len(q) : t[p] = q[p]
      /\ t[Len(q) + 1] = e /\ 1..Len(t) = 1..Len(q) \cup {Len(q) + 1}
  BY AppendFacts
<1>2. e.type # "item.done" /\ e.type # "item.added" /\ \A i : ~Closes(e, i) /\ ~Adds(e, i)
  BY TypesApart DEF Streams, Closes, Adds
<1> HIDE DEF t
<1>4. \A p \in 1..Len(t) : Streams(t[p]) =>
        /\ \E r \in 1..(p - 1) : Adds(t[r], t[p].index)
        /\ \A r \in 1..Len(t) : Closes(t[r], t[p].index) => p < r
  <2> SUFFICES ASSUME NEW p \in 1..Len(t), Streams(t[p])
               PROVE  /\ \E r \in 1..(p - 1) : Adds(t[r], t[p].index)
                      /\ \A r \in 1..Len(t) : Closes(t[r], t[p].index) => p < r
    OBVIOUS
  <2>1. CASE p \in 1..Len(q)
    BY <1>1, <1>2, <2>1 DEF Bracketed
  <2>2. CASE p = Len(q) + 1
    BY <1>1, <1>2, <2>2 DEF Live
  <2> QED BY <1>1, <2>1, <2>2
<1>5. \A p, r \in 1..Len(t) : t[p].type = "item.added" /\ Adds(t[r], t[p].index) => p = r
  BY <1>1, <1>2 DEF Bracketed
<1>6. \A p, r \in 1..Len(t) : t[p].type = "item.done" /\ Closes(t[r], t[p].index) => p = r
  BY <1>1, <1>2 DEF Bracketed
<1>7. \A r \in 1..Len(t) : t[r].type = "item.done" =>
        \E p \in 1..(r - 1) :
          Adds(t[p], t[r].index) /\ t[p].body.type = t[r].body.type /\ t[p].body.id = t[r].body.id
  BY <1>1, <1>2 DEF Bracketed
<1> QED BY <1>4, <1>5, <1>6, <1>7 DEF Bracketed, t

(* Closing it, under the name it was announced with.                       *)
LEMMA BracketClose ==
  ASSUME NEW q, IsSeq(q), Bracketed(q), NEW e, e.type = "item.done",
         Live(q, e.index, e.body.type, e.body.id)
  PROVE  Bracketed(Append(q, e))
<1> DEFINE t == Append(q, e)
<1>1. /\ Len(q) \in Nat /\ Len(t) = Len(q) + 1 /\ \A p \in 1..Len(q) : t[p] = q[p]
      /\ t[Len(q) + 1] = e /\ 1..Len(t) = 1..Len(q) \cup {Len(q) + 1}
  BY AppendFacts
<1>2. ~Streams(e) /\ e.type # "item.added" /\ \A i : ~Adds(e, i)
  BY TypesApart DEF Streams, Adds
<1> HIDE DEF t
<1>4. \A p \in 1..Len(t) : Streams(t[p]) =>
        /\ \E r \in 1..(p - 1) : Adds(t[r], t[p].index)
        /\ \A r \in 1..Len(t) : Closes(t[r], t[p].index) => p < r
  BY <1>1, <1>2 DEF Bracketed
<1>5. \A p, r \in 1..Len(t) : t[p].type = "item.added" /\ Adds(t[r], t[p].index) => p = r
  BY <1>1, <1>2 DEF Bracketed
<1>6. \A p, r \in 1..Len(t) : t[p].type = "item.done" /\ Closes(t[r], t[p].index) => p = r
  BY <1>1 DEF Bracketed, Live, Closes
<1>7. \A r \in 1..Len(t) : t[r].type = "item.done" =>
        \E p \in 1..(r - 1) :
          Adds(t[p], t[r].index) /\ t[p].body.type = t[r].body.type /\ t[p].body.id = t[r].body.id
  <2> SUFFICES ASSUME NEW r \in 1..Len(t), t[r].type = "item.done"
               PROVE  \E p \in 1..(r - 1) :
                        /\ Adds(t[p], t[r].index) /\ t[p].body.type = t[r].body.type
                        /\ t[p].body.id = t[r].body.id
    OBVIOUS
  <2>1. CASE r \in 1..Len(q)
    BY <1>1, <2>1 DEF Bracketed
  <2>2. CASE r = Len(q) + 1
    BY <1>1, <2>2 DEF Live
  <2> QED BY <1>1, <2>1, <2>2
<1> QED BY <1>4, <1>5, <1>6, <1>7 DEF Bracketed, t

(* An event of the response itself.                                        *)
LEMMA BracketOther ==
  ASSUME NEW q, IsSeq(q), Bracketed(q), NEW e, ~Streams(e), e.type \notin {"item.added", "item.done"}
  PROVE  Bracketed(Append(q, e))
<1> DEFINE t == Append(q, e)
<1>1. /\ Len(q) \in Nat /\ Len(t) = Len(q) + 1 /\ \A p \in 1..Len(q) : t[p] = q[p]
      /\ t[Len(q) + 1] = e /\ 1..Len(t) = 1..Len(q) \cup {Len(q) + 1}
  BY AppendFacts
<1>2. \A i : ~Closes(e, i) /\ ~Adds(e, i)
  BY DEF Closes, Adds
<1> HIDE DEF t
<1>3. \A p \in 1..Len(t) : Streams(t[p]) =>
        /\ \E r \in 1..(p - 1) : Adds(t[r], t[p].index)
        /\ \A r \in 1..Len(t) : Closes(t[r], t[p].index) => p < r
  BY <1>1, <1>2 DEF Bracketed
<1>4. \A p, r \in 1..Len(t) : t[p].type = "item.added" /\ Adds(t[r], t[p].index) => p = r
  BY <1>1, <1>2 DEF Bracketed
<1>5. \A p, r \in 1..Len(t) : t[p].type = "item.done" /\ Closes(t[r], t[p].index) => p = r
  BY <1>1, <1>2 DEF Bracketed
<1>6. \A r \in 1..Len(t) : t[r].type = "item.done" =>
        \E p \in 1..(r - 1) :
          Adds(t[p], t[r].index) /\ t[p].body.type = t[r].body.type /\ t[p].body.id = t[r].body.id
  BY <1>1, <1>2 DEF Bracketed
<1> QED BY <1>3, <1>4, <1>5, <1>6 DEF Bracketed, t

(* What an event leaves alone: items of other indexes.                     *)
LEMMA OthersStay ==
  ASSUME NEW q, IsSeq(q), NEW e
  PROVE  /\ \A i, type, id : Live(q, i, type, id) /\ ~Closes(e, i) =>
              Live(Append(q, e), i, type, id)
         /\ \A i : Unused(q, i) /\ e.index # i => Unused(Append(q, e), i)
<1>1. /\ Len(q) \in Nat /\ Len(Append(q, e)) = Len(q) + 1
      /\ \A p \in 1..Len(q) : Append(q, e)[p] = q[p]
      /\ Append(q, e)[Len(q) + 1] = e
      /\ 1..Len(Append(q, e)) = 1..Len(q) \cup {Len(q) + 1}
  BY AppendFacts
<1> QED BY <1>1 DEF Live, Unused
-----------------------------------------------------------------------------
(* The items the synthesizer has in hand: the open text, the next output   *)
(* index, and the calls after the first n (close_tool_calls takes them one *)
(* by one).                                                                *)
CallFields ==
  {"id", "index", "callId", "encodedName", "name", "arguments", "freeform", "announced"}
IsCall(c) ==
  /\ c = [f \in CallFields |-> c[f]]
  /\ c.index \in Nat /\ c.freeform \in BOOLEAN /\ c.announced \in BOOLEAN
  /\ c.announced => c.id # <<>> /\ c.encodedName # <<>>
CallType(c) == IF c.freeform THEN "custom_tool_call" ELSE "function_call"

Typed(open, next, cs, n) ==
  /\ open \in [TextKinds -> TextItems \cup {None}] /\ next \in Nat
  /\ IsSeq(cs) /\ (\A m \in 1..Len(cs) : IsCall(cs[m]))
  /\ n \in 0..Len(cs)

(* An index that is not taken yet has no event.                            *)
Fresh(q, next) == \A i \in Nat : i >= next => Unused(q, i)

(* The open text is an item the client is being told of.                   *)
TextLive(q, open, next) ==
  /\ \A k \in TextKinds : open[k] # None =>
       open[k].index < next /\ Live(q, open[k].index, k, open[k].id)
  /\ open["reasoning"] = None \/ open["message"] = None

(* So is an announced call; one that is not announced has only its index.  *)
CallLive(q, open, next, cs, n) ==
  \A m \in (n + 1)..Len(cs) : cs[m].id # <<>> =>
    /\ cs[m].index < next
    /\ \A k \in TextKinds : open[k] # None => open[k].index # cs[m].index
    /\ \A l \in (n + 1)..Len(cs) : cs[l].id # <<>> /\ cs[l].index = cs[m].index => l = m
    /\ IF cs[m].announced THEN Live(q, cs[m].index, CallType(cs[m]), cs[m].id)
       ELSE Unused(q, cs[m].index)

(* No other item is left open.                                             *)
Held(open, cs, n, i) ==
  \/ \E k \in TextKinds : open[k] # None /\ open[k].index = i
  \/ \E m \in (n + 1)..Len(cs) : cs[m].announced /\ cs[m].index = i
Settled(q, open, cs, n) ==
  \A p \in 1..Len(q) : q[p].type = "item.added" =>
    (\E r \in 1..Len(q) : Closes(q[r], q[p].index)) \/ Held(open, cs, n, q[p].index)

Items(q, open, next, cs, n) ==
  /\ IsSeq(q) /\ Typed(open, next, cs, n) /\ Bracketed(q) /\ Fresh(q, next)
  /\ TextLive(q, open, next) /\ CallLive(q, open, next, cs, n) /\ Settled(q, open, cs, n)

(* A text item is a record.                                                *)
LEMMA TextItemFacts ==
  ASSUME NEW open \in [TextKinds -> TextItems \cup {None}], NEW k \in TextKinds, open[k] # None
  PROVE  open[k] \in TextItems /\ open[k].index \in Nat /\ open[k].id \in ItemIds
         /\ open[k].text \in Seq(Words)
BY DEF TextItems

(* A call in hand is one too.                                              *)
LEMMA CallFacts ==
  ASSUME NEW open, NEW next, NEW cs, NEW n, Typed(open, next, cs, n), NEW m \in (n + 1)..Len(cs)
  PROVE  /\ m \in 1..Len(cs) /\ IsCall(cs[m]) /\ cs[m].index \in Nat
         /\ cs[m].announced => cs[m].id # <<>>
<1>1. Len(cs) \in Nat /\ n \in 0..Len(cs)
  BY SeqFacts DEF Typed
<1>2. m \in 1..Len(cs)
  BY <1>1
<1>3. IsCall(cs[m])
  BY <1>2 DEF Typed
<1> QED BY <1>2, <1>3 DEF IsCall

(* Announcing a text while none is open.                                   *)
LEMMA ItemsOpenText ==
  ASSUME NEW q, NEW open, NEW next, NEW cs, NEW n, Items(q, open, next, cs, n),
         NEW k \in TextKinds, \A j \in TextKinds : open[j] = None,
         NEW item \in TextItems, item.index = next,
         NEW e, Adds(e, next), e.body.type = k, e.body.id = item.id
  PROVE  Items(Append(q, e), [open EXCEPT ![k] = item], next + 1, cs, n)
<1> DEFINE t == Append(q, e)
           o == [open EXCEPT ![k] = item]
<1>1. /\ IsSeq(q) /\ Typed(open, next, cs, n) /\ Bracketed(q) /\ Fresh(q, next)
      /\ CallLive(q, open, next, cs, n) /\ Settled(q, open, cs, n) /\ next \in Nat
  BY DEF Items, Typed
<1>2. e.type = "item.added" /\ e.index = next /\ Unused(q, next) /\ \A i : ~Closes(e, i)
  BY <1>1 DEF Adds, Closes, Fresh
<1>3. Bracketed(t) /\ Live(t, next, k, item.id)
  BY <1>1, <1>2, BracketAdd
<1>4. o \in [TextKinds -> TextItems \cup {None}] /\ o[k] = item
      /\ \A j \in TextKinds : j # k => o[j] = None
  BY <1>1 DEF Typed
<1>5. item # None /\ \A j \in TextKinds : o[j] # None => j = k
  BY <1>4, ConstantsAssumption
<1>6. /\ IsSeq(t) /\ Len(q) \in Nat /\ Len(t) = Len(q) + 1 /\ (\A p \in 1..Len(q) : t[p] = q[p])
      /\ t[Len(q) + 1] = e /\ 1..Len(t) = 1..Len(q) \cup {Len(q) + 1}
  BY <1>1, AppendFacts
<1>7. /\ \A i, type, id : Live(q, i, type, id) => Live(t, i, type, id)
      /\ \A i : Unused(q, i) /\ next # i => Unused(t, i)
  BY <1>1, <1>2, OthersStay
<1> HIDE DEF t, o
<1>8. Typed(o, next + 1, cs, n)
  BY <1>1, <1>4 DEF Typed
<1>9. Fresh(t, next + 1)
  BY <1>1, <1>7 DEF Fresh
<1>10. TextLive(t, o, next + 1)
  BY <1>1, <1>3, <1>4, <1>5 DEF TextLive, TextKinds
<1>11. CallLive(t, o, next + 1, cs, n)
  <2> SUFFICES ASSUME NEW m \in (n + 1)..Len(cs), cs[m].id # <<>>
               PROVE  /\ cs[m].index < next + 1
                      /\ \A j \in TextKinds : o[j] # None => o[j].index # cs[m].index
                      /\ \A l \in (n + 1)..Len(cs) :
                           cs[l].id # <<>> /\ cs[l].index = cs[m].index => l = m
                      /\ IF cs[m].announced THEN Live(t, cs[m].index, CallType(cs[m]), cs[m].id)
                         ELSE Unused(t, cs[m].index)
    BY DEF CallLive
  <2>1. /\ cs[m].index < next
        /\ \A l \in (n + 1)..Len(cs) : cs[l].id # <<>> /\ cs[l].index = cs[m].index => l = m
        /\ IF cs[m].announced THEN Live(q, cs[m].index, CallType(cs[m]), cs[m].id)
           ELSE Unused(q, cs[m].index)
    BY <1>1 DEF CallLive
  <2>2. cs[m].index \in Nat
    BY <1>1, CallFacts
  <2> QED BY <1>1, <1>4, <1>5, <1>7, <2>1, <2>2
<1>12. Settled(t, o, cs, n)
  <2> SUFFICES ASSUME NEW p \in 1..Len(t), t[p].type = "item.added"
               PROVE  (\E r \in 1..Len(t) : Closes(t[r], t[p].index)) \/ Held(o, cs, n, t[p].index)
    BY DEF Settled
  <2>1. CASE p = Len(q) + 1
    BY <1>2, <1>4, <1>5, <1>6, <2>1 DEF Held
  <2>2. CASE p \in 1..Len(q)
    BY <1>1, <1>6, <2>2 DEF Settled, Held
  <2> QED BY <1>6, <2>1, <2>2
<1> QED BY <1>3, <1>6, <1>8, <1>9, <1>10, <1>11, <1>12 DEF Items, t, o

(* Streaming an item in hand.                                              *)
LEMMA ItemsStream ==
  ASSUME NEW q, NEW open, NEW next, NEW cs, NEW n, Items(q, open, next, cs, n),
         NEW e, Streams(e), Held(open, cs, n, e.index)
  PROVE  Items(Append(q, e), open, next, cs, n)
<1> DEFINE t == Append(q, e)
<1>1. /\ IsSeq(q) /\ Typed(open, next, cs, n) /\ Bracketed(q) /\ Fresh(q, next)
      /\ TextLive(q, open, next) /\ CallLive(q, open, next, cs, n) /\ Settled(q, open, cs, n)
      /\ next \in Nat
  BY DEF Items, Typed
<1>2. e.type # "item.added" /\ \A i : ~Closes(e, i)
  BY TypesApart DEF Streams, Closes
<1>3. \A m \in (n + 1)..Len(cs) : cs[m].index \in Nat /\ (cs[m].announced => cs[m].id # <<>>)
  BY <1>1, CallFacts
<1>4. \E type, id : Live(q, e.index, type, id)
  BY <1>1, <1>3 DEF Held, TextLive, CallLive
<1>5. e.index \in Nat /\ e.index < next
  BY <1>1, <1>3, TextItemFacts DEF Held, TextLive, CallLive, Typed
<1>6. \A m \in (n + 1)..Len(cs) : cs[m].id # <<>> /\ ~cs[m].announced => cs[m].index # e.index
  BY <1>1, <1>3 DEF Held, CallLive
<1>7. Bracketed(t)
  BY <1>1, <1>4, BracketStream
<1>8. /\ IsSeq(t) /\ Len(q) \in Nat /\ Len(t) = Len(q) + 1 /\ (\A p \in 1..Len(q) : t[p] = q[p])
      /\ t[Len(q) + 1] = e /\ 1..Len(t) = 1..Len(q) \cup {Len(q) + 1}
  BY <1>1, AppendFacts
<1>9. /\ \A i, type, id : Live(q, i, type, id) => Live(t, i, type, id)
      /\ \A i : Unused(q, i) /\ e.index # i => Unused(t, i)
  BY <1>1, <1>2, OthersStay
<1> HIDE DEF t
<1>10. Fresh(t, next)
  BY <1>1, <1>5, <1>9 DEF Fresh
<1>11. TextLive(t, open, next)
  BY <1>1, <1>9 DEF TextLive
<1>12. CallLive(t, open, next, cs, n)
  BY <1>1, <1>6, <1>9 DEF CallLive
<1>13. Settled(t, open, cs, n)
  BY <1>1, <1>2, <1>8 DEF Settled
<1> QED BY <1>1, <1>7, <1>8, <1>10, <1>11, <1>12, <1>13 DEF Items, t

(* Closing the open text.                                                  *)
LEMMA ItemsCloseText ==
  ASSUME NEW q, NEW open, NEW next, NEW cs, NEW n, Items(q, open, next, cs, n),
         NEW k \in TextKinds, open[k] # None,
         NEW e, Closes(e, open[k].index), e.body.type = k, e.body.id = open[k].id
  PROVE  Items(Append(q, e), [open EXCEPT ![k] = None], next, cs, n)
<1> DEFINE t == Append(q, e)
           o == [open EXCEPT ![k] = None]
           i == open[k].index
<1>1. /\ IsSeq(q) /\ Typed(open, next, cs, n) /\ Bracketed(q) /\ Fresh(q, next)
      /\ TextLive(q, open, next) /\ CallLive(q, open, next, cs, n) /\ Settled(q, open, cs, n)
      /\ next \in Nat
  BY DEF Items, Typed
<1>2. e.type = "item.done" /\ e.index = i /\ \A j : j # i => ~Closes(e, j)
  BY DEF Closes
<1>3. i \in Nat /\ i < next /\ Live(q, i, k, open[k].id)
  BY <1>1, TextItemFacts DEF TextLive, Typed
<1>4. Bracketed(t)
  BY <1>1, <1>2, <1>3, BracketClose
<1>5. o \in [TextKinds -> TextItems \cup {None}] /\ o[k] = None
      /\ \A j \in TextKinds : j # k => o[j] = open[j] /\ o[j] = None
  BY <1>1 DEF Typed, TextLive, TextKinds
<1>6. /\ IsSeq(t) /\ Len(q) \in Nat /\ Len(t) = Len(q) + 1 /\ (\A p \in 1..Len(q) : t[p] = q[p])
      /\ t[Len(q) + 1] = e /\ 1..Len(t) = 1..Len(q) \cup {Len(q) + 1}
  BY <1>1, AppendFacts
<1>7. /\ \A j, type, id : Live(q, j, type, id) /\ j # i => Live(t, j, type, id)
      /\ \A j : Unused(q, j) /\ i # j => Unused(t, j)
  BY <1>1, <1>2, OthersStay
<1>8. \A j \in TextKinds : o[j] = None
  BY <1>5
<1> HIDE DEF t, o, i
<1>9. Typed(o, next, cs, n)
  BY <1>1, <1>5 DEF Typed
<1>10. Fresh(t, next)
  BY <1>1, <1>3, <1>7 DEF Fresh
<1>11. TextLive(t, o, next)
  BY <1>8 DEF TextLive, TextKinds
<1>12. CallLive(t, o, next, cs, n)
  <2> SUFFICES ASSUME NEW m \in (n + 1)..Len(cs), cs[m].id # <<>>
               PROVE  /\ cs[m].index < next
                      /\ \A l \in (n + 1)..Len(cs) :
                           cs[l].id # <<>> /\ cs[l].index = cs[m].index => l = m
                      /\ IF cs[m].announced THEN Live(t, cs[m].index, CallType(cs[m]), cs[m].id)
                         ELSE Unused(t, cs[m].index)
    BY <1>8 DEF CallLive
  <2>1. cs[m].index # i
    BY <1>1 DEF CallLive, i
  <2> QED BY <1>1, <1>7, <2>1 DEF CallLive
<1>13. Settled(t, o, cs, n)
  <2> SUFFICES ASSUME NEW p \in 1..Len(t), t[p].type = "item.added",
                      ~\E r \in 1..Len(t) : Closes(t[r], t[p].index)
               PROVE  Held(o, cs, n, t[p].index)
    BY DEF Settled
  <2>1. p \in 1..Len(q) /\ t[p] = q[p]
    BY <1>2, <1>6
  <2>2. ~\E r \in 1..Len(q) : Closes(q[r], q[p].index)
    BY <1>6, <2>1
  <2>3. Held(open, cs, n, q[p].index) /\ q[p].index # i
    BY <1>1, <1>2, <1>6, <2>1, <2>2 DEF Settled, Closes
  <2> QED BY <1>5, <2>1, <2>3 DEF Held, i
<1> QED BY <1>4, <1>6, <1>9, <1>10, <1>11, <1>12, <1>13 DEF Items, t, o

(* The open text grows.                                                    *)
LEMMA ItemsGrowText ==
  ASSUME NEW q, NEW open, NEW next, NEW cs, NEW n, Items(q, open, next, cs, n),
         NEW k \in TextKinds, open[k] # None, NEW item \in TextItems,
         item.id = open[k].id, item.index = open[k].index
  PROVE  Items(q, [open EXCEPT ![k] = item], next, cs, n)
<1> DEFINE o == [open EXCEPT ![k] = item]
<1>1. item # None
  BY ConstantsAssumption
<1>2. /\ IsSeq(q) /\ Typed(open, next, cs, n) /\ Bracketed(q) /\ Fresh(q, next)
      /\ TextLive(q, open, next) /\ CallLive(q, open, next, cs, n) /\ Settled(q, open, cs, n)
  BY DEF Items
<1>3. /\ o \in [TextKinds -> TextItems \cup {None}]
      /\ \A j \in TextKinds : /\ o[j] # None <=> open[j] # None
                              /\ o[j] # None => o[j].index = open[j].index /\ o[j].id = open[j].id
  BY <1>1, <1>2 DEF Typed
<1> HIDE DEF o
<1>4. Typed(o, next, cs, n)
  BY <1>2, <1>3 DEF Typed
<1>5. TextLive(q, o, next)
  BY <1>2, <1>3 DEF TextLive, TextKinds
<1>6. CallLive(q, o, next, cs, n)
  BY <1>2, <1>3 DEF CallLive
<1>7. Settled(q, o, cs, n)
  BY <1>2, <1>3 DEF Settled, Held
<1> QED BY <1>2, <1>4, <1>5, <1>6, <1>7 DEF Items, o

(* An event of the response itself.                                        *)
LEMMA ItemsOther ==
  ASSUME NEW q, NEW open, NEW next, NEW cs, NEW n, Items(q, open, next, cs, n),
         NEW e, ~Streams(e), e.type \notin {"item.added", "item.done"}, e.index \notin Nat
  PROVE  Items(Append(q, e), open, next, cs, n)
<1> DEFINE t == Append(q, e)
<1>1. /\ IsSeq(q) /\ Typed(open, next, cs, n) /\ Bracketed(q) /\ Fresh(q, next)
      /\ TextLive(q, open, next) /\ CallLive(q, open, next, cs, n) /\ Settled(q, open, cs, n)
  BY DEF Items
<1>2. Bracketed(t)
  BY <1>1, BracketOther
<1>3. /\ IsSeq(t) /\ Len(q) \in Nat /\ Len(t) = Len(q) + 1 /\ (\A p \in 1..Len(q) : t[p] = q[p])
      /\ t[Len(q) + 1] = e /\ 1..Len(t) = 1..Len(q) \cup {Len(q) + 1}
  BY <1>1, AppendFacts
<1>4. /\ \A i, type, id : Live(q, i, type, id) => Live(t, i, type, id)
      /\ \A i \in Nat : Unused(q, i) => Unused(t, i)
  BY <1>1, OthersStay DEF Closes
<1>5. \A m \in (n + 1)..Len(cs) : cs[m].index \in Nat
  BY <1>1, CallFacts
<1> HIDE DEF t
<1>6. Fresh(t, next) /\ TextLive(t, open, next)
  BY <1>1, <1>4 DEF Fresh, TextLive
<1>7. CallLive(t, open, next, cs, n)
  BY <1>1, <1>4, <1>5 DEF CallLive
<1>8. Settled(t, open, cs, n)
  BY <1>1, <1>3 DEF Settled
<1> QED BY <1>1, <1>2, <1>3, <1>6, <1>7, <1>8 DEF Items, t
-----------------------------------------------------------------------------
(* One call of a sequence changes.                                         *)
LEMMA ChangeCall ==
  ASSUME NEW open, NEW next, NEW cs, Typed(open, next, cs, 0), NEW m \in 1..Len(cs),
         NEW c, IsCall(c)
  PROVE  LET ds == [cs EXCEPT ![m] = c] IN
         /\ Typed(open, next, ds, 0) /\ Len(ds) = Len(cs) /\ ds[m] = c
         /\ \A l \in 1..Len(cs) : l # m => ds[l] = cs[l]
<1> DEFINE ds == [cs EXCEPT ![m] = c]
<1>1. PICK S : cs \in Seq(S)
  BY DEF Typed, IsSeq
<1>2. cs \in Seq(S \cup {c}) /\ c \in S \cup {c}
  BY <1>1
<1>3. ds \in Seq(S \cup {c}) /\ Len(ds) = Len(cs) /\ ds[m] = c
      /\ \A l \in 1..Len(cs) : l # m => ds[l] = cs[l]
  BY <1>2
<1> HIDE DEF ds
<1>4. \A l \in 1..Len(ds) : IsCall(ds[l])
  BY <1>3 DEF Typed
<1> QED BY <1>3, <1>4 DEF Typed, IsSeq, ds

(* A call takes the next output index.                                     *)
LEMMA ItemsReserve ==
  ASSUME NEW q, NEW open, NEW next, NEW cs, Items(q, open, next, cs, 0), NEW m \in 1..Len(cs),
         cs[m].id = <<>>, NEW c, IsCall(c), c.index = next, ~c.announced
  PROVE  Items(q, open, next + 1, [cs EXCEPT ![m] = c], 0)
<1> DEFINE ds == [cs EXCEPT ![m] = c]
<1>1. /\ IsSeq(q) /\ Typed(open, next, cs, 0) /\ Bracketed(q) /\ Fresh(q, next)
      /\ TextLive(q, open, next) /\ CallLive(q, open, next, cs, 0) /\ Settled(q, open, cs, 0)
      /\ next \in Nat
  BY DEF Items, Typed
<1>2. /\ Typed(open, next, ds, 0) /\ Len(ds) = Len(cs) /\ ds[m] = c
      /\ \A l \in 1..Len(cs) : l # m => ds[l] = cs[l]
  BY <1>1, ChangeCall
<1>3. \A l \in 1..Len(cs) : cs[l].index \in Nat /\ (cs[l].announced => cs[l].id # <<>>)
  BY <1>1, CallFacts
<1> HIDE DEF ds
<1>4. \A k \in TextKinds : open[k] # None => open[k].index \in Nat /\ open[k].index < next
  BY <1>1, TextItemFacts DEF TextLive, Typed
<1>5. Typed(open, next + 1, ds, 0) /\ Fresh(q, next + 1) /\ TextLive(q, open, next + 1)
  BY <1>1, <1>2, <1>4 DEF Typed, Fresh, TextLive
<1>6. CallLive(q, open, next + 1, ds, 0)
  <2> SUFFICES ASSUME NEW j \in 1..Len(cs), ds[j].id # <<>>
               PROVE  /\ ds[j].index < next + 1
                      /\ \A k \in TextKinds : open[k] # None => open[k].index # ds[j].index
                      /\ \A l \in 1..Len(cs) :
                           ds[l].id # <<>> /\ ds[l].index = ds[j].index => l = j
                      /\ IF ds[j].announced THEN Live(q, ds[j].index, CallType(ds[j]), ds[j].id)
                         ELSE Unused(q, ds[j].index)
    BY <1>2 DEF CallLive
  <2>1. \A l \in 1..Len(cs) : cs[l].id # <<>> => cs[l].index < next
    BY <1>1 DEF CallLive
  <2>2. CASE j = m
    BY <1>1, <1>2, <1>3, <1>4, <2>1, <2>2 DEF Fresh
  <2>3. CASE j # m
    BY <1>1, <1>2, <1>3, <1>4, <2>1, <2>3 DEF CallLive
  <2> QED BY <2>2, <2>3
<1>7. \A l \in 1..Len(cs) : cs[l].announced => ds[l].announced /\ ds[l].index = cs[l].index
  BY <1>2, <1>3
<1>8. Settled(q, open, ds, 0)
  BY <1>1, <1>2, <1>7 DEF Settled, Held
<1> QED BY <1>1, <1>5, <1>6, <1>8 DEF Items, ds

(* A call is identified, or its arguments grow.                            *)
LEMMA ItemsIdentify ==
  ASSUME NEW q, NEW open, NEW next, NEW cs, Items(q, open, next, cs, 0), NEW m \in 1..Len(cs),
         NEW c, IsCall(c), c.id = cs[m].id, c.index = cs[m].index, c.announced <=> cs[m].announced,
         c.announced => (c.freeform <=> cs[m].freeform)
  PROVE  Items(q, open, next, [cs EXCEPT ![m] = c], 0)
<1> DEFINE ds == [cs EXCEPT ![m] = c]
<1>1. /\ IsSeq(q) /\ Typed(open, next, cs, 0) /\ Bracketed(q) /\ Fresh(q, next)
      /\ TextLive(q, open, next) /\ CallLive(q, open, next, cs, 0) /\ Settled(q, open, cs, 0)
  BY DEF Items
<1>2. /\ Typed(open, next, ds, 0) /\ Len(ds) = Len(cs) /\ ds[m] = c
      /\ \A l \in 1..Len(cs) : l # m => ds[l] = cs[l]
  BY <1>1, ChangeCall
<1> HIDE DEF ds
<1>3. \A l \in 1..Len(cs) :
        /\ ds[l].id = cs[l].id /\ ds[l].index = cs[l].index
        /\ ds[l].announced <=> cs[l].announced
        /\ ds[l].announced => CallType(ds[l]) = CallType(cs[l])
  BY <1>2 DEF CallType
<1>4. CallLive(q, open, next, ds, 0)
  BY <1>1, <1>2, <1>3 DEF CallLive
<1>5. Settled(q, open, ds, 0)
  BY <1>1, <1>2, <1>3 DEF Settled, Held
<1> QED BY <1>1, <1>2, <1>4, <1>5 DEF Items, ds

(* A call is announced.                                                    *)
LEMMA ItemsAnnounce ==
  ASSUME NEW q, NEW open, NEW next, NEW cs, Items(q, open, next, cs, 0), NEW m \in 1..Len(cs),
         cs[m].id # <<>>, ~cs[m].announced,
         NEW c, IsCall(c), c.id = cs[m].id, c.index = cs[m].index, c.announced,
         NEW e, Adds(e, c.index), e.body.type = CallType(c), e.body.id = c.id
  PROVE  Items(Append(q, e), open, next, [cs EXCEPT ![m] = c], 0)
<1> DEFINE t == Append(q, e)
           ds == [cs EXCEPT ![m] = c]
<1>1. /\ IsSeq(q) /\ Typed(open, next, cs, 0) /\ Bracketed(q) /\ Fresh(q, next)
      /\ TextLive(q, open, next) /\ CallLive(q, open, next, cs, 0) /\ Settled(q, open, cs, 0)
      /\ next \in Nat
  BY DEF Items, Typed
<1>2. /\ Typed(open, next, ds, 0) /\ Len(ds) = Len(cs) /\ ds[m] = c
      /\ \A l \in 1..Len(cs) : l # m => ds[l] = cs[l]
  BY <1>1, ChangeCall
<1>3. \A l \in 1..Len(cs) : cs[l].index \in Nat /\ (cs[l].announced => cs[l].id # <<>>)
  BY <1>1, CallFacts
<1>4. /\ c.index \in Nat /\ c.index < next /\ Unused(q, c.index)
      /\ \A k \in TextKinds : open[k] # None => open[k].index # c.index
      /\ \A l \in 1..Len(cs) : cs[l].id # <<>> /\ cs[l].index = c.index => l = m
  BY <1>1, <1>3 DEF CallLive
<1>5. e.type = "item.added" /\ e.index = c.index /\ \A i : ~Closes(e, i)
  BY DEF Adds, Closes
<1>6. Bracketed(t) /\ Live(t, c.index, CallType(c), c.id)
  BY <1>1, <1>4, <1>5, BracketAdd
<1>7. /\ IsSeq(t) /\ Len(q) \in Nat /\ Len(t) = Len(q) + 1 /\ (\A p \in 1..Len(q) : t[p] = q[p])
      /\ t[Len(q) + 1] = e /\ 1..Len(t) = 1..Len(q) \cup {Len(q) + 1}
  BY <1>1, AppendFacts
<1>8. /\ \A i, type, id : Live(q, i, type, id) => Live(t, i, type, id)
      /\ \A i : Unused(q, i) /\ c.index # i => Unused(t, i)
  BY <1>1, <1>5, OthersStay
<1> HIDE DEF t, ds
<1>9. Fresh(t, next) /\ TextLive(t, open, next)
  BY <1>1, <1>4, <1>8 DEF Fresh, TextLive
<1>10. CallLive(t, open, next, ds, 0)
  <2> SUFFICES ASSUME NEW j \in 1..Len(cs), ds[j].id # <<>>
               PROVE  /\ ds[j].index < next
                      /\ \A k \in TextKinds : open[k] # None => open[k].index # ds[j].index
                      /\ \A l \in 1..Len(cs) :
                           ds[l].id # <<>> /\ ds[l].index = ds[j].index => l = j
                      /\ IF ds[j].announced THEN Live(t, ds[j].index, CallType(ds[j]), ds[j].id)
                         ELSE Unused(t, ds[j].index)
    BY <1>2 DEF CallLive
  <2>1. CASE j = m
    BY <1>2, <1>4, <1>6, <2>1
  <2>2. CASE j # m
    <3>1. ds[j] = cs[j] /\ cs[j].id # <<>> /\ cs[j].index # c.index
      BY <1>2, <1>4, <2>2
    <3>2. /\ cs[j].index < next
          /\ \A k \in TextKinds : open[k] # None => open[k].index # cs[j].index
          /\ \A l \in 1..Len(cs) : cs[l].id # <<>> /\ cs[l].index = cs[j].index => l = j
          /\ IF cs[j].announced THEN Live(q, cs[j].index, CallType(cs[j]), cs[j].id)
             ELSE Unused(q, cs[j].index)
      BY <1>1, <3>1 DEF CallLive
    <3>3. \A l \in 1..Len(cs) : ds[l].id = cs[l].id /\ ds[l].index = cs[l].index
      BY <1>2
    <3> QED BY <1>8, <3>1, <3>2, <3>3
  <2> QED BY <2>1, <2>2
<1>11. \A l \in 1..Len(cs) : cs[l].announced => ds[l].announced /\ ds[l].index = cs[l].index
  BY <1>2
<1>12. Settled(t, open, ds, 0)
  <2> SUFFICES ASSUME NEW p \in 1..Len(t), t[p].type = "item.added"
               PROVE  (\E r \in 1..Len(t) : Closes(t[r], t[p].index)) \/ Held(open, ds, 0, t[p].index)
    BY DEF Settled
  <2>1. CASE p = Len(q) + 1
    BY <1>2, <1>5, <1>7, <2>1 DEF Held
  <2>2. CASE p \in 1..Len(q)
    <3>1. \/ \E r \in 1..Len(q) : Closes(q[r], q[p].index)
          \/ Held(open, cs, 0, q[p].index)
      BY <1>1, <1>7, <2>2 DEF Settled
    <3>2. \A i : Held(open, cs, 0, i) => Held(open, ds, 0, i)
      BY <1>2, <1>11 DEF Held
    <3>3. t[p] = q[p] /\ \A r \in 1..Len(q) : r \in 1..Len(t) /\ t[r] = q[r]
      BY <1>7, <2>2
    <3> QED BY <3>1, <3>2, <3>3
  <2> QED BY <1>7, <2>1, <2>2
<1> QED BY <1>2, <1>6, <1>7, <1>9, <1>10, <1>12 DEF Items, t, ds

(* More calls, which have nothing yet.                                     *)
LEMMA ItemsMoreCalls ==
  ASSUME NEW q, NEW open, NEW next, NEW cs, Items(q, open, next, cs, 0), NEW more, IsSeq(more),
         \A l \in 1..Len(more) : more[l] = DefaultCall
  PROVE  Items(q, open, next, cs \o more, 0)
<1> DEFINE ds == cs \o more
<1>1. /\ IsSeq(q) /\ Typed(open, next, cs, 0) /\ Bracketed(q) /\ Fresh(q, next)
      /\ TextLive(q, open, next) /\ CallLive(q, open, next, cs, 0) /\ Settled(q, open, cs, 0)
      /\ IsSeq(cs) /\ Len(cs) \in Nat /\ Len(more) \in Nat
  BY SeqFacts DEF Items, Typed
<1>2. /\ IsSeq(ds) /\ Len(ds) = Len(cs) + Len(more) /\ \A l \in 1..Len(cs) : ds[l] = cs[l]
      /\ \A l \in 1..Len(more) : ds[Len(cs) + l] = DefaultCall
  BY <1>1, ConcatFacts
<1> HIDE DEF ds
<1>3. \A l \in 1..Len(ds) : l \in 1..Len(cs) \/ ds[l] = DefaultCall
  <2> SUFFICES ASSUME NEW l \in 1..Len(ds), l \notin 1..Len(cs) PROVE ds[l] = DefaultCall
    OBVIOUS
  <2>1. l - Len(cs) \in 1..Len(more) /\ Len(cs) + (l - Len(cs)) = l
    BY <1>1, <1>2
  <2> QED BY <1>2, <2>1
<1>4. IsCall(DefaultCall) /\ DefaultCall.id = <<>> /\ ~DefaultCall.announced
  BY DEF IsCall, DefaultCall, CallFields
<1>5. \A l \in 1..Len(ds) : IsCall(ds[l])
  BY <1>1, <1>2, <1>3, <1>4 DEF Typed
<1>6. Typed(open, next, ds, 0)
  BY <1>1, <1>2, <1>5 DEF Typed
<1>7. CallLive(q, open, next, ds, 0)
  BY <1>1, <1>2, <1>3, <1>4 DEF CallLive
<1>8. Settled(q, open, ds, 0)
  BY <1>1, <1>2 DEF Settled, Held
<1> QED BY <1>1, <1>6, <1>7, <1>8 DEF Items, ds

(* The next call to be closed was never announced.                         *)
LEMMA ItemsSkipCall ==
  ASSUME NEW q, NEW open, NEW next, NEW cs, NEW n, Items(q, open, next, cs, n),
         n + 1 \in 1..Len(cs), ~cs[n + 1].announced
  PROVE  Items(q, open, next, cs, n + 1)
<1>1. /\ IsSeq(q) /\ Typed(open, next, cs, n) /\ Bracketed(q) /\ Fresh(q, next)
      /\ TextLive(q, open, next) /\ CallLive(q, open, next, cs, n) /\ Settled(q, open, cs, n)
  BY DEF Items
<1>2. Len(cs) \in Nat /\ n \in 0..Len(cs)
  BY <1>1, SeqFacts DEF Typed
<1>3. n + 1 \in 0..Len(cs) /\ \A m \in (n + 1 + 1)..Len(cs) : m \in (n + 1)..Len(cs) /\ m # n + 1
  BY <1>2
<1>4. \A m \in (n + 1)..Len(cs) : m # n + 1 => m \in (n + 1 + 1)..Len(cs)
  BY <1>2
<1>5. Typed(open, next, cs, n + 1)
  BY <1>1, <1>3 DEF Typed
<1>6. CallLive(q, open, next, cs, n + 1)
  BY <1>1, <1>3 DEF CallLive
<1>7. Settled(q, open, cs, n + 1)
  BY <1>1, <1>4 DEF Settled, Held
<1> QED BY <1>1, <1>5, <1>6, <1>7 DEF Items

(* The next announced call is closed.                                      *)
LEMMA ItemsCloseCall ==
  ASSUME NEW q, NEW open, NEW next, NEW cs, NEW n, Items(q, open, next, cs, n),
         n + 1 \in 1..Len(cs), cs[n + 1].announced,
         NEW e, Closes(e, cs[n + 1].index), e.body.type = CallType(cs[n + 1]),
         e.body.id = cs[n + 1].id
  PROVE  Items(Append(q, e), open, next, cs, n + 1)
<1> DEFINE t == Append(q, e)
           i == cs[n + 1].index
<1>1. /\ IsSeq(q) /\ Typed(open, next, cs, n) /\ Bracketed(q) /\ Fresh(q, next)
      /\ TextLive(q, open, next) /\ CallLive(q, open, next, cs, n) /\ Settled(q, open, cs, n)
      /\ next \in Nat
  BY DEF Items, Typed
<1>2. Len(cs) \in Nat /\ n \in 0..Len(cs) /\ n + 1 \in (n + 1)..Len(cs)
  BY <1>1, SeqFacts DEF Typed
<1>3. /\ n + 1 \in 0..Len(cs)
      /\ \A m \in (n + 1 + 1)..Len(cs) : m \in (n + 1)..Len(cs) /\ m # n + 1
      /\ \A m \in (n + 1)..Len(cs) : m # n + 1 => m \in (n + 1 + 1)..Len(cs)
  BY <1>2
<1>4. i \in Nat /\ cs[n + 1].id # <<>>
  BY <1>1, <1>2, CallFacts
<1>5. /\ i < next /\ Live(q, i, CallType(cs[n + 1]), cs[n + 1].id)
      /\ \A k \in TextKinds : open[k] # None => open[k].index # i
      /\ \A l \in (n + 1)..Len(cs) : cs[l].id # <<>> /\ cs[l].index = i => l = n + 1
  BY <1>1, <1>2, <1>4 DEF CallLive
<1>6. e.type = "item.done" /\ e.index = i /\ \A j : j # i => ~Closes(e, j)
  BY DEF Closes
<1>7. Bracketed(t)
  BY <1>1, <1>5, <1>6, BracketClose
<1>8. /\ IsSeq(t) /\ Len(q) \in Nat /\ Len(t) = Len(q) + 1 /\ (\A p \in 1..Len(q) : t[p] = q[p])
      /\ t[Len(q) + 1] = e /\ 1..Len(t) = 1..Len(q) \cup {Len(q) + 1}
  BY <1>1, AppendFacts
<1>9. /\ \A j, type, id : Live(q, j, type, id) /\ j # i => Live(t, j, type, id)
      /\ \A j : Unused(q, j) /\ i # j => Unused(t, j)
  BY <1>1, <1>6, OthersStay
<1>10. \A m \in (n + 1)..Len(cs) : cs[m].announced => cs[m].id # <<>>
  BY <1>1, CallFacts
<1> HIDE DEF t, i
<1>11. Typed(open, next, cs, n + 1)
  BY <1>1, <1>3 DEF Typed
<1>12. Fresh(t, next)
  BY <1>1, <1>4, <1>5, <1>9 DEF Fresh
<1>13. TextLive(t, open, next)
  BY <1>1, <1>5, <1>9 DEF TextLive
<1>14. CallLive(t, open, next, cs, n + 1)
  <2> SUFFICES ASSUME NEW m \in (n + 1 + 1)..Len(cs), cs[m].id # <<>>
               PROVE  /\ cs[m].index < next
                      /\ \A k \in TextKinds : open[k] # None => open[k].index # cs[m].index
                      /\ \A l \in (n + 1 + 1)..Len(cs) :
                           cs[l].id # <<>> /\ cs[l].index = cs[m].index => l = m
                      /\ IF cs[m].announced THEN Live(t, cs[m].index, CallType(cs[m]), cs[m].id)
                         ELSE Unused(t, cs[m].index)
    BY DEF CallLive
  <2>1. m \in (n + 1)..Len(cs) /\ cs[m].index # i
    BY <1>3, <1>5
  <2> QED BY <1>1, <1>3, <1>9, <2>1 DEF CallLive
<1>15. Settled(t, open, cs, n + 1)
  <2> SUFFICES ASSUME NEW p \in 1..Len(t), t[p].type = "item.added",
                      ~\E r \in 1..Len(t) : Closes(t[r], t[p].index)
               PROVE  Held(open, cs, n + 1, t[p].index)
    BY DEF Settled
  <2>1. p \in 1..Len(q) /\ t[p] = q[p]
    BY <1>6, <1>8
  <2>2. ~\E r \in 1..Len(q) : Closes(q[r], q[p].index)
    BY <1>8, <2>1
  <2>3. Held(open, cs, n, q[p].index) /\ q[p].index # i
    BY <1>1, <1>6, <1>8, <2>1, <2>2 DEF Settled, Closes
  <2> QED BY <1>3, <2>1, <2>3 DEF Held, i
<1> QED BY <1>7, <1>8, <1>11, <1>12, <1>13, <1>14, <1>15 DEF Items, t

(* Nothing in hand: every announced item was closed.                       *)
LEMMA ItemsAllClosed ==
  ASSUME NEW q, NEW open, NEW next, NEW cs, NEW n, Items(q, open, next, cs, n),
         \A k \in TextKinds : open[k] = None, n = Len(cs)
  PROVE  /\ \A p \in 1..Len(q) : q[p].type = "item.added" =>
              \E r \in 1..Len(q) : Closes(q[r], q[p].index)
         /\ Items(q, open, next, <<>>, 0)
<1>1. /\ IsSeq(q) /\ Typed(open, next, cs, n) /\ Bracketed(q) /\ Fresh(q, next)
      /\ TextLive(q, open, next) /\ Settled(q, open, cs, n) /\ Len(cs) \in Nat
  BY SeqFacts DEF Items, Typed
<1>2. \A i : ~Held(open, cs, n, i)
  BY <1>1 DEF Held
<1>3. <<>> \in Seq({}) /\ Len(<<>>) = 0
  OBVIOUS
<1>4. IsSeq(<<>>) /\ Len(<<>>) = 0
  BY <1>3 DEF IsSeq
<1>5. Typed(open, next, <<>>, 0)
  BY <1>1, <1>4 DEF Typed
<1>6. CallLive(q, open, next, <<>>, 0)
  BY <1>4 DEF CallLive
<1>7. Settled(q, open, <<>>, 0)
  BY <1>1, <1>2 DEF Settled
<1> QED BY <1>1, <1>2, <1>5, <1>6, <1>7 DEF Items, Settled
-----------------------------------------------------------------------------
(* What the deltas of an item add up to, after one more event.             *)
LEMMA StreamedAppend ==
  ASSUME NEW q, IsSeq(q), NEW x, NEW i
  PROVE  /\ x.type \in DeltaTypes /\ x.index = i /\ IsSeq(x.body) =>
              StreamedTo(Append(q, x), i) = StreamedTo(q, i) \o x.body
         /\ (x.type \notin DeltaTypes \/ x.index # i) /\ IsSeq(StreamedTo(q, i)) =>
              StreamedTo(Append(q, x), i) = StreamedTo(q, i)
<1> DEFINE Piece(e) == IF e.type \in DeltaTypes /\ e.index = i THEN e.body ELSE <<>>
           b == [p \in 1..Len(q) |-> Piece(q[p])]
           r == Append(q, x)
           c == [p \in 1..Len(r) |-> Piece(r[p])]
<1>1. /\ Len(q) \in Nat /\ Len(r) = Len(q) + 1 /\ (\A p \in 1..Len(q) : r[p] = q[p])
      /\ r[Len(q) + 1] = x
  BY AppendFacts
<1>2. StreamedTo(q, i) = FlattenSeq(b) /\ StreamedTo(r, i) = FlattenSeq(c)
  BY DEF StreamedTo
<1> HIDE DEF Piece, r
<1>3. b \in Seq({Piece(q[p]) : p \in 1..Len(q)}) /\ Len(b) = Len(q)
  BY <1>1
<1>4. c \in Seq({Piece(r[p]) : p \in 1..Len(r)}) /\ Len(c) = Len(q) + 1
  BY <1>1
<1>5. /\ \A p \in 1..Len(q) : c[p] = b[p]
      /\ c[Len(q) + 1] = Piece(x)
  BY <1>1
<1> HIDE DEF b, c
<1>6. c = Append(b, Piece(x))
  <2>1. IsSeq(b) /\ IsSeq(c)
    BY <1>3, <1>4 DEF IsSeq
  <2> QED BY <1>3, <1>4, <1>5, <2>1, OneMore
<1>7. IsSeq(Piece(x)) => StreamedTo(r, i) = StreamedTo(q, i) \o Piece(x)
  <2>1. IsSeq(b)
    BY <1>3 DEF IsSeq
  <2> QED BY <1>2, <1>6, <2>1, FlattenAppend
<1>8. /\ x.type \in DeltaTypes /\ x.index = i => Piece(x) = x.body
      /\ x.type \notin DeltaTypes \/ x.index # i => Piece(x) = <<>>
  BY DEF Piece
<1> QED BY <1>7, <1>8, EmptyFacts DEF r

(* The same for the deltas of a kind of text.                             *)
LEMMA HeardAppend ==
  ASSUME NEW q, IsSeq(q), NEW x, NEW k
  PROVE  /\ x.type = TextEvents[k].delta /\ IsSeq(x.body) =>
              HeardIn(Append(q, x), k) = HeardIn(q, k) \o x.body
         /\ x.type # TextEvents[k].delta /\ IsSeq(HeardIn(q, k)) =>
              HeardIn(Append(q, x), k) = HeardIn(q, k)
<1> DEFINE Piece(e) == IF e.type = TextEvents[k].delta THEN e.body ELSE <<>>
           b == [p \in 1..Len(q) |-> Piece(q[p])]
           r == Append(q, x)
           c == [p \in 1..Len(r) |-> Piece(r[p])]
<1>1. /\ Len(q) \in Nat /\ Len(r) = Len(q) + 1 /\ (\A p \in 1..Len(q) : r[p] = q[p])
      /\ r[Len(q) + 1] = x
  BY AppendFacts
<1>2. HeardIn(q, k) = FlattenSeq(b) /\ HeardIn(r, k) = FlattenSeq(c)
  BY DEF HeardIn
<1> HIDE DEF Piece, r
<1>3. b \in Seq({Piece(q[p]) : p \in 1..Len(q)}) /\ Len(b) = Len(q)
  BY <1>1
<1>4. c \in Seq({Piece(r[p]) : p \in 1..Len(r)}) /\ Len(c) = Len(q) + 1
  BY <1>1
<1>5. /\ \A p \in 1..Len(q) : c[p] = b[p]
      /\ c[Len(q) + 1] = Piece(x)
  BY <1>1
<1> HIDE DEF b, c
<1>6. c = Append(b, Piece(x))
  <2>1. IsSeq(b) /\ IsSeq(c)
    BY <1>3, <1>4 DEF IsSeq
  <2> QED BY <1>3, <1>4, <1>5, <2>1, OneMore
<1>7. IsSeq(Piece(x)) => HeardIn(r, k) = HeardIn(q, k) \o Piece(x)
  <2>1. IsSeq(b)
    BY <1>3 DEF IsSeq
  <2> QED BY <1>2, <1>6, <2>1, FlattenAppend
<1>8. /\ x.type = TextEvents[k].delta => Piece(x) = x.body
      /\ x.type # TextEvents[k].delta => Piece(x) = <<>>
  BY DEF Piece
<1> QED BY <1>7, <1>8, EmptyFacts DEF r

(* What the upstream has said, after one more frame.                      *)
LEMMA SaidAppend ==
  ASSUME NEW q, IsSeq(q), NEW x, NEW k
  PROVE  IsSeq(SaidBy(x, k)) => SaidIn(Append(q, x), k) = SaidIn(q, k) \o SaidBy(x, k)
<1> DEFINE Piece(e) == SaidBy(e, k)
           b == [p \in 1..Len(q) |-> Piece(q[p])]
           r == Append(q, x)
           c == [p \in 1..Len(r) |-> Piece(r[p])]
<1>1. /\ Len(q) \in Nat /\ Len(r) = Len(q) + 1 /\ (\A p \in 1..Len(q) : r[p] = q[p])
      /\ r[Len(q) + 1] = x
  BY AppendFacts
<1>2. SaidIn(q, k) = FlattenSeq(b) /\ SaidIn(r, k) = FlattenSeq(c)
  BY DEF SaidIn
<1> HIDE DEF Piece, r
<1>3. b \in Seq({Piece(q[p]) : p \in 1..Len(q)}) /\ Len(b) = Len(q)
  BY <1>1
<1>4. c \in Seq({Piece(r[p]) : p \in 1..Len(r)}) /\ Len(c) = Len(q) + 1
  BY <1>1
<1>5. /\ \A p \in 1..Len(q) : c[p] = b[p]
      /\ c[Len(q) + 1] = Piece(x)
  BY <1>1
<1> HIDE DEF b, c
<1>6. c = Append(b, Piece(x))
  <2>1. IsSeq(b) /\ IsSeq(c)
    BY <1>3, <1>4 DEF IsSeq
  <2> QED BY <1>3, <1>4, <1>5, <2>1, OneMore
<1>7. IsSeq(Piece(x)) => SaidIn(r, k) = SaidIn(q, k) \o Piece(x)
  <2>1. IsSeq(b)
    BY <1>3 DEF IsSeq
  <2> QED BY <1>2, <1>6, <2>1, FlattenAppend
<1> QED BY <1>7 DEF r, Piece

(* The items that closed are finitely many, and some of them came first.   *)
LEMMA ClosedFacts ==
  ASSUME NEW q, IsSeq(q)
  PROVE  /\ IsFiniteSet(ClosedIn(q)) /\ Cardinality(ClosedIn(q)) \in Nat
         /\ \A p \in ClosedIn(q) :
              Cardinality({r \in ClosedIn(q) : r <= p}) \in 1..Cardinality(ClosedIn(q))
<1>1. Len(q) \in Nat /\ ClosedIn(q) \subseteq 1..Len(q)
  BY SeqFacts DEF ClosedIn
<1>2. IsFiniteSet(ClosedIn(q)) /\ Cardinality(ClosedIn(q)) \in Nat
  <2>1. IsFiniteSet(1..Len(q))
    BY <1>1, FS_Interval
  <2>2. IsFiniteSet(ClosedIn(q))
    BY <1>1, <2>1, FS_Subset
  <2> QED BY <2>2, FS_CardinalityType
<1>3. ASSUME NEW p \in ClosedIn(q)
      PROVE  Cardinality({r \in ClosedIn(q) : r <= p}) \in 1..Cardinality(ClosedIn(q))
  <2> DEFINE R == {r \in ClosedIn(q) : r <= p}
  <2>1. R \subseteq ClosedIn(q) /\ p \in R
    BY <1>1
  <2> HIDE DEF R
  <2>2. IsFiniteSet(R) /\ Cardinality(R) <= Cardinality(ClosedIn(q))
    BY <1>2, <2>1, FS_Subset
  <2>3. Cardinality(R) \in Nat /\ Cardinality(R) # 0
    BY <2>1, <2>2, FS_CardinalityType, FS_EmptySet
  <2> QED BY <1>2, <2>2, <2>3 DEF R
<1> QED BY <1>2, <1>3

(* An event that closes nothing leaves the list as it is.                  *)
LEMMA ListsOther ==
  ASSUME NEW q, IsSeq(q), NEW output, Lists(output, q), NEW x, x.type # "item.done"
  PROVE  Lists(output, Append(q, x))
<1> DEFINE r == Append(q, x)
<1>1. /\ Len(q) \in Nat /\ Len(r) = Len(q) + 1 /\ (\A p \in 1..Len(q) : r[p] = q[p])
      /\ r[Len(q) + 1] = x
  BY AppendFacts
<1> HIDE DEF r
<1>2. ClosedIn(r) = ClosedIn(q) /\ \A p \in ClosedIn(q) : r[p] = q[p]
  BY <1>1 DEF ClosedIn
<1> QED BY <1>2 DEF Lists, r

(* One that closes an item puts it at the end.                             *)
LEMMA ListsClose ==
  ASSUME NEW q, IsSeq(q), NEW output, IsSeq(output), Lists(output, q),
         NEW x, x.type = "item.done"
  PROVE  Lists(Append(output, x.body), Append(q, x))
<1> DEFINE r == Append(q, x)
           l == Append(output, x.body)
           C == ClosedIn(q)
           last == Len(q) + 1
<1>1. /\ Len(q) \in Nat /\ Len(r) = Len(q) + 1 /\ (\A p \in 1..Len(q) : r[p] = q[p])
      /\ r[last] = x
  BY AppendFacts
<1>2. /\ Len(output) \in Nat /\ Len(l) = Len(output) + 1
      /\ (\A p \in 1..Len(output) : l[p] = output[p]) /\ l[Len(output) + 1] = x.body
  BY AppendFacts
<1> HIDE DEF r, l
<1>3. /\ IsFiniteSet(C) /\ Cardinality(C) \in Nat /\ Len(output) = Cardinality(C)
      /\ \A p \in C : Cardinality({u \in C : u <= p}) \in 1..Cardinality(C)
      /\ \A p \in C : output[Cardinality({u \in C : u <= p})] = q[p].body
  BY ClosedFacts DEF Lists
<1>4. /\ ClosedIn(r) = C \cup {last} /\ last \notin C /\ C \subseteq 1..Len(q)
      /\ \A p \in C : r[p] = q[p]
  BY <1>1 DEF ClosedIn
<1> HIDE DEF C
<1>5. Cardinality(ClosedIn(r)) = Len(output) + 1
  <2> HIDE DEF last
  <2>1. Cardinality(C \cup {last}) = Cardinality(C) + 1
    BY <1>3, <1>4, FS_AddElement
  <2> QED BY <1>3, <1>4, <2>1
<1>6. ASSUME NEW p \in C PROVE l[Cardinality({u \in ClosedIn(r) : u <= p})] = r[p].body
  <2>1. {u \in ClosedIn(r) : u <= p} = {u \in C : u <= p}
    BY <1>1, <1>4
  <2> DEFINE m == Cardinality({u \in C : u <= p})
  <2>2. m \in 1..Len(output) /\ output[m] = q[p].body
    BY <1>3
  <2> HIDE DEF m
  <2>3. l[m] = r[p].body
    BY <1>2, <1>4, <2>2
  <2> QED BY <2>1, <2>3 DEF m
<1>7. l[Cardinality({u \in ClosedIn(r) : u <= last})] = r[last].body
  <2>1. {u \in ClosedIn(r) : u <= last} = ClosedIn(r)
    <3>1. \A u \in 1..Len(q) : u <= last
      BY <1>1
    <3>2. last <= last
      BY <1>1
    <3>3. \A u \in ClosedIn(r) : u <= last
      BY <1>4, <3>1, <3>2
    <3> QED BY <3>3
  <2> QED BY <1>1, <1>2, <1>5, <2>1
<1>8. \A p \in ClosedIn(r) : l[Cardinality({u \in ClosedIn(r) : u <= p})] = r[p].body
  BY <1>4, <1>6, <1>7
<1>9. Len(l) = Cardinality(ClosedIn(r))
  BY <1>2, <1>5
<1>10. Lists(l, r)
  BY <1>8, <1>9 DEF Lists
<1> QED BY <1>10 DEF l, r
-----------------------------------------------------------------------------
(* What was told of an item: the text ends with it, or is it.              *)
Ends(text, all) == IsSeq(text) /\ \E pre : IsSeq(pre) /\ all = pre \o text
Matches(item, text) ==
  IF item.type = "function_call" THEN Ends(text, item.payload)
  ELSE text = IF item.type \in TextKinds THEN item.text ELSE item.payload

(* What was told so far: of an item that is not known yet nothing, of one  *)
(* that closed what it was closed with, and of each kind of text h.        *)
Known(q, h) ==
  /\ \A i \in Nat : IsSeq(StreamedTo(q, i)) /\ (Unused(q, i) => StreamedTo(q, i) = <<>>)
  /\ \A p \in 1..Len(q) : q[p].type = "item.done" =>
       q[p].index \in Nat /\ Matches(q[p].body, StreamedTo(q, q[p].index))
  /\ \A k \in TextKinds : IsSeq(h[k]) /\ HeardIn(q, k) = h[k]

(* Of the items in hand, as much as the synthesizer holds of them.         *)
CallTold(q, c) ==
  /\ IsSeq(c.arguments)
  /\ c.announced => IF c.freeform THEN StreamedTo(q, c.index) = <<>>
                    ELSE Ends(StreamedTo(q, c.index), c.arguments)
InHand(q, open, cs, n) ==
  /\ \A k \in TextKinds : open[k] # None => StreamedTo(q, open[k].index) = open[k].text
  /\ \A m \in (n + 1)..Len(cs) : CallTold(q, cs[m])

(* The deltas are different from the other events, and from each other.    *)
LEMMA DeltasApart ==
  /\ \A k \in TextKinds : {TextEvents[k].added, TextEvents[k].text, TextEvents[k].part}
                          \cap DeltaTypes = {}
  /\ \A k \in TextKinds : TextEvents[k].delta \in DeltaTypes
  /\ \A k \in TextKinds : TextEvents[k].delta \notin {"arguments.delta", "input.delta"}
  /\ \A k, l \in TextKinds : TextEvents[k].delta = TextEvents[l].delta => k = l
  /\ {"arguments.delta", "input.delta"} \subseteq DeltaTypes
  /\ {"arguments.done", "input.done", "item.added", "item.done", "created", "in_progress",
      "completed", "incomplete", "error"} \cap DeltaTypes = {}
BY DEF DeltaTypes, TextEvents, TextKinds

(* An event that is not a delta adds no text.                              *)
LEMMA KnownOther ==
  ASSUME NEW q, NEW h, IsSeq(q), Known(q, h), NEW x, x.type \notin DeltaTypes,
         x.type = "item.done" => x.index \in Nat /\ Matches(x.body, StreamedTo(q, x.index))
  PROVE  /\ Known(Append(q, x), h)
         /\ \A i \in Nat : StreamedTo(Append(q, x), i) = StreamedTo(q, i)
<1> DEFINE r == Append(q, x)
<1>1. /\ Len(q) \in Nat /\ Len(r) = Len(q) + 1 /\ (\A p \in 1..Len(q) : r[p] = q[p])
      /\ r[Len(q) + 1] = x
  BY AppendFacts
<1>2. \A i \in Nat : StreamedTo(r, i) = StreamedTo(q, i)
  BY StreamedAppend DEF Known
<1>3. ASSUME NEW k \in TextKinds PROVE IsSeq(h[k]) /\ HeardIn(r, k) = h[k]
  <2>1. x.type # TextEvents[k].delta
    BY DEF DeltaTypes
  <2>2. IsSeq(h[k]) /\ HeardIn(q, k) = h[k]
    BY DEF Known
  <2> QED BY <2>1, <2>2, HeardAppend
<1> HIDE DEF r
<1>4. \A i \in Nat : IsSeq(StreamedTo(r, i)) /\ (Unused(r, i) => StreamedTo(r, i) = <<>>)
  <2>1. \A i : Unused(r, i) => Unused(q, i)
    BY <1>1 DEF Unused
  <2> QED BY <1>2, <2>1 DEF Known
<1>5. ASSUME NEW p \in 1..Len(r), r[p].type = "item.done"
      PROVE  r[p].index \in Nat /\ Matches(r[p].body, StreamedTo(r, r[p].index))
  <2>1. CASE p \in 1..Len(q)
    BY <1>1, <1>2, <1>5, <2>1 DEF Known
  <2>2. CASE p = Len(q) + 1
    BY <1>1, <1>2, <1>5, <2>2
  <2> QED BY <1>1, <2>1, <2>2
<1>6. Known(r, h)
  BY <1>3, <1>4, <1>5 DEF Known
<1> QED BY <1>2, <1>6 DEF r

(* A delta adds its own to its item, and to its kind of text.              *)
NotClosed(q, i) == \A p \in 1..Len(q) : ~Closes(q[p], i)
Says(g, h, x) ==
  \A k \in TextKinds : g[k] = IF x.type = TextEvents[k].delta THEN h[k] \o x.body ELSE h[k]

(* What it adds.                                                           *)
LEMMA KnownDelta ==
  ASSUME NEW q, NEW h, IsSeq(q), Known(q, h), NEW x, x.type \in DeltaTypes, x.index \in Nat,
         IsSeq(x.body), NotClosed(q, x.index), NEW g, Says(g, h, x)
  PROVE  /\ Known(Append(q, x), g)
         /\ StreamedTo(Append(q, x), x.index) = StreamedTo(q, x.index) \o x.body
         /\ \A i \in Nat : i # x.index => StreamedTo(Append(q, x), i) = StreamedTo(q, i)
<1> DEFINE r == Append(q, x)
<1>1. /\ Len(q) \in Nat /\ Len(r) = Len(q) + 1 /\ (\A p \in 1..Len(q) : r[p] = q[p])
      /\ r[Len(q) + 1] = x
  BY AppendFacts
<1>2. /\ StreamedTo(r, x.index) = StreamedTo(q, x.index) \o x.body
      /\ \A i \in Nat : i # x.index => StreamedTo(r, i) = StreamedTo(q, i)
  <2>1. \A i \in Nat : IsSeq(StreamedTo(q, i))
    BY DEF Known
  <2>2. StreamedTo(r, x.index) = StreamedTo(q, x.index) \o x.body
    BY StreamedAppend
  <2>3. ASSUME NEW i \in Nat, i # x.index PROVE StreamedTo(r, i) = StreamedTo(q, i)
    BY <2>1, <2>3, StreamedAppend
  <2> QED BY <2>2, <2>3
<1>3. ASSUME NEW k \in TextKinds PROVE IsSeq(g[k]) /\ HeardIn(r, k) = g[k]
  <2>1. IsSeq(h[k]) /\ HeardIn(q, k) = h[k]
    BY DEF Known
  <2>2. CASE x.type = TextEvents[k].delta
    <3>1. IsSeq(h[k] \o x.body)
      BY <2>1, ConcatFacts
    <3>2. HeardIn(r, k) = HeardIn(q, k) \o x.body
      BY <2>2, HeardAppend
    <3>3. g[k] = h[k] \o x.body
      BY <2>2 DEF Says
    <3> QED BY <2>1, <3>1, <3>2, <3>3
  <2>3. CASE x.type # TextEvents[k].delta
    <3>1. HeardIn(r, k) = HeardIn(q, k)
      BY <2>1, <2>3, HeardAppend
    <3>2. g[k] = h[k]
      BY <2>3 DEF Says
    <3> QED BY <2>1, <3>1, <3>2
  <2> QED BY <2>2, <2>3
<1> HIDE DEF r
<1>4. ASSUME NEW i \in Nat
      PROVE  IsSeq(StreamedTo(r, i)) /\ (Unused(r, i) => StreamedTo(r, i) = <<>>)
  <2>1. IsSeq(StreamedTo(q, i)) /\ (Unused(q, i) => StreamedTo(q, i) = <<>>)
    BY DEF Known
  <2>2. Unused(r, i) => Unused(q, i) /\ i # x.index
    BY <1>1 DEF Unused
  <2>3. IsSeq(StreamedTo(r, i))
    <3>1. IsSeq(StreamedTo(q, i) \o x.body)
      BY <2>1, ConcatFacts
    <3> QED BY <1>2, <2>1, <3>1
  <2> QED BY <1>2, <2>1, <2>2, <2>3
<1>5. ASSUME NEW p \in 1..Len(r), r[p].type = "item.done"
      PROVE  r[p].index \in Nat /\ Matches(r[p].body, StreamedTo(r, r[p].index))
  <2>1. p \in 1..Len(q) /\ r[p] = q[p]
    BY <1>1, <1>5, TypesApart DEF StreamTypes
  <2>2. q[p].index # x.index
    BY <1>5, <2>1 DEF Closes, NotClosed
  <2> QED BY <1>2, <1>5, <2>1, <2>2 DEF Known
<1>6. Known(r, g)
  BY <1>3, <1>4, <1>5 DEF Known
<1> QED BY <1>2, <1>6 DEF r

(* All of it.                                                              *)
Exact(q, open, cs, n, h) == Known(q, h) /\ InHand(q, open, cs, n)

(* An event that is not a delta changes none of it.                        *)
LEMMA ExactOther ==
  ASSUME NEW q, NEW open, NEW next, NEW cs, NEW n, NEW h, IsSeq(q), Typed(open, next, cs, n),
         Exact(q, open, cs, n, h), NEW x, x.type \notin DeltaTypes,
         x.type = "item.done" => x.index \in Nat /\ Matches(x.body, StreamedTo(q, x.index))
  PROVE  /\ Exact(Append(q, x), open, cs, n, h)
         /\ \A i \in Nat : StreamedTo(Append(q, x), i) = StreamedTo(q, i)
<1> DEFINE r == Append(q, x)
<1>1. Known(r, h) /\ \A i \in Nat : StreamedTo(r, i) = StreamedTo(q, i)
  BY KnownOther DEF Exact
<1> HIDE DEF r
<1>2. \A k \in TextKinds : open[k] # None => open[k].index \in Nat
  BY TextItemFacts DEF Typed
<1>3. \A m \in (n + 1)..Len(cs) : cs[m].index \in Nat
  BY CallFacts
<1>4. InHand(r, open, cs, n)
  BY <1>1, <1>2, <1>3 DEF Exact, InHand, CallTold
<1> QED BY <1>1, <1>4 DEF Exact, r

(* A call in hand changes.                                                 *)
LEMMA ExactCall ==
  ASSUME NEW q, NEW open, NEW next, NEW cs, NEW n, NEW h, Typed(open, next, cs, n),
         Exact(q, open, cs, n, h), NEW i \in 1..Len(cs), NEW c, IsCall(c), CallTold(q, c)
  PROVE  Exact(q, open, [cs EXCEPT ![i] = c], n, h)
<1> DEFINE ds == [cs EXCEPT ![i] = c]
<1>0. Typed(open, next, cs, 0)
  BY SeqFacts DEF Typed
<1>1. /\ Len(ds) = Len(cs) /\ ds[i] = c /\ \A m \in 1..Len(cs) : m # i => ds[m] = cs[m]
  BY <1>0, ChangeCall
<1> HIDE DEF ds
<1>2. \A m \in (n + 1)..Len(cs) : m \in 1..Len(cs)
  BY CallFacts
<1>3. \A m \in (n + 1)..Len(ds) : CallTold(q, ds[m])
  BY <1>1, <1>2 DEF Exact, InHand
<1> QED BY <1>3 DEF Exact, InHand, ds

(* Concatenation is associative, and the end of a text stays its end.      *)
LEMMA EndsGrow ==
  ASSUME NEW text, NEW all, Ends(text, all), NEW more, IsSeq(more)
  PROVE  Ends(text \o more, all \o more) /\ IsSeq(all)
<1>1. PICK pre : IsSeq(pre) /\ all = pre \o text
  BY DEF Ends
<1>2. PICK S : pre \in Seq(S)
  BY <1>1 DEF IsSeq
<1>3. PICK T : text \in Seq(T)
  BY DEF Ends, IsSeq
<1>4. PICK U : more \in Seq(U)
  BY DEF IsSeq
<1> DEFINE V == S \cup T \cup U
<1>5. pre \in Seq(V) /\ text \in Seq(V) /\ more \in Seq(V)
  BY <1>2, <1>3, <1>4
<1> HIDE DEF V
<1>6. /\ pre \o text \in Seq(V) /\ text \o more \in Seq(V)
      /\ (pre \o text) \o more \in Seq(V) /\ pre \o (text \o more) \in Seq(V)
  BY <1>5
<1> DEFINE a == (pre \o text) \o more
           b == pre \o (text \o more)
<1>7. Len(a) = Len(b) /\ \A p \in 1..Len(a) : a[p] = b[p]
  BY <1>5
<1>8. a = b
  <2> HIDE DEF a, b
  <2>1. a \in Seq(V) /\ b \in Seq(V)
    BY <1>6 DEF a, b
  <2> QED BY <1>7, <2>1
<1>9. IsSeq(text \o more) /\ IsSeq(pre \o text)
  BY <1>6 DEF IsSeq
<1> QED BY <1>1, <1>8, <1>9 DEF Ends

(* Nothing at all is the end of any text.                                  *)
LEMMA EndsEmpty ==
  ASSUME NEW all, IsSeq(all)
  PROVE  Ends(<<>>, all)
BY EmptyFacts DEF Ends

(* The end of a text is a suffix of it.                                    *)
LEMMA EndsSuffix ==
  ASSUME NEW text, NEW all, Ends(text, all)
  PROVE  IsSuffix(text, all) /\ (all = <<>> => text = <<>>)
<1>1. PICK pre : IsSeq(pre) /\ all = pre \o text
  BY DEF Ends
<1>2. IsSeq(text)
  BY DEF Ends
<1>3. /\ Len(pre) \in Nat /\ Len(text) \in Nat /\ Len(all) = Len(pre) + Len(text) /\ IsSeq(all)
      /\ \A p \in 1..Len(text) : all[Len(pre) + p] = text[p]
  BY <1>1, <1>2, ConcatFacts, SeqFacts
<1>4. all = <<>> => text = <<>>
  BY <1>2, <1>3, SeqFacts
<1> DEFINE a == Reverse(text)
           b == Reverse(all)
<1>5. /\ Len(a) = Len(text) /\ Len(b) = Len(all)
      /\ \A p \in 1..Len(text) : a[p] = text[(Len(text) - p) + 1]
      /\ \A p \in 1..Len(all) : b[p] = all[(Len(all) - p) + 1]
  BY <1>3 DEF Reverse
<1> HIDE DEF a, b
<1>6. ASSUME NEW p \in 1..Len(text) PROVE a[p] = b[p]
  <2>1. /\ (Len(text) - p) + 1 \in 1..Len(text) /\ p \in 1..Len(all)
        /\ (Len(all) - p) + 1 = Len(pre) + ((Len(text) - p) + 1)
    BY <1>3
  <2> QED BY <1>3, <1>5, <2>1
<1>7. SubSeq(a, 1, Len(a)) = SubSeq(b, 1, Len(a))
  <2>1. \A p \in 1..Len(a) : a[p] = b[p]
    BY <1>5, <1>6
  <2>2. /\ SubSeq(a, 1, Len(a)) = [p \in 1..Len(a) |-> a[p]]
        /\ SubSeq(b, 1, Len(a)) = [p \in 1..Len(a) |-> b[p]]
    BY <1>3, <1>5
  <2> QED BY <2>1, <2>2
<1>8. IsSuffix(text, all)
  BY <1>3, <1>5, <1>7 DEF IsSuffix, IsPrefix, a, b
<1> QED BY <1>4, <1>8
-----------------------------------------------------------------------------
(* The synthesizer's state, and all it has told: o was given to the        *)
(* gateway, the rest is pending.                                           *)
StateFields ==
  {"responseId", "stem", "model", "buffer", "pending", "output", "calls", "open", "usage",
   "nextIndex", "sequence", "started", "finished", "terminated"}
IsState(s) == s = [f \in StateFields |-> s[f]]
Same(s, t, F) == \A f \in StateFields \ F : t[f] = s[f]

Good(e) == e.type # "error" => Gateway!ValidEvent(AsRead(e))

Told(o, s) ==
  /\ IsState(s) /\ IsSeq(o) /\ IsSeq(s.pending)
  /\ s.buffer \in Seq(Frames) /\ s.started \in BOOLEAN
  /\ s.started => s.stem \in Identifiers /\ s.responseId = <<"resp", s.stem>>
  /\ s.sequence = Len(o \o s.pending)
  /\ \A p \in 1..Len(o \o s.pending) :
       (o \o s.pending)[p].seq = p - 1 /\ Good((o \o s.pending)[p])

(* A response that goes on.                                                *)
Running(o, s) ==
  /\ Told(o, s) /\ s.terminated = FALSE /\ s.finished = FALSE
  /\ \A p \in 1..Len(o \o s.pending) : ~IsTerminal((o \o s.pending)[p])

(* With its items as they have to be, those that closed in its output.     *)
Base(o, s, cs, n) ==
  /\ Running(o, s) /\ Items(o \o s.pending, s.open, s.nextIndex, cs, n)
  /\ IsSeq(s.output) /\ Lists(s.output, o \o s.pending)

(* And with what it has told of them and of each kind of text, h.          *)
Work(o, s, cs, n, h) ==
  Base(o, s, cs, n) /\ Exact(o \o s.pending, s.open, cs, n, h)

(* Only the texts of h count.                                              *)
LEMMA WorkSays ==
  ASSUME NEW o, NEW s, NEW cs, NEW n, NEW h, Work(o, s, cs, n, h), NEW g,
         \A k \in TextKinds : g[k] = h[k]
  PROVE  Work(o, s, cs, n, g)
BY DEF Work, Exact, Known

(* The gateway accepts the events of an item.                              *)
LEMMA ItemEventGood ==
  ASSUME NEW e, NEW n \in Nat, e.type \in StreamTypes \cup {"item.added", "item.done"}
  PROVE  Good(Numbered(e, n)) /\ ~IsTerminal(Numbered(e, n))
<1> DEFINE x == Numbered(e, n)
<1>1. x.type = e.type /\ x.seq = n
  BY DEF Numbered
<1> HIDE DEF x
<1>2. x.type \notin TerminalTypes \cup ResponseTypes
  BY <1>1, TypesApart
<1>3. /\ AsRead(x).kind \in {"delta", "item", "plain"} /\ AsRead(x).seq = n
      /\ AsRead(x).shaped
  BY <1>1, <1>2 DEF AsRead, TerminalTypes, ResponseTypes
<1>4. Gateway!ValidEvent(AsRead(x))
  BY <1>3 DEF Gateway!ValidEvent, Gateway!KnownKinds, Gateway!MetadataKinds, Gateway!BadSeq,
              Gateway!WellShaped
<1> QED BY <1>2, <1>4 DEF Good, IsTerminal, x

(* And those of a response with an identifier of its own.                  *)
LEMMA ResponseEventGood ==
  ASSUME NEW e, NEW n \in Nat, e.type \in ResponseTypes, NEW stem \in Identifiers,
         e.body.id = <<"resp", stem>>
  PROVE  Good(Numbered(e, n))
<1> DEFINE x == Numbered(e, n)
<1>1. x.type = e.type /\ x.seq = n /\ x.body = e.body
  BY DEF Numbered
<1> HIDE DEF x
<1>2. x.body.id[2] = stem /\ x.body.id # <<>>
  BY <1>1
<1>3. SafeResponse(x.body.id) = "safe"
  BY <1>2 DEF SafeResponse
<1>4. x.type \notin DeltaTypes \cup {"item.added", "item.done", "error"}
  BY <1>1, TypesApart DEF ResponseTypes, StreamTypes
<1>5. /\ AsRead(x).kind \in {"created", "completed", "incomplete", "plain"} /\ AsRead(x).seq = n
      /\ AsRead(x).respId = "safe"
  BY <1>1, <1>3, <1>4 DEF AsRead, ResponseTypes
<1>6. Gateway!ValidEvent(AsRead(x))
  BY <1>5 DEF Gateway!ValidEvent, Gateway!KnownKinds, Gateway!MetadataKinds, Gateway!BadSeq,
              Gateway!WellShaped, Gateway!Safe
<1> QED BY <1>6 DEF Good, x

(* emit: one event more, numbered after the others.                        *)
LEMMA EmitOne ==
  ASSUME NEW o, NEW s, IsState(s), IsSeq(o), IsSeq(s.pending), s.sequence \in Nat, NEW e
  PROVE  /\ IsState(Emit(s, e)) /\ Same(s, Emit(s, e), {"pending", "sequence"})
         /\ IsSeq(Emit(s, e).pending) /\ Emit(s, e).sequence = s.sequence + 1
         /\ o \o Emit(s, e).pending = Append(o \o s.pending, Numbered(e, s.sequence))
<1> DEFINE x == Numbered(e, s.sequence)
           t == Emit(s, e)
<1>1. Len(<<e>>) = 1 /\ <<e>>[1] = e
  OBVIOUS
<1>2. [i \in 1..Len(<<e>>) |-> Numbered(<<e>>[i], s.sequence + i - 1)] = <<x>>
  <2>1. \A i \in 1..1 : Numbered(<<e>>[i], s.sequence + i - 1) = x
    <3> SUFFICES ASSUME NEW i \in 1..1 PROVE Numbered(<<e>>[i], s.sequence + i - 1) = x
      OBVIOUS
    <3>1. i = 1 /\ s.sequence + i - 1 = s.sequence
      OBVIOUS
    <3> QED BY <1>1, <3>1
  <2> HIDE DEF x
  <2>2. [i \in 1..1 |-> Numbered(<<e>>[i], s.sequence + i - 1)] = [i \in 1..1 |-> x]
    BY <2>1
  <2>3. [i \in 1..1 |-> x] = <<x>>
    OBVIOUS
  <2> QED BY <1>1, <2>2, <2>3
<1>3. t = [s EXCEPT !.pending = @ \o <<x>>, !.sequence = @ + 1]
  BY <1>1, <1>2 DEF Emit, EmitAll
<1> HIDE DEF x, t
<1>4. s.pending \o <<x>> = Append(s.pending, x)
  <2>1. PICK S : s.pending \in Seq(S)
    BY DEF IsSeq
  <2>2. s.pending \in Seq(S \cup {x}) /\ x \in S \cup {x}
    BY <2>1
  <2> QED BY <2>2
<1>5. /\ t.pending = Append(s.pending, x) /\ t.sequence = s.sequence + 1
      /\ IsState(t) /\ Same(s, t, {"pending", "sequence"})
  BY <1>3, <1>4 DEF IsState, StateFields, Same
<1>6. IsSeq(t.pending) /\ o \o t.pending = Append(o \o s.pending, x)
  <2>1. IsSeq(Append(s.pending, x))
    BY AppendFacts
  <2>2. o \o Append(s.pending, x) = Append(o \o s.pending, x)
    BY ConcatFacts
  <2> QED BY <1>5, <2>1, <2>2
<1> QED BY <1>5, <1>6 DEF x, t

(* Several events are emitted one after the other.                         *)
LEMMA EmitTwo ==
  ASSUME NEW s, IsState(s), IsSeq(s.pending), s.sequence \in Nat, NEW a, NEW b
  PROVE  EmitAll(s, <<a, b>>) = Emit(Emit(s, a), b)
<1> DEFINE x == Numbered(a, s.sequence)
           y == Numbered(b, s.sequence + 1)
           es == [i \in 1..Len(<<a, b>>) |-> Numbered(<<a, b>>[i], s.sequence + i - 1)]
           t == Emit(s, a)
<1>1. es = <<x, y>>
  <2>1. Len(<<a, b>>) = 2 /\ <<a, b>>[1] = a /\ <<a, b>>[2] = b
    OBVIOUS
  <2>2. s.sequence + 1 - 1 = s.sequence /\ s.sequence + 2 - 1 = s.sequence + 1
    OBVIOUS
  <2>3. es = [i \in 1..2 |-> IF i = 1 THEN x ELSE y]
    BY <2>1, <2>2
  <2> HIDE DEF x, y, es
  <2>4. [i \in 1..2 |-> IF i = 1 THEN x ELSE y] = <<x, y>>
    OBVIOUS
  <2> QED BY <2>3, <2>4
<1>2. EmitAll(s, <<a, b>>) = [s EXCEPT !.pending = @ \o es, !.sequence = @ + 2]
  BY DEF EmitAll
<1>3. /\ IsState(t) /\ Same(s, t, {"pending", "sequence"}) /\ IsSeq(t.pending)
      /\ t.sequence = s.sequence + 1 /\ <<>> \o t.pending = Append(<<>> \o s.pending, x)
  <2>1. <<>> \in Seq({})
    OBVIOUS
  <2> QED BY <2>1, EmitOne DEF IsSeq
<1>4. /\ IsState(Emit(t, b)) /\ Same(t, Emit(t, b), {"pending", "sequence"})
      /\ Emit(t, b).sequence = t.sequence + 1
      /\ <<>> \o Emit(t, b).pending = Append(<<>> \o t.pending, Numbered(b, t.sequence))
      /\ IsSeq(Emit(t, b).pending)
  <2>1. <<>> \in Seq({})
    OBVIOUS
  <2>2. IsSeq(<<>>)
    BY <2>1 DEF IsSeq
  <2> HIDE DEF t
  <2>3. t.sequence \in Nat
    BY <1>3
  <2> QED BY <1>3, <2>2, <2>3, EmitOne
<1>5. \A q : IsSeq(q) => <<>> \o q = q
  BY DEF IsSeq
<1> HIDE DEF x, es, t
<1>6. t.pending = Append(s.pending, x) /\ Emit(t, b).pending = Append(t.pending, y)
  BY <1>3, <1>4, <1>5
<1>7. s.pending \o <<x, y>> = Append(Append(s.pending, x), y)
  <2>1. PICK S : s.pending \in Seq(S)
    BY DEF IsSeq
  <2>2. s.pending \in Seq(S \cup {x, y}) /\ {x, y} \subseteq S \cup {x, y}
    BY <2>1
  <2> HIDE DEF y
  <2> QED BY <2>2
<1>8. /\ Emit(t, b).sequence = s.sequence + 2
      /\ Emit(t, b).pending = s.pending \o es
      /\ \A f \in StateFields \ {"pending", "sequence"} : Emit(t, b)[f] = s[f]
  BY <1>1, <1>3, <1>4, <1>6, <1>7 DEF Same
<1>9. Emit(t, b) = [s EXCEPT !.pending = @ \o es, !.sequence = @ + 2]
  <2> DEFINE u == Emit(t, b)
             v == [s EXCEPT !.pending = @ \o es, !.sequence = @ + 2]
  <2>1. u = [f \in StateFields |-> u[f]]
    BY <1>4 DEF IsState
  <2>2. v = [f \in StateFields |-> v[f]] /\ \A f \in StateFields : v[f] = u[f]
    <3> HIDE DEF u
    <3> QED BY <1>8 DEF IsState, StateFields, u
  <2> QED BY <2>1, <2>2
<1> QED BY <1>2, <1>9 DEF t

(* Three of them.                                                          *)
LEMMA EmitThree ==
  ASSUME NEW s, IsState(s), IsSeq(s.pending), s.sequence \in Nat, NEW a, NEW b, NEW c
  PROVE  EmitAll(s, <<a, b, c>>) = Emit(Emit(Emit(s, a), b), c)
<1> DEFINE x == Numbered(a, s.sequence)
           y == Numbered(b, s.sequence + 1)
           z == Numbered(c, s.sequence + 2)
           es == [i \in 1..Len(<<a, b, c>>) |-> Numbered(<<a, b, c>>[i], s.sequence + i - 1)]
           t == Emit(s, a)
           u == Emit(t, b)
           v == Emit(u, c)
           w == [s EXCEPT !.pending = @ \o es, !.sequence = @ + 3]
<1>1. es = <<x, y, z>>
  <2>1. Len(<<a, b, c>>) = 3 /\ <<a, b, c>>[1] = a /\ <<a, b, c>>[2] = b /\ <<a, b, c>>[3] = c
    OBVIOUS
  <2>2. /\ s.sequence + 1 - 1 = s.sequence /\ s.sequence + 2 - 1 = s.sequence + 1
        /\ s.sequence + 3 - 1 = s.sequence + 2
    OBVIOUS
  <2>3. es = [i \in 1..3 |-> IF i = 1 THEN x ELSE IF i = 2 THEN y ELSE z]
    BY <2>1, <2>2
  <2> HIDE DEF x, y, z, es
  <2>4. [i \in 1..3 |-> IF i = 1 THEN x ELSE IF i = 2 THEN y ELSE z] = <<x, y, z>>
    OBVIOUS
  <2> QED BY <2>3, <2>4
<1>2. EmitAll(s, <<a, b, c>>) = w
  BY DEF EmitAll
<1>3. IsSeq(<<>>) /\ \A q : IsSeq(q) => <<>> \o q = q
  <2>1. <<>> \in Seq({})
    OBVIOUS
  <2> QED BY <2>1 DEF IsSeq
<1>4. /\ IsState(t) /\ Same(s, t, {"pending", "sequence"}) /\ IsSeq(t.pending)
      /\ t.sequence = s.sequence + 1 /\ <<>> \o t.pending = Append(<<>> \o s.pending, x)
  BY <1>3, EmitOne
<1>5. t.sequence \in Nat
  BY <1>4
<1> HIDE DEF x, es, t
<1>6. /\ IsState(u) /\ Same(t, u, {"pending", "sequence"}) /\ IsSeq(u.pending)
      /\ u.sequence = t.sequence + 1 /\ <<>> \o u.pending = Append(<<>> \o t.pending, Numbered(b, t.sequence))
  BY <1>3, <1>4, <1>5, EmitOne
<1>7. u.sequence \in Nat /\ u.sequence = s.sequence + 2
  BY <1>4, <1>6
<1> HIDE DEF u
<1>8. /\ IsState(v) /\ Same(u, v, {"pending", "sequence"}) /\ IsSeq(v.pending)
      /\ v.sequence = u.sequence + 1 /\ <<>> \o v.pending = Append(<<>> \o u.pending, Numbered(c, u.sequence))
  <2>1. IsState(u) /\ IsSeq(u.pending) /\ u.sequence \in Nat /\ IsSeq(<<>>)
    BY <1>3, <1>6, <1>7
  <2> QED BY <2>1, EmitOne
<1> HIDE DEF v
<1>9. v.pending = Append(Append(Append(s.pending, x), y), z)
  BY <1>3, <1>4, <1>6, <1>7, <1>8
<1>10. s.pending \o <<x, y, z>> = Append(Append(Append(s.pending, x), y), z)
  BY ConcatThree
<1>11. /\ v.sequence = s.sequence + 3 /\ v.pending = s.pending \o es
       /\ \A f \in StateFields \ {"pending", "sequence"} : v[f] = s[f]
  <2>1. v.sequence = s.sequence + 3
    BY <1>7, <1>8
  <2>2. v.pending = s.pending \o es
    BY <1>1, <1>9, <1>10
  <2>3. \A f \in StateFields \ {"pending", "sequence"} : v[f] = s[f]
    BY <1>4, <1>6, <1>8 DEF Same
  <2> QED BY <2>1, <2>2, <2>3
<1>12. v = [f \in StateFields |-> v[f]]
  BY <1>8 DEF IsState
<1>13. w = [f \in StateFields |-> w[f]] /\ \A f \in StateFields : w[f] = v[f]
  BY <1>11 DEF IsState, StateFields
<1> QED BY <1>2, <1>12, <1>13 DEF t, u, v

(* A response that goes on tells one thing more.                           *)
LEMMA RunEmit ==
  ASSUME NEW o, NEW s, Running(o, s), NEW e,
         Good(Numbered(e, s.sequence)), e.type \notin TerminalTypes
  PROVE  /\ Running(o, Emit(s, e)) /\ Same(s, Emit(s, e), {"pending", "sequence"})
         /\ s.sequence \in Nat /\ IsState(s) /\ IsSeq(s.pending)
         /\ o \o Emit(s, e).pending = Append(o \o s.pending, Numbered(e, s.sequence))
<1> DEFINE t == Emit(s, e)
           q == o \o s.pending
           x == Numbered(e, s.sequence)
<1>1. IsState(s) /\ IsSeq(o) /\ IsSeq(s.pending)
  BY DEF Running, Told
<1>2. IsSeq(q) /\ Len(q) \in Nat /\ s.sequence = Len(q)
  BY <1>1, ConcatFacts, SeqFacts DEF Running, Told
<1>3. /\ IsState(t) /\ Same(s, t, {"pending", "sequence"}) /\ IsSeq(t.pending)
      /\ t.sequence = s.sequence + 1 /\ o \o t.pending = Append(q, x)
  BY <1>1, <1>2, EmitOne
<1>4. /\ Len(Append(q, x)) = Len(q) + 1 /\ \A p \in 1..Len(q) : Append(q, x)[p] = q[p]
      /\ Append(q, x)[Len(q) + 1] = x
  BY <1>2, AppendFacts
<1>5. x.seq = s.sequence /\ x.type = e.type /\ Good(x)
  BY DEF Numbered
<1>6. /\ \A p \in 1..Len(q) : q[p].seq = p - 1 /\ Good(q[p]) /\ ~IsTerminal(q[p])
      /\ s.terminated = FALSE /\ s.finished = FALSE /\ s.started \in BOOLEAN
      /\ s.buffer \in Seq(Frames)
      /\ s.started => s.stem \in Identifiers /\ s.responseId = <<"resp", s.stem>>
  BY DEF Running, Told
<1>7. /\ t.terminated = FALSE /\ t.finished = FALSE /\ t.started \in BOOLEAN
      /\ t.buffer \in Seq(Frames)
      /\ t.started => t.stem \in Identifiers /\ t.responseId = <<"resp", t.stem>>
  BY <1>3, <1>6 DEF Same, StateFields
<1> HIDE DEF t, q, x
<1>8. \A p \in 1..Len(Append(q, x)) :
        Append(q, x)[p].seq = p - 1 /\ Good(Append(q, x)[p]) /\ ~IsTerminal(Append(q, x)[p])
  BY <1>2, <1>4, <1>5, <1>6 DEF IsTerminal
<1>9. Running(o, t)
  BY <1>1, <1>2, <1>3, <1>4, <1>7, <1>8 DEF Running, Told
<1> QED BY <1>1, <1>2, <1>3, <1>9 DEF t, q, x

(* What is told does not depend on the items in hand.                      *)
LEMMA RunChange ==
  ASSUME NEW o, NEW s, Running(o, s), NEW t, IsState(t),
         Same(s, t, {"model", "output", "calls", "open", "usage", "nextIndex"})
  PROVE  Running(o, t) /\ o \o t.pending = o \o s.pending
BY DEF Running, Told, Same, StateFields
-----------------------------------------------------------------------------
(* The methods of the state.  Each leaves a response that goes on, and its *)
(* items, as they have to be.                                              *)

(* The response tells something about an item.                             *)
LEMMA RunItem ==
  ASSUME NEW o, NEW s, Running(o, s), NEW e, e.type \in StreamTypes \cup {"item.added", "item.done"}
  PROVE  /\ Running(o, Emit(s, e)) /\ Same(s, Emit(s, e), {"pending", "sequence"})
         /\ o \o Emit(s, e).pending = Append(o \o s.pending, Numbered(e, s.sequence))
         /\ Numbered(e, s.sequence).type = e.type /\ Numbered(e, s.sequence).index = e.index
         /\ Numbered(e, s.sequence).body = e.body
         /\ s.sequence \in Nat /\ IsState(s) /\ IsSeq(s.pending) /\ IsState(Emit(s, e))
<1>1. IsState(s) /\ IsSeq(o) /\ IsSeq(s.pending) /\ s.sequence = Len(o \o s.pending)
  BY DEF Running, Told
<1>2. s.sequence \in Nat
  BY <1>1, ConcatFacts, SeqFacts
<1>3. Good(Numbered(e, s.sequence))
  BY <1>2, ItemEventGood
<1>4. e.type \notin TerminalTypes
  BY TypesApart
<1>5. /\ Running(o, Emit(s, e)) /\ Same(s, Emit(s, e), {"pending", "sequence"})
      /\ o \o Emit(s, e).pending = Append(o \o s.pending, Numbered(e, s.sequence))
  BY <1>3, <1>4, RunEmit
<1>6. IsState(Emit(s, e))
  BY <1>5 DEF Running, Told
<1> QED BY <1>1, <1>2, <1>5, <1>6 DEF Numbered

(* Something of an item in hand.                                           *)
LEMMA BaseStream ==
  ASSUME NEW o, NEW s, NEW cs, NEW n, Base(o, s, cs, n), NEW e, e.type \in StreamTypes,
         Held(s.open, cs, n, e.index)
  PROVE  /\ Base(o, Emit(s, e), cs, n) /\ Same(s, Emit(s, e), {"pending", "sequence"})
         /\ o \o Emit(s, e).pending = Append(o \o s.pending, Numbered(e, s.sequence))
         /\ Numbered(e, s.sequence).type = e.type /\ Numbered(e, s.sequence).index = e.index
         /\ Numbered(e, s.sequence).body = e.body
<1> DEFINE t == Emit(s, e)
           x == Numbered(e, s.sequence)
<1>1. /\ Running(o, s) /\ Items(o \o s.pending, s.open, s.nextIndex, cs, n)
      /\ IsSeq(s.output) /\ Lists(s.output, o \o s.pending)
  BY DEF Base
<1>2. /\ Running(o, t) /\ Same(s, t, {"pending", "sequence"})
      /\ o \o t.pending = Append(o \o s.pending, x) /\ x.type = e.type /\ x.index = e.index
      /\ x.body = e.body
  <2>1. e.type \in StreamTypes \cup {"item.added", "item.done"}
    OBVIOUS
  <2>2. Running(o, s)
    BY <1>1
  <2>3. /\ Running(o, Emit(s, e)) /\ Same(s, Emit(s, e), {"pending", "sequence"})
        /\ o \o Emit(s, e).pending = Append(o \o s.pending, Numbered(e, s.sequence))
        /\ Numbered(e, s.sequence).type = e.type /\ Numbered(e, s.sequence).index = e.index
        /\ Numbered(e, s.sequence).body = e.body
    BY <2>1, <2>2, RunItem, SMTT(40)
  <2> QED BY <2>3
<1> HIDE DEF t, x
<1>3. t.open = s.open /\ t.nextIndex = s.nextIndex /\ t.output = s.output
  BY <1>2 DEF Same, StateFields
<1>4. Streams(x) /\ Held(s.open, cs, n, x.index)
  BY <1>2 DEF Streams
<1>5. Items(Append(o \o s.pending, x), s.open, s.nextIndex, cs, n)
  BY <1>1, <1>4, ItemsStream
<1>6. Lists(s.output, Append(o \o s.pending, x))
  <2>1. x.type # "item.done" /\ IsSeq(o \o s.pending)
    BY <1>1, <1>2, TypesApart DEF Items
  <2> QED BY <1>1, <2>1, ListsOther
<1>7. Base(o, t, cs, n)
  BY <1>1, <1>2, <1>3, <1>5, <1>6 DEF Base
<1> QED BY <1>2, <1>7 DEF t, x

(* The end of its fragments.                                               *)
LEMMA WorkStream ==
  ASSUME NEW o, NEW s, NEW cs, NEW n, NEW h, Work(o, s, cs, n, h), NEW e,
         e.type \in StreamTypes, e.type \notin DeltaTypes, Held(s.open, cs, n, e.index)
  PROVE  Work(o, Emit(s, e), cs, n, h) /\ Same(s, Emit(s, e), {"pending", "sequence"})
<1> DEFINE t == Emit(s, e)
           x == Numbered(e, s.sequence)
<1>1. Base(o, s, cs, n) /\ Exact(o \o s.pending, s.open, cs, n, h)
  BY DEF Work
<1>2. /\ Base(o, t, cs, n) /\ Same(s, t, {"pending", "sequence"})
      /\ o \o t.pending = Append(o \o s.pending, x) /\ x.type = e.type
  BY <1>1, BaseStream
<1> HIDE DEF t, x
<1>3. t.open = s.open
  BY <1>2 DEF Same, StateFields
<1>4. x.type # "item.done" /\ IsSeq(o \o s.pending) /\ Typed(s.open, s.nextIndex, cs, n)
  BY <1>1, <1>2, TypesApart DEF Base, Items
<1>5. Exact(Append(o \o s.pending, x), s.open, cs, n, h)
  BY <1>1, <1>2, <1>4, ExactOther
<1> QED BY <1>2, <1>3, <1>5 DEF Work, t

(* close_reasoning and close_message.                                      *)
LEMMA WorkCloseText ==
  ASSUME NEW o, NEW s, NEW cs, NEW n, NEW h, Work(o, s, cs, n, h), NEW k \in TextKinds
  PROVE  /\ Work(o, CloseText(s, k), cs, n, h) /\ CloseText(s, k).open[k] = None
         /\ \A j \in TextKinds : s.open[j] = None => CloseText(s, k).open[j] = None
         /\ Same(s, CloseText(s, k), {"pending", "sequence", "open", "output"})
<1>1. CASE s.open[k] = None
  BY <1>1 DEF CloseText, Same
<1>2. CASE s.open[k] # None
  <2> DEFINE t == s.open[k]
             item == [type |-> k, id |-> t.id, text |-> t.text]
             a == Event(TextEvents[k].text, t.index, t.text)
             b == Event(TextEvents[k].part, t.index, t.text)
             c == Event("item.done", t.index, item)
             s1 == Emit(s, a)
             s2 == Emit(s1, b)
             s3 == Emit(s2, c)
             x == Numbered(c, s2.sequence)
             r == CloseText(s, k)
  <2>1. /\ a.type \in StreamTypes \ DeltaTypes /\ a.index = t.index
        /\ b.type \in StreamTypes \ DeltaTypes /\ b.index = t.index
        /\ c.type = "item.done" /\ c.index = t.index /\ c.body = item
    BY TypesApart, DeltasApart DEF Event
  <2>2. r = [EmitAll(s, <<a, b, c>>) EXCEPT !.open[k] = None, !.output = Append(@, item)]
    BY <1>2 DEF CloseText
  <2>3. Running(o, s) /\ IsState(s) /\ IsSeq(s.pending) /\ s.sequence \in Nat
    <3>1. Running(o, s)
      BY DEF Work, Base
    <3> QED BY <2>1, <3>1, RunItem
  <2>4. r = [s3 EXCEPT !.open[k] = None, !.output = Append(@, item)]
    <3> HIDE DEF a, b, c, item, t
    <3>1. EmitAll(s, <<a, b, c>>) = s3
      BY <2>3, EmitThree
    <3> QED BY <2>2, <3>1
  <2>5. Held(s.open, cs, n, t.index)
    BY <1>2 DEF Held
  <2>6. item.type = k /\ item.id = t.id /\ item.text = t.text
    OBVIOUS
  <2> HIDE DEF a, b, c, t, item, x, r
  <2>7. Work(o, s1, cs, n, h) /\ Same(s, s1, {"pending", "sequence"})
    BY <2>1, <2>5, WorkStream
  <2> HIDE DEF s1
  <2>8. s1.open = s.open
    BY <2>7 DEF Same, StateFields
  <2>9. Work(o, s2, cs, n, h) /\ Same(s1, s2, {"pending", "sequence"})
    BY <2>1, <2>5, <2>7, <2>8, WorkStream
  <2> HIDE DEF s2
  <2>10. s2.open = s.open
    BY <2>8, <2>9 DEF Same, StateFields
  <2> DEFINE q == o \o s2.pending
  <2>11. /\ Running(o, s2) /\ Items(q, s2.open, s2.nextIndex, cs, n)
         /\ IsSeq(s2.output) /\ Lists(s2.output, q) /\ Exact(q, s2.open, cs, n, h)
    BY <2>9 DEF Work, Base
  <2>12. /\ Running(o, s3) /\ Same(s2, s3, {"pending", "sequence"}) /\ IsState(s3)
         /\ o \o s3.pending = Append(q, x)
         /\ x.type = c.type /\ x.index = c.index /\ x.body = c.body
    <3>1. c.type \in StreamTypes \cup {"item.added", "item.done"}
      BY <2>1
    <3>2. Running(o, s2)
      BY <2>11
    <3> QED BY <3>1, <3>2, RunItem DEF x
  <2> HIDE DEF s3, q
  <2>13. Items(Append(q, x), [s2.open EXCEPT ![k] = None], s2.nextIndex, cs, n)
    <3>1. s2.open[k] # None /\ Closes(x, s2.open[k].index) /\ x.body.type = k /\ x.body.id = s2.open[k].id
      BY <1>2, <2>1, <2>6, <2>10, <2>12 DEF t, Closes
    <3> QED BY <2>11, <3>1, ItemsCloseText
  <2>14. s3.open = s2.open /\ s3.nextIndex = s2.nextIndex /\ s3.output = s2.output
    BY <2>12 DEF Same, StateFields
  <2>15. /\ IsState(r) /\ Same(s3, r, {"open", "output"}) /\ r.open = [s2.open EXCEPT ![k] = None]
         /\ r.output = Append(s2.output, item)
    BY <2>4, <2>12, <2>14 DEF IsState, Same, StateFields
  <2>16. Running(o, r) /\ o \o r.pending = o \o s3.pending
    <3>1. Same(s3, r, {"model", "output", "calls", "open", "usage", "nextIndex"})
      BY <2>15 DEF Same
    <3> QED BY <2>12, <2>15, <3>1, RunChange
  <2>17. r.nextIndex = s2.nextIndex
    BY <2>14, <2>15 DEF Same, StateFields
  <2>18. IsSeq(q) /\ Typed(s2.open, s2.nextIndex, cs, n)
         /\ s2.open \in [TextKinds -> TextItems \cup {None}]
    BY <2>11 DEF Items, Typed
  <2>19. IsSeq(r.output) /\ Lists(r.output, Append(q, x))
    <3>1. x.body = item /\ x.type = "item.done"
      BY <2>1, <2>12
    <3> QED BY <2>11, <2>15, <2>18, <3>1, ListsClose, AppendFacts
  <2>20. Base(o, r, cs, n)
    BY <2>12, <2>13, <2>15, <2>16, <2>17, <2>19 DEF Base
  <2>21. Exact(Append(q, x), s2.open, cs, n, h)
    <3>1. t.index \in Nat
      BY <1>2, <2>10, <2>18, TextItemFacts DEF t
    <3>2. StreamedTo(q, t.index) = t.text
      BY <1>2, <2>10, <2>11 DEF Exact, InHand, t
    <3>3. item.type \in TextKinds /\ item.type # "function_call"
      BY <2>6 DEF TextKinds
    <3>4. x.index \in Nat /\ Matches(x.body, StreamedTo(q, x.index))
      BY <2>1, <2>6, <2>12, <3>1, <3>2, <3>3 DEF Matches
    <3>5. x.type \notin DeltaTypes
      BY <2>1, <2>12, DeltasApart
    <3> QED BY <2>11, <2>18, <3>4, <3>5, ExactOther
  <2>22. /\ r.open[k] = None /\ \A j \in TextKinds : r.open[j] # None => r.open[j] = s2.open[j]
    BY <2>15, <2>18
  <2>23. Exact(Append(q, x), r.open, cs, n, h)
    BY <2>21, <2>22 DEF Exact, InHand
  <2>24. Work(o, r, cs, n, h)
    BY <2>12, <2>16, <2>20, <2>23 DEF Work
  <2>25. Same(s, r, {"pending", "sequence", "open", "output"})
    BY <2>7, <2>9, <2>12, <2>15 DEF Same
  <2>26. \A j \in TextKinds : s.open[j] = None => r.open[j] = None
    BY <2>10, <2>22
  <2> QED BY <2>22, <2>24, <2>25, <2>26 DEF r
<1> QED BY <1>1, <1>2

(* The first fragment of a text announces it, if no other text is open.    *)
LEMMA WorkOpenText ==
  ASSUME NEW o, NEW s, NEW cs, NEW n, NEW h, Work(o, s, cs, n, h), s.started,
         NEW k \in TextKinds, \A j \in TextKinds : j # k => s.open[j] = None
  PROVE  /\ Work(o, OpenText(s, k), cs, n, h) /\ OpenText(s, k).open[k] # None
         /\ Same(s, OpenText(s, k), {"pending", "sequence", "open", "nextIndex"})
<1>1. CASE s.open[k] # None
  BY <1>1 DEF OpenText, Same
<1>2. CASE s.open[k] = None
  <2> DEFINE id == ItemId(s, k, s.nextIndex)
             item == [id |-> id, index |-> s.nextIndex, text |-> <<>>]
             a == Event("item.added", s.nextIndex, [type |-> k, id |-> id, text |-> <<>>])
             b == Event(TextEvents[k].added, s.nextIndex, <<>>)
             s1 == Emit(s, a)
             s2 == Emit(s1, b)
             x == Numbered(a, s.sequence)
             y == Numbered(b, s1.sequence)
             r == OpenText(s, k)
  <2>1. /\ a.type = "item.added" /\ a.index = s.nextIndex /\ a.body.type = k /\ a.body.id = id
        /\ b.type \in StreamTypes \ DeltaTypes /\ b.index = s.nextIndex
    BY TypesApart, DeltasApart DEF Event
  <2>2. r = [EmitAll(s, <<a, b>>) EXCEPT !.nextIndex = @ + 1, !.open[k] = item]
    BY <1>2 DEF OpenText
  <2>3. Running(o, s) /\ Items(o \o s.pending, s.open, s.nextIndex, cs, n)
    BY DEF Work, Base
  <2>4. s.stem \in Identifiers /\ s.nextIndex \in Nat
    BY <2>3 DEF Running, Told, Items, Typed
  <2>5. item \in TextItems /\ item.index = s.nextIndex /\ item.id = id /\ item.text = <<>>
    <3>1. id \in ItemIds
      BY <2>4 DEF ItemIds, ItemId
    <3> HIDE DEF id
    <3> QED BY <2>4, <3>1 DEF TextItems
  <2> HIDE DEF a, b, id, item, x, y, r
  <2>6. /\ Running(o, s1) /\ Same(s, s1, {"pending", "sequence"}) /\ IsState(s1)
        /\ o \o s1.pending = Append(o \o s.pending, x)
        /\ x.type = a.type /\ x.index = a.index /\ x.body = a.body
        /\ s.sequence \in Nat /\ IsState(s) /\ IsSeq(s.pending)
    <3>1. a.type \in StreamTypes \cup {"item.added", "item.done"}
      BY <2>1
    <3>2. Running(o, s)
      BY <2>3
    <3>3. /\ Running(o, Emit(s, a)) /\ Same(s, Emit(s, a), {"pending", "sequence"})
          /\ IsState(Emit(s, a)) /\ s.sequence \in Nat /\ IsState(s) /\ IsSeq(s.pending)
          /\ o \o Emit(s, a).pending = Append(o \o s.pending, Numbered(a, s.sequence))
      BY <3>1, <3>2, RunItem
    <3>4. /\ Numbered(a, s.sequence).type = a.type /\ Numbered(a, s.sequence).index = a.index
          /\ Numbered(a, s.sequence).body = a.body
      BY <3>1, <3>2, RunItem
    <3> HIDE DEF s1
    <3>5. s1 = Emit(s, a) /\ x = Numbered(a, s.sequence)
      BY DEF s1, x
    <3> QED BY <3>3, <3>4, <3>5
  <2>7. EmitAll(s, <<a, b>>) = s2
    BY <2>6, EmitTwo
  <2> HIDE DEF s1
  <2>8. /\ Running(o, s2) /\ Same(s1, s2, {"pending", "sequence"}) /\ IsState(s2)
        /\ o \o s2.pending = Append(o \o s1.pending, y) /\ y.type = b.type /\ y.index = b.index
    <3>1. b.type \in StreamTypes \cup {"item.added", "item.done"}
      BY <2>1
    <3>2. Running(o, s1)
      BY <2>6
    <3>3. /\ Running(o, Emit(s1, b)) /\ Same(s1, Emit(s1, b), {"pending", "sequence"})
          /\ IsState(Emit(s1, b))
          /\ o \o Emit(s1, b).pending = Append(o \o s1.pending, Numbered(b, s1.sequence))
      BY <3>1, <3>2, RunItem
    <3>4. Numbered(b, s1.sequence).type = b.type /\ Numbered(b, s1.sequence).index = b.index
      BY DEF Numbered
    <3> QED BY <3>3, <3>4 DEF y
  <2> HIDE DEF s2
  <2>9. Items(Append(o \o s.pending, x), [s.open EXCEPT ![k] = item], s.nextIndex + 1, cs, n)
    <3>1. Adds(x, s.nextIndex) /\ x.body.type = k /\ x.body.id = item.id
      BY <2>1, <2>5, <2>6 DEF Adds
    <3>2. \A j \in TextKinds : s.open[j] = None
      BY <1>2
    <3> QED BY <2>3, <2>5, <3>1, <3>2, ItemsOpenText
  <2>10. s.open \in [TextKinds -> TextItems \cup {None}] /\ item # None
    BY <2>3, <2>5, ConstantsAssumption DEF Items, Typed
  <2>11. Items(o \o s2.pending, [s.open EXCEPT ![k] = item], s.nextIndex + 1, cs, n)
    <3>1. Held([s.open EXCEPT ![k] = item], cs, n, y.index) /\ Streams(y)
      BY <2>1, <2>5, <2>8, <2>10 DEF Held, Streams
    <3> QED BY <2>6, <2>8, <2>9, <3>1, ItemsStream
  <2>12. s2.open = s.open /\ s2.nextIndex = s.nextIndex /\ s2.output = s.output
    BY <2>6, <2>8 DEF Same, StateFields
  <2>13. /\ IsState(r) /\ Same(s2, r, {"open", "nextIndex"}) /\ r.open = [s.open EXCEPT ![k] = item]
         /\ r.nextIndex = s.nextIndex + 1 /\ r.output = s.output
    BY <2>2, <2>7, <2>8, <2>12 DEF IsState, Same, StateFields
  <2>14. Running(o, r) /\ o \o r.pending = o \o s2.pending
    <3>1. Same(s2, r, {"model", "output", "calls", "open", "usage", "nextIndex"})
      BY <2>13 DEF Same
    <3>2. Running(o, s2) /\ IsState(r)
      BY <2>8, <2>13
    <3> QED BY <3>1, <3>2, RunChange
  <2> DEFINE q == o \o s.pending
             v == Append(Append(q, x), y)
  <2>15. o \o r.pending = v
    BY <2>6, <2>8, <2>14
  <2>16. /\ IsSeq(q) /\ Typed(s.open, s.nextIndex, cs, n) /\ IsSeq(s.output) /\ Lists(s.output, q)
         /\ Exact(q, s.open, cs, n, h) /\ IsSeq(Append(q, x))
    BY <2>3, AppendFacts DEF Work, Base, Items
  <2>17. {x.type, y.type} \cap (DeltaTypes \cup {"item.done"}) = {}
    BY <2>1, <2>6, <2>8, DeltasApart, TypesApart
  <2> HIDE DEF q
  <2>18. Lists(s.output, v)
    BY <2>16, <2>17, ListsOther
  <2>19. Base(o, r, cs, n)
    BY <2>11, <2>13, <2>14, <2>15, <2>16, <2>18 DEF Base
  <2>20. /\ Exact(Append(q, x), s.open, cs, n, h)
         /\ \A i \in Nat : StreamedTo(Append(q, x), i) = StreamedTo(q, i)
    BY <2>16, <2>17, ExactOther
  <2>21. Exact(v, s.open, cs, n, h) /\ \A i \in Nat : StreamedTo(v, i) = StreamedTo(q, i)
    BY <2>16, <2>17, <2>20, ExactOther
  <2>22. StreamedTo(v, s.nextIndex) = <<>>
    <3>1. Unused(q, s.nextIndex)
      BY <2>3, <2>4 DEF Items, Fresh, q
    <3> QED BY <2>4, <2>16, <2>21, <3>1 DEF Exact, Known
  <2> HIDE DEF v
  <2>23. r.open[k] = item /\ r.open[k] # None /\ \A j \in TextKinds : j # k => r.open[j] = s.open[j]
    BY <2>10, <2>13
  <2>24. Exact(v, r.open, cs, n, h)
    BY <2>5, <2>21, <2>22, <2>23 DEF Exact, InHand
  <2>25. Work(o, r, cs, n, h)
    BY <2>15, <2>19, <2>24 DEF Work
  <2>26. Same(s, r, {"pending", "sequence", "open", "nextIndex"})
    BY <2>6, <2>8, <2>13 DEF Same
  <2> QED BY <2>23, <2>25, <2>26 DEF r
<1> QED BY <1>1, <1>2

(* One kind of text grows.                                                 *)
Grows(g, h, k, delta) == \A j \in TextKinds : g[j] = IF j = k THEN h[j] \o delta ELSE h[j]

(* A fragment of the open text.                                            *)
LEMMA WorkAppendText ==
  ASSUME NEW o, NEW s, NEW cs, NEW n, NEW h, Work(o, s, cs, n, h), NEW k \in TextKinds,
         s.open[k] # None, NEW delta \in Seq(Words), NEW g, Grows(g, h, k, delta)
  PROVE  /\ Work(o, AppendText(s, k, delta), cs, n, g)
         /\ Same(s, AppendText(s, k, delta), {"pending", "sequence", "open"})
<1> DEFINE item == [s.open[k] EXCEPT !.text = @ \o delta]
           t == [s EXCEPT !.open[k].text = @ \o delta]
           e == Event(TextEvents[k].delta, s.open[k].index, delta)
           r == Emit(t, e)
           x == Numbered(e, t.sequence)
           q == o \o s.pending
<1>1. /\ Running(o, s) /\ Items(q, s.open, s.nextIndex, cs, n) /\ IsState(s)
      /\ IsSeq(s.output) /\ Lists(s.output, q) /\ Exact(q, s.open, cs, n, h)
  BY DEF Work, Base, Running, Told
<1>2. s.open \in [TextKinds -> TextItems \cup {None}]
  BY <1>1 DEF Items, Typed
<1>3. s.open[k] \in TextItems /\ s.open[k].text \in Seq(Words) /\ s.open[k].index \in Nat
  BY <1>2, TextItemFacts
<1>4. /\ item \in TextItems /\ item.id = s.open[k].id /\ item.index = s.open[k].index
      /\ item.text = s.open[k].text \o delta
  <2>1. s.open[k].text \o delta \in Seq(Words)
    BY <1>3
  <2> QED BY <1>3, <2>1 DEF TextItems
<1>5. /\ e.type = TextEvents[k].delta /\ e.type \in StreamTypes /\ e.type \in DeltaTypes
      /\ e.index = s.open[k].index /\ e.body = delta
  BY TypesApart, DeltasApart DEF Event
<1>6. IsState(t) /\ Same(s, t, {"open"}) /\ t.open = [s.open EXCEPT ![k] = item]
  BY <1>1 DEF IsState, Same, StateFields
<1>7. AppendText(s, k, delta) = r
  BY DEF AppendText
<1> HIDE DEF item, t, e, q
<1>8. Items(q, t.open, s.nextIndex, cs, n)
  <2>1. Items(q, s.open, s.nextIndex, cs, n)
    BY <1>1
  <2>2. item \in TextItems /\ item.id = s.open[k].id /\ item.index = s.open[k].index
    BY <1>4
  <2>3. Items(q, [s.open EXCEPT ![k] = item], s.nextIndex, cs, n)
    BY <2>1, <2>2, ItemsGrowText
  <2> QED BY <1>6, <2>3
<1>9. Running(o, t) /\ o \o t.pending = q /\ t.nextIndex = s.nextIndex /\ t.output = s.output
  <2>1. Same(s, t, {"model", "output", "calls", "open", "usage", "nextIndex"})
    BY <1>6 DEF Same
  <2> QED BY <1>1, <1>6, <2>1, RunChange DEF Same, StateFields, q
<1>10. Base(o, t, cs, n)
  BY <1>1, <1>8, <1>9 DEF Base
<1>11. item # None
  BY <1>4, ConstantsAssumption
<1>12. t.open[k] = item /\ \A j \in TextKinds : j # k => t.open[j] = s.open[j]
  BY <1>2, <1>6
<1>13. Held(t.open, cs, n, e.index)
  BY <1>4, <1>5, <1>11, <1>12 DEF Held
<1>14. /\ Base(o, r, cs, n) /\ Same(t, r, {"pending", "sequence"})
       /\ o \o r.pending = Append(q, x) /\ x.type = e.type /\ x.index = e.index /\ x.body = e.body
  <2>1. /\ Base(o, Emit(t, e), cs, n) /\ Same(t, Emit(t, e), {"pending", "sequence"})
        /\ o \o Emit(t, e).pending = Append(o \o t.pending, Numbered(e, t.sequence))
        /\ Numbered(e, t.sequence).type = e.type /\ Numbered(e, t.sequence).index = e.index
        /\ Numbered(e, t.sequence).body = e.body
    BY <1>5, <1>10, <1>13, BaseStream
  <2> QED BY <1>9, <2>1
<1> HIDE DEF r, x
<1>15. NotClosed(q, x.index)
  BY <1>1, <1>5, <1>14 DEF Items, TextLive, Live, NotClosed
<1>16. IsSeq(delta) /\ IsSeq(q)
  BY <1>1 DEF IsSeq, Items
<1>17. Says(g, h, x)
  BY <1>5, <1>14, DeltasApart DEF Says, Grows
<1>18. /\ Known(Append(q, x), g)
       /\ StreamedTo(Append(q, x), x.index) = StreamedTo(q, x.index) \o x.body
       /\ \A i \in Nat : i # x.index => StreamedTo(Append(q, x), i) = StreamedTo(q, i)
  <2>1. x.type \in DeltaTypes /\ x.index \in Nat /\ IsSeq(x.body) /\ Known(q, h)
    BY <1>1, <1>3, <1>5, <1>14, <1>16 DEF Exact
  <2>2. IsSeq(q)
    BY <1>16
  <2> QED BY <1>15, <1>17, <2>1, <2>2, KnownDelta
<1>19. StreamedTo(Append(q, x), item.index) = item.text
  BY <1>1, <1>4, <1>5, <1>14, <1>18 DEF Exact, InHand
<1>20. ASSUME NEW j \in TextKinds, t.open[j] # None
       PROVE  StreamedTo(Append(q, x), t.open[j].index) = t.open[j].text
  <2>1. j = k
    BY <1>1, <1>12, <1>20 DEF Items, TextLive, TextKinds
  <2> QED BY <1>12, <1>19, <2>1
<1>21. ASSUME NEW m \in (n + 1)..Len(cs) PROVE CallTold(Append(q, x), cs[m])
  <2>1. cs[m].index \in Nat /\ (cs[m].announced => cs[m].id # <<>>)
    BY <1>1, CallFacts DEF Items
  <2>2. cs[m].announced => cs[m].index # x.index
    BY <1>1, <1>5, <1>14, <2>1 DEF Items, CallLive
  <2>3. CallTold(q, cs[m])
    BY <1>1 DEF Exact, InHand
  <2> QED BY <1>18, <2>1, <2>2, <2>3 DEF CallTold
<1>22. r.open = t.open
  BY <1>14 DEF Same, StateFields
<1>23. Work(o, r, cs, n, g)
  BY <1>14, <1>18, <1>20, <1>21, <1>22 DEF Work, Exact, InHand
<1> QED BY <1>6, <1>7, <1>14, <1>23 DEF Same

(* push_reasoning and push_text.                                           *)
LEMMA WorkPushText ==
  ASSUME NEW o, NEW s, NEW cs, NEW n, NEW h, Work(o, s, cs, n, h), s.started,
         NEW delta \in Seq(Words), NEW k \in TextKinds, NEW l \in TextKinds, l # k, NEW g,
         Grows(g, h, k, delta)
  PROVE  /\ Work(o, AppendText(OpenText(CloseText(s, l), k), k, delta), cs, n, g)
         /\ Same(s, AppendText(OpenText(CloseText(s, l), k), k, delta),
                 {"pending", "sequence", "open", "output", "nextIndex"})
<1> DEFINE t == CloseText(s, l)
           u == OpenText(t, k)
           v == AppendText(u, k, delta)
<1>1. /\ Work(o, t, cs, n, h) /\ t.open[l] = None
      /\ Same(s, t, {"pending", "sequence", "open", "output"})
  BY WorkCloseText
<1> HIDE DEF t
<1>2. t.started /\ \A j \in TextKinds : j # k => t.open[j] = None
  BY <1>1 DEF Same, StateFields, TextKinds
<1>3. /\ Work(o, u, cs, n, h) /\ u.open[k] # None
      /\ Same(t, u, {"pending", "sequence", "open", "nextIndex"})
  BY <1>1, <1>2, WorkOpenText
<1> HIDE DEF u
<1>4. Work(o, v, cs, n, g) /\ Same(u, v, {"pending", "sequence", "open"})
  BY <1>3, WorkAppendText
<1> HIDE DEF v
<1>5. Same(s, v, {"pending", "sequence", "open", "output", "nextIndex"})
  BY <1>1, <1>3, <1>4 DEF Same
<1> QED BY <1>4, <1>5 DEF t, u, v
-----------------------------------------------------------------------------
(* The calls in hand are those of the state, until they are closed.        *)
Steady(o, s, h) == Work(o, s, s.calls, 0, h) /\ s.started = TRUE

(* What that says.                                                         *)
LEMMA SteadyFacts ==
  ASSUME NEW o, NEW s, NEW h, Steady(o, s, h)
  PROVE  /\ Running(o, s) /\ IsState(s) /\ s.started = TRUE
         /\ Items(o \o s.pending, s.open, s.nextIndex, s.calls, 0)
         /\ Typed(s.open, s.nextIndex, s.calls, 0) /\ IsSeq(o \o s.pending) /\ IsSeq(s.calls)
         /\ IsSeq(s.output) /\ Lists(s.output, o \o s.pending)
         /\ Exact(o \o s.pending, s.open, s.calls, 0, h)
         /\ \A i \in 1..Len(s.calls) : IsCall(s.calls[i]) /\ CallTold(o \o s.pending, s.calls[i])
<1>1. Base(o, s, s.calls, 0) /\ Exact(o \o s.pending, s.open, s.calls, 0, h) /\ s.started = TRUE
  BY DEF Steady, Work
<1>2. /\ Running(o, s) /\ Items(o \o s.pending, s.open, s.nextIndex, s.calls, 0)
      /\ IsSeq(s.output) /\ Lists(s.output, o \o s.pending)
  BY <1>1 DEF Base
<1>3. IsState(s)
  BY <1>2 DEF Running, Told
<1>4. Typed(s.open, s.nextIndex, s.calls, 0) /\ IsSeq(o \o s.pending)
  BY <1>2 DEF Items
<1>5. IsSeq(s.calls) /\ \A i \in 1..Len(s.calls) : IsCall(s.calls[i])
  BY <1>4 DEF Typed
<1>6. \A i \in (0 + 1)..Len(s.calls) : CallTold(o \o s.pending, s.calls[i])
  BY <1>1 DEF Exact, InHand
<1> QED BY <1>1, <1>2, <1>3, <1>4, <1>5, <1>6

(* The items change and nothing is told.                                   *)
LEMMA SteadyChange ==
  ASSUME NEW o, NEW s, NEW h, Steady(o, s, h), NEW t, IsState(t),
         Same(s, t, {"calls", "nextIndex"}),
         Items(o \o s.pending, s.open, t.nextIndex, t.calls, 0),
         Exact(o \o s.pending, s.open, t.calls, 0, h)
  PROVE  Steady(o, t, h)
<1>1. /\ Running(o, s) /\ s.started = TRUE /\ IsSeq(s.output)
      /\ Lists(s.output, o \o s.pending)
  BY SteadyFacts
<1>2. Same(s, t, {"model", "output", "calls", "open", "usage", "nextIndex"})
  BY DEF Same
<1>3. Running(o, t) /\ o \o t.pending = o \o s.pending
  BY <1>1, <1>2, RunChange
<1>4. t.open = s.open /\ t.started = s.started /\ t.output = s.output
  BY DEF Same, StateFields
<1> QED BY <1>1, <1>3, <1>4 DEF Steady, Work, Base

(* The calls are made as many as the index of the fragment needs.          *)
LEMMA SteadyGrow ==
  ASSUME NEW o, NEW s, NEW h, Steady(o, s, h), NEW i \in Nat \ {0}
  PROVE  LET t == [s EXCEPT !.calls = Grow(@, i)] IN Steady(o, t, h) /\ i \in 1..Len(t.calls)
<1> DEFINE t == [s EXCEPT !.calls = Grow(@, i)]
           more == [l \in 1..(i - Len(s.calls)) |-> DefaultCall]
<1>1. /\ IsState(s) /\ Items(o \o s.pending, s.open, s.nextIndex, s.calls, 0)
      /\ Exact(o \o s.pending, s.open, s.calls, 0, h)
  BY SteadyFacts
<1>2. IsSeq(s.calls) /\ Len(s.calls) \in Nat
  BY SteadyFacts, SeqFacts
<1>3. /\ IsState(t) /\ Same(s, t, {"calls", "nextIndex"}) /\ t.calls = Grow(s.calls, i)
      /\ t.nextIndex = s.nextIndex
  BY <1>1 DEF IsState, Same, StateFields
<1> HIDE DEF t
<1>4. CASE i <= Len(s.calls)
  <2>1. t.calls = s.calls /\ i \in 1..Len(t.calls)
    BY <1>2, <1>3, <1>4 DEF Grow
  <2>2. Steady(o, t, h)
    BY <1>1, <1>3, <2>1, SteadyChange
  <2> QED BY <2>1, <2>2 DEF t
<1>5. CASE ~(i <= Len(s.calls))
  <2>1. more \in Seq({DefaultCall}) /\ Len(more) = i - Len(s.calls)
    BY <1>2, <1>5
  <2>2. t.calls = s.calls \o more
    BY <1>3, <1>5 DEF Grow
  <2>3. IsSeq(more) /\ \A l \in 1..Len(more) : more[l] = DefaultCall
    BY <2>1 DEF IsSeq
  <2> HIDE DEF more
  <2>4. Items(o \o s.pending, s.open, t.nextIndex, t.calls, 0)
    BY <1>1, <1>3, <2>2, <2>3, ItemsMoreCalls
  <2>5. /\ Len(s.calls \o more) = Len(s.calls) + Len(more)
        /\ \A p \in 1..Len(s.calls) : (s.calls \o more)[p] = s.calls[p]
        /\ \A p \in 1..Len(more) : (s.calls \o more)[Len(s.calls) + p] = more[p]
    BY <1>2, <2>3, ConcatFacts
  <2>6. Len(more) \in Nat
    BY <2>3, SeqFacts
  <2>7. CallTold(o \o s.pending, DefaultCall)
    BY EmptyFacts DEF CallTold, DefaultCall
  <2>8. ASSUME NEW m \in (0 + 1)..Len(t.calls) PROVE CallTold(o \o s.pending, t.calls[m])
    <3>1. CASE m \in 1..Len(s.calls)
      BY <2>2, <2>5, <3>1, SteadyFacts
    <3>2. CASE m \notin 1..Len(s.calls)
      <4>1. m - Len(s.calls) \in 1..Len(more) /\ Len(s.calls) + (m - Len(s.calls)) = m
        BY <1>2, <2>2, <2>5, <2>6, <3>2
      <4>2. t.calls[m] = DefaultCall
        BY <2>2, <2>3, <2>5, <4>1
      <4> QED BY <2>7, <4>2
    <3> QED BY <3>1, <3>2
  <2>9. Exact(o \o s.pending, s.open, t.calls, 0, h)
    BY <1>1, <2>8 DEF Exact, InHand
  <2>10. Steady(o, t, h)
    BY <1>3, <2>4, <2>9, SteadyChange
  <2> QED BY <1>2, <2>1, <2>2, <2>5, <2>10 DEF t
<1> QED BY <1>4, <1>5

(* The call takes an output index if it has none.                          *)
LEMMA SteadyReserve ==
  ASSUME NEW o, NEW s, NEW h, Steady(o, s, h), NEW i \in 1..Len(s.calls)
  PROVE  /\ Steady(o, Reserve(s, i), h) /\ Len(Reserve(s, i).calls) = Len(s.calls)
         /\ Reserve(s, i).calls[i].id # <<>>
<1>1. CASE s.calls[i].id # <<>>
  BY <1>1 DEF Reserve
<1>2. CASE s.calls[i].id = <<>>
  <2> DEFINE t == Reserve(s, i)
             id == ItemId(s, "call", s.nextIndex)
             c == [s.calls[i] EXCEPT !.index = s.nextIndex, !.id = id]
  <2>1. IsState(s) /\ Items(o \o s.pending, s.open, s.nextIndex, s.calls, 0)
    BY SteadyFacts
  <2>2. Typed(s.open, s.nextIndex, s.calls, 0) /\ s.nextIndex \in Nat
    BY SteadyFacts DEF Typed
  <2>3. IsCall(s.calls[i]) /\ IsSeq(s.calls) /\ CallTold(o \o s.pending, s.calls[i])
    BY SteadyFacts
  <2>4. id # <<>>
    BY DEF ItemId
  <2>5. t = [s EXCEPT !.calls[i] = c, !.nextIndex = @ + 1]
    BY <1>2 DEF Reserve
  <2> HIDE DEF id, t
  <2>6. ~s.calls[i].announced
    BY <1>2, <2>3 DEF IsCall
  <2>7. /\ IsCall(c) /\ c.index = s.nextIndex /\ ~c.announced /\ c.id = id
        /\ c.arguments = s.calls[i].arguments
    BY <2>2, <2>3, <2>6 DEF IsCall, CallFields
  <2>8. IsState(t) /\ Same(s, t, {"calls", "nextIndex"}) /\ t.nextIndex = s.nextIndex + 1
    BY <2>1, <2>5 DEF IsState, Same, StateFields
  <2>9. t.calls = [s.calls EXCEPT ![i] = c]
    BY <2>1, <2>5 DEF IsState, StateFields
  <2> HIDE DEF c
  <2>10. Items(o \o s.pending, s.open, t.nextIndex, t.calls, 0)
    BY <1>2, <2>1, <2>7, <2>8, <2>9, ItemsReserve
  <2>11. Len(t.calls) = Len(s.calls) /\ t.calls[i] = c
    BY <2>2, <2>7, <2>9, ChangeCall
  <2>12. Exact(o \o s.pending, s.open, t.calls, 0, h)
    <3>1. CallTold(o \o s.pending, c)
      BY <2>3, <2>7 DEF CallTold
    <3>2. Exact(o \o s.pending, s.open, s.calls, 0, h)
      BY SteadyFacts
    <3> QED BY <2>2, <2>7, <2>9, <3>1, <3>2, ExactCall
  <2>13. Steady(o, t, h)
    BY <2>8, <2>10, <2>12, SteadyChange
  <2> QED BY <2>4, <2>7, <2>11, <2>13 DEF t
<1> QED BY <1>1, <1>2

(* A call in hand changes, but not what the client knows of it.            *)
LEMMA SteadyCall ==
  ASSUME NEW o, NEW s, NEW h, Steady(o, s, h), NEW i \in 1..Len(s.calls), NEW c, IsCall(c),
         c.id = s.calls[i].id, c.index = s.calls[i].index, c.announced <=> s.calls[i].announced,
         c.announced => (c.freeform <=> s.calls[i].freeform), CallTold(o \o s.pending, c),
         NEW t, IsState(t), Same(s, t, {"calls"}), t.calls = [s.calls EXCEPT ![i] = c]
  PROVE  Steady(o, t, h) /\ Len(t.calls) = Len(s.calls) /\ t.calls[i] = c
<1>1. /\ IsState(s) /\ Items(o \o s.pending, s.open, s.nextIndex, s.calls, 0)
      /\ Exact(o \o s.pending, s.open, s.calls, 0, h)
  BY SteadyFacts
<1>2. Typed(s.open, s.nextIndex, s.calls, 0)
  BY SteadyFacts
<1>3. Same(s, t, {"calls", "nextIndex"}) /\ t.nextIndex = s.nextIndex
  BY DEF Same, StateFields
<1>4. Items(o \o s.pending, s.open, t.nextIndex, t.calls, 0)
  BY <1>1, <1>3, ItemsIdentify
<1>5. Len(t.calls) = Len(s.calls) /\ t.calls[i] = c
  BY <1>2, ChangeCall
<1>6. Exact(o \o s.pending, s.open, t.calls, 0, h)
  BY <1>1, <1>2, ExactCall
<1> QED BY <1>3, <1>4, <1>5, <1>6, SteadyChange

(* The call is told its identifier and its name.                           *)
LEMMA SteadyIdentify ==
  ASSUME NEW o, NEW s, NEW h, Steady(o, s, h), NEW i \in 1..Len(s.calls), NEW f
  PROVE  LET t == [s EXCEPT !.calls[i] = Identify(@, f)] IN
         Steady(o, t, h) /\ Len(t.calls) = Len(s.calls) /\ t.calls[i].id = s.calls[i].id
<1> DEFINE t == [s EXCEPT !.calls[i] = Identify(@, f)]
           call == s.calls[i]
           c == Identify(call, f)
<1>1. IsState(s) /\ IsSeq(s.calls) /\ IsCall(call) /\ CallTold(o \o s.pending, call)
  BY SteadyFacts
<1>2. /\ c = [g \in CallFields |-> c[g]] /\ c.arguments = call.arguments
      /\ c.id = call.id /\ c.index = call.index /\ c.announced = call.announced
      /\ c.encodedName = IF f.name # <<>> /\ call.encodedName = <<>> THEN f.name ELSE call.encodedName
      /\ c.freeform = IF f.name # <<>> /\ call.encodedName = <<>> THEN IsFreeform(f.name)
                      ELSE call.freeform
  <2> HIDE DEF call
  <2> QED BY <1>1 DEF IsCall, CallFields, Identify
<1>3. IsFreeform(f.name) \in BOOLEAN
  BY DEF IsFreeform
<1> HIDE DEF c
<1>4. call.announced => call.encodedName # <<>> /\ call.id # <<>>
  BY <1>1 DEF IsCall
<1>5. call.index \in Nat /\ call.announced \in BOOLEAN /\ call.freeform \in BOOLEAN
  BY <1>1 DEF IsCall
<1> HIDE DEF call
<1>6. c.freeform \in BOOLEAN
  <2>1. CASE f.name # <<>> /\ call.encodedName = <<>>
    BY <1>2, <1>3, <2>1
  <2>2. CASE ~(f.name # <<>> /\ call.encodedName = <<>>)
    BY <1>2, <1>5, <2>2
  <2> QED BY <2>1, <2>2
<1>7. IsCall(c)
  BY <1>2, <1>4, <1>5, <1>6 DEF IsCall
<1>8. c.announced => (c.freeform <=> call.freeform)
  BY <1>2, <1>4
<1>11. CallTold(o \o s.pending, c)
  BY <1>1, <1>2, <1>8 DEF CallTold
<1>9. IsState(t) /\ Same(s, t, {"calls"}) /\ t.calls = [s.calls EXCEPT ![i] = c]
  BY <1>1 DEF IsState, Same, StateFields, c, call
<1> HIDE DEF t
<1>10. Steady(o, t, h) /\ Len(t.calls) = Len(s.calls) /\ t.calls[i] = c
  BY <1>2, <1>7, <1>8, <1>9, <1>11, SteadyCall DEF call
<1> QED BY <1>2, <1>10 DEF t, call

(* The call is announced as soon as it has both.                           *)
LEMMA SteadyAnnounce ==
  ASSUME NEW o, NEW s, NEW h, Steady(o, s, h), NEW i \in 1..Len(s.calls), s.calls[i].id # <<>>
  PROVE  Steady(o, Announce(s, i), h) /\ Len(Announce(s, i).calls) = Len(s.calls)
<1> DEFINE call == s.calls[i]
<1>1. CASE call.announced \/ call.encodedName = <<>> \/ call.callId = <<>>
  BY <1>1 DEF Announce
<1>2. CASE ~(call.announced \/ call.encodedName = <<>> \/ call.callId = <<>>)
  <2> DEFINE c == [call EXCEPT !.announced = TRUE]
             e == Event("item.added", call.index, CallItem(call, <<>>))
             t == [s EXCEPT !.calls[i].announced = TRUE]
             r == Emit(t, e)
             x == Numbered(e, t.sequence)
  <2>1. IsState(s) /\ Running(o, s) /\ Items(o \o s.pending, s.open, s.nextIndex, s.calls, 0)
    BY SteadyFacts
  <2>2. Typed(s.open, s.nextIndex, s.calls, 0) /\ IsCall(call) /\ IsSeq(s.calls)
    BY SteadyFacts
  <2>3. Announce(s, i) = r
    BY <1>2 DEF Announce
  <2>4. IsState(t) /\ Same(s, t, {"calls"}) /\ t.calls = [s.calls EXCEPT ![i] = c]
    BY <2>1 DEF IsState, Same, StateFields
  <2>5. /\ IsCall(c) /\ c.id = call.id /\ c.index = call.index /\ c.announced
        /\ CallType(c) = CallType(call) /\ c.arguments = call.arguments
    <3> HIDE DEF call
    <3>1. /\ c = [g \in CallFields |-> c[g]] /\ c.announced = TRUE /\ c.index = call.index
          /\ c.id = call.id /\ c.encodedName = call.encodedName /\ c.freeform = call.freeform
          /\ c.arguments = call.arguments
      BY <2>2 DEF IsCall, CallFields
    <3> HIDE DEF c
    <3>2. call.index \in Nat /\ call.freeform \in BOOLEAN
      BY <2>2 DEF IsCall
    <3>3. c.freeform \in BOOLEAN /\ c.announced \in BOOLEAN
      BY <3>1, <3>2
    <3>4. c.id # <<>> /\ c.encodedName # <<>>
      BY <1>2, <3>1 DEF call
    <3>5. IsCall(c)
      BY <3>1, <3>2, <3>3, <3>4 DEF IsCall
    <3> QED BY <3>1, <3>5 DEF CallType
  <2>6. /\ e.type = "item.added" /\ e.index = call.index /\ e.body.type = CallType(call)
        /\ e.body.id = call.id
    BY DEF Event, CallItem, CallType
  <2> HIDE DEF c, e, t, r
  <2>7. Running(o, t) /\ o \o t.pending = o \o s.pending
    <3>1. Same(s, t, {"model", "output", "calls", "open", "usage", "nextIndex"})
      BY <2>4 DEF Same
    <3> QED BY <2>1, <2>4, <3>1, RunChange
  <2>8. /\ Running(o, r) /\ Same(t, r, {"pending", "sequence"})
        /\ o \o r.pending = Append(o \o t.pending, x)
        /\ x.type = e.type /\ x.index = e.index /\ x.body = e.body
    <3>1. e.type \in StreamTypes \cup {"item.added", "item.done"}
      BY <2>6
    <3>2. Running(o, t)
      BY <2>7
    <3>3. /\ Running(o, Emit(t, e)) /\ Same(t, Emit(t, e), {"pending", "sequence"})
          /\ o \o Emit(t, e).pending = Append(o \o t.pending, Numbered(e, t.sequence))
      BY <3>1, <3>2, RunItem
    <3>4. /\ x.type = e.type /\ x.index = e.index /\ x.body = e.body
      BY DEF Numbered
    <3> QED BY <3>3, <3>4 DEF r
  <2> HIDE DEF x
  <2>9. Adds(x, c.index) /\ x.body.type = CallType(c) /\ x.body.id = c.id
    BY <2>5, <2>6, <2>8 DEF Adds
  <2>10. Items(Append(o \o s.pending, x), s.open, s.nextIndex, [s.calls EXCEPT ![i] = c], 0)
    <3>1. ~s.calls[i].announced
      BY <1>2
    <3>2. /\ IsCall(c) /\ c.id = s.calls[i].id /\ c.index = s.calls[i].index /\ c.announced
      BY <2>5
    <3> QED BY <2>1, <2>9, <3>1, <3>2, ItemsAnnounce
  <2>11. /\ r.calls = [s.calls EXCEPT ![i] = c] /\ r.open = s.open /\ r.nextIndex = s.nextIndex
         /\ r.started = s.started /\ r.output = s.output
    BY <2>4, <2>8 DEF Same, StateFields
  <2>12. Len(r.calls) = Len(s.calls)
    BY <2>2, <2>5, <2>11, ChangeCall
  <2> DEFINE q == o \o s.pending
             w == Append(q, x)
  <2>13. /\ IsSeq(q) /\ Exact(q, s.open, s.calls, 0, h) /\ CallTold(q, call)
         /\ IsSeq(s.output) /\ Lists(s.output, q) /\ s.started = TRUE
    BY SteadyFacts
  <2>14. x.type \notin DeltaTypes /\ x.type # "item.done"
    BY <2>6, <2>8, DeltasApart
  <2>15. call.index \in Nat
    BY <2>2 DEF IsCall
  <2>16. StreamedTo(q, call.index) = <<>>
    <3>1. i \in (0 + 1)..Len(s.calls) /\ ~s.calls[i].announced
      BY <1>2
    <3>2. Unused(q, call.index)
      BY <2>1, <3>1 DEF Items, CallLive
    <3> QED BY <2>13, <2>15, <3>2 DEF Exact, Known
  <2> HIDE DEF q, call
  <2>17. /\ Exact(w, s.open, s.calls, 0, h)
         /\ \A j \in Nat : StreamedTo(w, j) = StreamedTo(q, j)
    BY <2>2, <2>13, <2>14, ExactOther
  <2>18. Lists(s.output, w)
    BY <2>13, <2>14, ListsOther
  <2>19. CallTold(w, c)
    <3>1. IsSeq(c.arguments)
      BY <2>5, <2>13 DEF CallTold
    <3>2. StreamedTo(w, c.index) = <<>>
      BY <2>5, <2>15, <2>16, <2>17
    <3> QED BY <3>1, <3>2, EndsEmpty DEF CallTold
  <2>20. Exact(w, s.open, [s.calls EXCEPT ![i] = c], 0, h)
    BY <2>2, <2>5, <2>17, <2>19, ExactCall
  <2>21. o \o r.pending = w
    BY <2>7, <2>8 DEF q
  <2>22. Base(o, r, r.calls, 0)
    BY <2>8, <2>10, <2>11, <2>13, <2>18, <2>21 DEF Base, q
  <2> HIDE DEF w
  <2>23. Steady(o, r, h)
    BY <2>11, <2>13, <2>20, <2>21, <2>22 DEF Steady, Work
  <2> QED BY <2>3, <2>12, <2>23
<1> QED BY <1>1, <1>2

(* A fragment of its arguments is kept, and told if the call is known.     *)
LEMMA SteadyArguments ==
  ASSUME NEW o, NEW s, NEW h, Steady(o, s, h), NEW i \in 1..Len(s.calls), NEW fragment,
         IsSeq(fragment)
  PROVE  Steady(o, AddArguments(s, i, fragment), h)
<1> DEFINE call == s.calls[i]
           t == [s EXCEPT !.calls[i].arguments = @ \o fragment]
           e == Event("arguments.delta", call.index, fragment)
           c == [call EXCEPT !.arguments = @ \o fragment]
           q == o \o s.pending
<1>1. /\ IsState(s) /\ IsCall(call) /\ IsSeq(s.calls) /\ Len(s.calls) \in Nat
      /\ CallTold(q, call) /\ IsSeq(q) /\ s.started = TRUE
      /\ Typed(s.open, s.nextIndex, s.calls, 0) /\ Exact(q, s.open, s.calls, 0, h)
  BY SteadyFacts, SeqFacts
<1>2. IsState(t) /\ Same(s, t, {"calls"}) /\ t.calls = [s.calls EXCEPT ![i] = c]
  BY <1>1 DEF IsState, Same, StateFields
<1>3. /\ IsCall(c) /\ c.id = call.id /\ c.index = call.index /\ c.announced = call.announced
      /\ c.freeform = call.freeform /\ c.arguments = call.arguments \o fragment
      /\ call.index \in Nat /\ (call.announced => call.id # <<>>)
  <2> HIDE DEF call
  <2>1. /\ c = [g \in CallFields |-> c[g]] /\ c.index = call.index /\ c.announced = call.announced
        /\ c.id = call.id /\ c.encodedName = call.encodedName /\ c.freeform = call.freeform
        /\ c.arguments = call.arguments \o fragment
    BY <1>1 DEF IsCall, CallFields
  <2> HIDE DEF c
  <2>2. /\ call.index \in Nat /\ call.freeform \in BOOLEAN /\ call.announced \in BOOLEAN
        /\ call.announced => call.id # <<>> /\ call.encodedName # <<>>
    BY <1>1 DEF IsCall
  <2>3. c.freeform \in BOOLEAN /\ c.announced \in BOOLEAN
    BY <2>1, <2>2
  <2>4. c.announced => c.id # <<>> /\ c.encodedName # <<>>
    BY <2>1, <2>2
  <2>5. IsCall(c)
    BY <2>1, <2>2, <2>3, <2>4 DEF IsCall
  <2> QED BY <2>1, <2>2, <2>5
<1>4. IsSeq(c.arguments)
  <2>1. IsSeq(call.arguments)
    BY <1>1 DEF CallTold
  <2> QED BY <1>3, <2>1, ConcatFacts
<1>5. /\ c.announced <=> call.announced
      /\ c.announced => (c.freeform <=> call.freeform)
  BY <1>3
<1>6. CASE fragment = <<>>
  BY <1>6 DEF AddArguments
<1>7. CASE fragment # <<>> /\ (call.freeform \/ ~call.announced)
  <2>1. AddArguments(s, i, fragment) = t
    BY <1>7 DEF AddArguments
  <2>2. CallTold(q, c)
    BY <1>1, <1>3, <1>4, <1>7 DEF CallTold
  <2> HIDE DEF c, t
  <2>3. Steady(o, t, h)
    BY <1>2, <1>3, <1>5, <2>2, SteadyCall DEF call, q
  <2> QED BY <2>1, <2>3
<1>8. CASE fragment # <<>> /\ ~(call.freeform \/ ~call.announced)
  <2> DEFINE cs == [s.calls EXCEPT ![i] = c]
             r == Emit(t, e)
             x == Numbered(e, t.sequence)
             w == Append(q, x)
  <2>1. AddArguments(s, i, fragment) = r
    BY <1>8 DEF AddArguments
  <2>2. /\ e.type = "arguments.delta" /\ e.type \in StreamTypes /\ e.type \in DeltaTypes
        /\ e.index = call.index /\ e.body = fragment
    BY TypesApart, DeltasApart DEF Event
  <2> HIDE DEF t, e, c
  <2>3. /\ Running(o, s) /\ Items(q, s.open, s.nextIndex, s.calls, 0)
        /\ IsSeq(s.output) /\ Lists(s.output, q)
    BY SteadyFacts
  <2>4. Items(q, s.open, s.nextIndex, cs, 0)
    BY <1>3, <1>5, <2>3, ItemsIdentify
  <2>5. /\ Len(cs) = Len(s.calls) /\ cs[i] = c
        /\ \A m \in 1..Len(s.calls) : m # i => cs[m] = s.calls[m]
    BY <1>1, <1>3, ChangeCall
  <2>6. Running(o, t) /\ o \o t.pending = q
    <3>1. Same(s, t, {"model", "output", "calls", "open", "usage", "nextIndex"})
      BY <1>2 DEF Same
    <3> QED BY <1>2, <2>3, <3>1, RunChange
  <2>7. t.open = s.open /\ t.nextIndex = s.nextIndex /\ t.output = s.output /\ t.started = TRUE
    BY <1>1, <1>2 DEF Same, StateFields
  <2> HIDE DEF cs
  <2>8. Base(o, t, cs, 0)
    BY <2>3, <2>4, <2>6, <2>7 DEF Base
  <2>9. Held(t.open, cs, 0, e.index)
    <3>1. i \in (0 + 1)..Len(cs) /\ cs[i].announced /\ cs[i].index = e.index
      BY <1>3, <1>8, <2>2, <2>5
    <3> QED BY <3>1 DEF Held
  <2>10. /\ Base(o, r, cs, 0) /\ Same(t, r, {"pending", "sequence"})
         /\ o \o r.pending = w /\ x.type = e.type /\ x.index = e.index /\ x.body = e.body
    <3>1. /\ Base(o, Emit(t, e), cs, 0) /\ Same(t, Emit(t, e), {"pending", "sequence"})
          /\ o \o Emit(t, e).pending = Append(o \o t.pending, Numbered(e, t.sequence))
          /\ Numbered(e, t.sequence).type = e.type /\ Numbered(e, t.sequence).index = e.index
          /\ Numbered(e, t.sequence).body = e.body
      BY <2>2, <2>8, <2>9, BaseStream
    <3> QED BY <2>6, <3>1
  <2> HIDE DEF r, x, q, call
  <2>11. i \in (0 + 1)..Len(s.calls) /\ s.calls[i].announced /\ s.calls[i].id # <<>>
    BY <1>3, <1>8 DEF call
  <2>12. NotClosed(q, x.index)
    <3>1. Live(q, s.calls[i].index, CallType(s.calls[i]), s.calls[i].id)
      BY <2>3, <2>11 DEF Items, CallLive
    <3> QED BY <2>2, <2>10, <3>1 DEF Live, NotClosed, call
  <2>13. Says(h, h, x)
    BY <2>2, <2>10, DeltasApart DEF Says
  <2>14. /\ Known(w, h) /\ StreamedTo(w, x.index) = StreamedTo(q, x.index) \o x.body
         /\ \A j \in Nat : j # x.index => StreamedTo(w, j) = StreamedTo(q, j)
    <3>1. x.type \in DeltaTypes /\ x.index \in Nat /\ IsSeq(x.body) /\ Known(q, h) /\ IsSeq(q)
      BY <1>1, <1>3, <2>2, <2>10 DEF Exact
    <3> QED BY <2>12, <2>13, <3>1, KnownDelta
  <2>15. CallTold(w, c)
    <3>1. Ends(StreamedTo(q, call.index), call.arguments)
      BY <1>1, <1>8 DEF CallTold
    <3>2. Ends(StreamedTo(q, call.index) \o fragment, call.arguments \o fragment)
      BY <3>1, EndsGrow
    <3>3. StreamedTo(w, c.index) = StreamedTo(q, call.index) \o fragment
      BY <1>3, <2>2, <2>10, <2>14
    <3>4. ~c.freeform
      BY <1>3, <1>8
    <3> QED BY <1>3, <1>4, <3>2, <3>3, <3>4 DEF CallTold
  <2> HIDE DEF w
  <2>16. ASSUME NEW k \in TextKinds, s.open[k] # None
         PROVE  StreamedTo(w, s.open[k].index) = s.open[k].text
    <3>1. s.open[k].index # s.calls[i].index
      BY <2>3, <2>11, <2>16 DEF Items, CallLive
    <3>2. s.open[k].index \in Nat
      BY <1>1, <2>16, TextItemFacts DEF Typed
    <3>3. StreamedTo(q, s.open[k].index) = s.open[k].text
      BY <1>1, <2>16 DEF Exact, InHand
    <3> QED BY <2>2, <2>10, <2>14, <3>1, <3>2, <3>3 DEF call
  <2>17. ASSUME NEW m \in (0 + 1)..Len(cs) PROVE CallTold(w, cs[m])
    <3>1. CASE m = i
      BY <2>5, <2>15, <3>1
    <3>2. CASE m # i
      <4>1. m \in (0 + 1)..Len(s.calls) /\ cs[m] = s.calls[m]
        BY <2>5, <3>2
      <4>2. s.calls[m].index \in Nat /\ (s.calls[m].announced => s.calls[m].id # <<>>)
        BY <1>1, <4>1, CallFacts
      <4>3. s.calls[m].announced => s.calls[m].index # s.calls[i].index
        BY <2>3, <2>11, <3>2, <4>1, <4>2 DEF Items, CallLive
      <4>4. CallTold(q, s.calls[m])
        BY <1>1, <4>1 DEF Exact, InHand
      <4>5. s.calls[m].announced =>
              StreamedTo(w, s.calls[m].index) = StreamedTo(q, s.calls[m].index)
        BY <2>2, <2>10, <2>14, <4>2, <4>3 DEF call
      <4> QED BY <4>1, <4>4, <4>5 DEF CallTold
    <3> QED BY <3>1, <3>2
  <2>18. r.open = s.open /\ r.calls = cs /\ r.started = TRUE
    BY <1>2, <2>7, <2>10 DEF Same, StateFields, cs
  <2>19. Exact(w, r.open, r.calls, 0, h)
    BY <2>14, <2>16, <2>17, <2>18 DEF Exact, InHand
  <2>20. Steady(o, r, h)
    BY <2>10, <2>18, <2>19 DEF Steady, Work
  <2> QED BY <2>1, <2>20
<1> QED BY <1>6, <1>7, <1>8

(* push_tool_call.                                                         *)
LEMMA SteadyPushToolCall ==
  ASSUME NEW o, NEW s, NEW h, Steady(o, s, h), NEW f \in CallDeltas
  PROVE  Steady(o, PushToolCall(s, f), h)
<1> DEFINE i == f.index + 1
           t == CloseReasoning(s)
           u == CloseMessage(t)
           grown == [u EXCEPT !.calls = Grow(@, i)]
           reserved == Reserve(grown, i)
           identified == [reserved EXCEPT !.calls[i] = Identify(@, f)]
           announced == Announce(identified, i)
<1>1. i \in Nat \ {0}
  BY DEF CallDeltas
<1>2. "reasoning" \in TextKinds /\ "message" \in TextKinds
  BY DEF TextKinds
<1>3. Work(o, t, s.calls, 0, h) /\ Same(s, t, {"pending", "sequence", "open", "output"})
  BY <1>2, WorkCloseText DEF Steady, CloseReasoning
<1>4. PushToolCall(s, f) = AddArguments(announced, i, f.arguments)
  BY DEF PushToolCall
<1> HIDE DEF t, i
<1>5. Work(o, u, s.calls, 0, h) /\ Same(t, u, {"pending", "sequence", "open", "output"})
  BY <1>2, <1>3, WorkCloseText DEF CloseMessage
<1> HIDE DEF u
<1>6. Steady(o, u, h)
  <2>1. u.calls = s.calls /\ u.started = s.started
    BY <1>3, <1>5 DEF Same, StateFields
  <2> QED BY <1>5, <2>1 DEF Steady
<1>7. Steady(o, grown, h) /\ i \in 1..Len(grown.calls)
  BY <1>1, <1>6, SteadyGrow
<1> HIDE DEF grown
<1>8. /\ Steady(o, reserved, h) /\ i \in 1..Len(reserved.calls) /\ reserved.calls[i].id # <<>>
  BY <1>7, SteadyReserve
<1> HIDE DEF reserved
<1>9. /\ Steady(o, identified, h) /\ i \in 1..Len(identified.calls) /\ identified.calls[i].id # <<>>
  BY <1>8, SteadyIdentify
<1> HIDE DEF identified
<1>10. Steady(o, announced, h) /\ i \in 1..Len(announced.calls)
  BY <1>9, SteadyAnnounce
<1> HIDE DEF announced
<1>11. IsSeq(f.arguments)
  <2>1. f.arguments \in Seq(Words)
    BY DEF CallDeltas
  <2> QED BY <2>1 DEF IsSeq
<1> QED BY <1>4, <1>10, <1>11, SteadyArguments

(* The fragments of a chunk, one after the other.                          *)
LEMMA SteadyPushToolCalls ==
  ASSUME NEW o, NEW s, NEW h, Steady(o, s, h), NEW calls \in Seq(CallDeltas)
  PROVE  Steady(o, PushToolCalls(s, calls), h)
<1> DEFINE IsRun(g, m) == g = [n \in 0..m |-> IF n = 0 THEN s ELSE PushToolCall(g[n - 1], calls[n])]
           pushed == CHOOSE g : IsRun(g, Len(calls))
           E == {m \in Nat : \E g : IsRun(g, m)}
           S == {m \in Nat : m <= Len(calls) => Steady(o, pushed[m], h)}
<1>1. 0 \in E
  <2> DEFINE g == [n \in 0..0 |-> s]
  <2>1. g = [n \in 0..0 |-> IF n = 0 THEN s ELSE PushToolCall(g[n - 1], calls[n])]
    OBVIOUS
  <2> QED BY <2>1
<1>2. ASSUME NEW m \in Nat, m \in E PROVE m + 1 \in E
  <2>1. PICK g : IsRun(g, m)
    BY <1>2
  <2> DEFINE w == [n \in 0..(m + 1) |-> IF n <= m THEN g[n] ELSE PushToolCall(g[m], calls[m + 1])]
  <2>2. \A n \in 0..(m + 1) : w[n] = IF n = 0 THEN s ELSE PushToolCall(w[n - 1], calls[n])
    BY <2>1
  <2>3. w = [n \in 0..(m + 1) |-> IF n = 0 THEN s ELSE PushToolCall(w[n - 1], calls[n])]
    BY <2>2
  <2>4. IsRun(w, m + 1) /\ m + 1 \in Nat
    BY <2>3
  <2> HIDE DEF w, IsRun
  <2> QED BY <2>4
<1>3. Len(calls) \in E
  <2> HIDE DEF E
  <2>1. Nat \subseteq E
    BY <1>1, <1>2, SetInduction
  <2> QED BY <2>1
<1>4. IsRun(pushed, Len(calls))
  BY <1>3
<1>5. PushToolCalls(s, calls) = pushed[Len(calls)]
  BY DEF PushToolCalls
<1> HIDE DEF pushed
<1>6. 0 \in S
  BY <1>4
<1>7. ASSUME NEW m \in Nat, m \in S PROVE m + 1 \in S
  <2> SUFFICES ASSUME m + 1 <= Len(calls) PROVE Steady(o, pushed[m + 1], h)
    OBVIOUS
  <2>1. pushed[m + 1] = PushToolCall(pushed[m], calls[m + 1])
    BY <1>4
  <2>2. Steady(o, pushed[m], h) /\ calls[m + 1] \in CallDeltas
    BY <1>7
  <2> QED BY <2>1, <2>2, SteadyPushToolCall
<1>8. Nat \subseteq S
  <2> HIDE DEF S
  <2> QED BY <1>6, <1>7, SetInduction
<1>9. Len(calls) \in S
  BY <1>8
<1> QED BY <1>5, <1>9
-----------------------------------------------------------------------------
(* What sanitize_identifier has kept after its first n characters.         *)
LEMMA SanitizeRun ==
  ASSUME NEW C, NEW raw \in Seq(C)
  PROVE  \E kept :
           /\ kept = [n \in 0..Len(raw) |->
                        IF n = 0 THEN <<>>
                        ELSE IF raw[n] \in SafeChars /\ Len(kept[n - 1]) < MaxIdentifierBytes
                             THEN Append(kept[n - 1], raw[n]) ELSE kept[n - 1]]
           /\ SanitizeIdentifier(raw) = IF kept[Len(raw)] = <<>> THEN UnknownId ELSE kept[Len(raw)]
<1> DEFINE Step(g, n) == IF raw[n] \in SafeChars /\ Len(g[n - 1]) < MaxIdentifierBytes
                         THEN Append(g[n - 1], raw[n]) ELSE g[n - 1]
           IsRun(g, m) == g = [n \in 0..m |-> IF n = 0 THEN <<>> ELSE Step(g, n)]
           kept == CHOOSE g : IsRun(g, Len(raw))
           E == {m \in Nat : \E g : IsRun(g, m)}
<1>1. 0 \in E
  <2> DEFINE g == [n \in 0..0 |-> <<>>]
  <2>1. g = [n \in 0..0 |-> IF n = 0 THEN <<>> ELSE Step(g, n)]
    OBVIOUS
  <2> QED BY <2>1
<1>2. ASSUME NEW m \in Nat, m \in E PROVE m + 1 \in E
  <2>1. PICK g : IsRun(g, m)
    BY <1>2
  <2> DEFINE h == [n \in 0..(m + 1) |-> IF n <= m THEN g[n] ELSE Step(g, m + 1)]
  <2>2. \A n \in 0..(m + 1) : h[n] = IF n = 0 THEN <<>> ELSE Step(h, n)
    <3>0. h[0] = <<>>
      <4> HIDE DEF Step
      <4> QED BY <2>1
    <3> SUFFICES ASSUME NEW n \in 0..(m + 1), n # 0 PROVE h[n] = Step(h, n)
      <4> HIDE DEF Step, h
      <4> QED BY <3>0
    <3>1. h[n - 1] = g[n - 1]
      OBVIOUS
    <3>2. Step(h, n) = Step(g, n)
      BY <3>1
    <3>3. h[n] = Step(g, n)
      <4> HIDE DEF Step
      <4> QED BY <2>1
    <3> QED BY <3>2, <3>3
  <2>3. h = [n \in 0..(m + 1) |-> IF n = 0 THEN <<>> ELSE Step(h, n)]
    <3> HIDE DEF Step
    <3> QED BY <2>2
  <2>4. IsRun(h, m + 1) /\ m + 1 \in Nat
    BY <2>3
  <2> HIDE DEF h, IsRun
  <2> QED BY <2>4
<1>3. Len(raw) \in E
  <2> HIDE DEF E
  <2>1. Nat \subseteq E
    BY <1>1, <1>2, SetInduction
  <2> QED BY <2>1
<1>4. IsRun(kept, Len(raw))
  BY <1>3
<1>5. SanitizeIdentifier(raw) = IF kept[Len(raw)] = <<>> THEN UnknownId ELSE kept[Len(raw)]
  BY DEF SanitizeIdentifier
<1> HIDE DEF kept
<1> QED BY <1>4, <1>5

(* What sanitize_identifier lets through, or the name it puts in its place. *)
LEMMA SanitizedIdentifier ==
  ASSUME NEW raw \in Seq(Chars)
  PROVE  SanitizeIdentifier(raw) \in Identifiers
<1> DEFINE Step(g, n) == IF raw[n] \in SafeChars /\ Len(g[n - 1]) < MaxIdentifierBytes
                         THEN Append(g[n - 1], raw[n]) ELSE g[n - 1]
<1>4. PICK kept :
        /\ kept = [n \in 0..Len(raw) |-> IF n = 0 THEN <<>> ELSE Step(kept, n)]
        /\ SanitizeIdentifier(raw) = IF kept[Len(raw)] = <<>> THEN UnknownId ELSE kept[Len(raw)]
  BY SanitizeRun
<1> DEFINE S == {m \in Nat : m <= Len(raw) => kept[m] \in Seq(SafeChars)}
<1>6. 0 \in S
  <2>1. kept[0] = <<>>
    <3> HIDE DEF Step
    <3> QED BY <1>4
  <2>2. <<>> \in Seq(SafeChars)
    OBVIOUS
  <2> QED BY <2>1, <2>2
<1>7. ASSUME NEW m \in Nat, m \in S PROVE m + 1 \in S
  <2> SUFFICES ASSUME m + 1 <= Len(raw) PROVE kept[m + 1] \in Seq(SafeChars)
    OBVIOUS
  <2>1. kept[m + 1] = Step(kept, m + 1) /\ (m + 1) - 1 = m
    <3> HIDE DEF Step
    <3> QED BY <1>4
  <2>2. kept[m] \in Seq(SafeChars)
    BY <1>7
  <2> QED BY <2>1, <2>2
<1>8. Nat \subseteq S
  <2> HIDE DEF S
  <2> QED BY <1>6, <1>7, SetInduction
<1>9. kept[Len(raw)] \in Seq(SafeChars)
  BY <1>8
<1>10. UnknownId \in Identifiers /\ (kept[Len(raw)] # <<>> => kept[Len(raw)] \in Identifiers)
  BY <1>9 DEF UnknownId, Identifiers
<1> QED BY <1>4, <1>10

(* sanitize_identifier hands on a safe identifier as it is, whatever the   *)
(* alphabet and the limit: with CallsDelivered, a call whose identifier is *)
(* safe reaches Muse under Z.ai's own.                                     *)
THEOREM SafeIdentifierKept ==
  ASSUME NEW C, NEW id \in Seq(C), SafeIdentifier(id)
  PROVE  SanitizeIdentifier(id) = id
<1> DEFINE Step(g, n) == IF id[n] \in SafeChars /\ Len(g[n - 1]) < MaxIdentifierBytes
                         THEN Append(g[n - 1], id[n]) ELSE g[n - 1]
<1>1. PICK kept :
        /\ kept = [n \in 0..Len(id) |-> IF n = 0 THEN <<>> ELSE Step(kept, n)]
        /\ SanitizeIdentifier(id) = IF kept[Len(id)] = <<>> THEN UnknownId ELSE kept[Len(id)]
  BY SanitizeRun
<1> DEFINE S == {m \in Nat : m <= Len(id) => kept[m] = SubSeq(id, 1, m)}
<1>2. 0 \in S
  <2>1. kept[0] = <<>>
    <3> HIDE DEF Step
    <3> QED BY <1>1
  <2>2. SubSeq(id, 1, 0) = <<>>
    OBVIOUS
  <2> QED BY <2>1, <2>2
<1>3. ASSUME NEW m \in Nat, m \in S PROVE m + 1 \in S
  <2> SUFFICES ASSUME m + 1 <= Len(id) PROVE kept[m + 1] = SubSeq(id, 1, m + 1)
    OBVIOUS
  <2>1. kept[m + 1] = Step(kept, m + 1) /\ (m + 1) - 1 = m
    <3> HIDE DEF Step
    <3> QED BY <1>1
  <2>2. kept[m] = SubSeq(id, 1, m) /\ Len(SubSeq(id, 1, m)) = m
    BY <1>3
  <2>3. id[m + 1] \in SafeChars /\ m < MaxIdentifierBytes
    BY ProviderIdsAssumption DEF SafeIdentifier
  <2>4. kept[m + 1] = Append(SubSeq(id, 1, m), id[m + 1])
    BY <2>1, <2>2, <2>3
  <2>5. Append(SubSeq(id, 1, m), id[m + 1]) = SubSeq(id, 1, m + 1)
    OBVIOUS
  <2> QED BY <2>4, <2>5
<1>4. Nat \subseteq S
  <2> HIDE DEF S
  <2> QED BY <1>2, <1>3, SetInduction
<1>5. kept[Len(id)] = SubSeq(id, 1, Len(id)) /\ SubSeq(id, 1, Len(id)) = id
  BY <1>4
<1> QED BY <1>1, <1>5 DEF SafeIdentifier

(* start: the response is announced under an identifier of its own.        *)
LEMMA StartRuns ==
  ASSUME NEW o, NEW s, NEW h, Work(o, s, s.calls, 0, h), NEW f, f.id \in Seq(Chars)
  PROVE  Steady(o, Start(s, f), h)
<1>0. /\ Running(o, s) /\ Items(o \o s.pending, s.open, s.nextIndex, s.calls, 0)
      /\ IsSeq(s.output) /\ Lists(s.output, o \o s.pending)
      /\ Exact(o \o s.pending, s.open, s.calls, 0, h)
  BY DEF Work, Base
<1>1. CASE s.started
  <2>1. s.started = TRUE
    BY <1>0, <1>1 DEF Running, Told
  <2> QED BY <1>1, <2>1 DEF Start, Steady
<1>2. CASE ~s.started
  <2> DEFINE stem == SanitizeIdentifier(IF f.id # <<>> THEN f.id ELSE RequestKey)
             named == [s EXCEPT !.started = TRUE, !.stem = stem, !.responseId = <<"resp", stem>>,
                                !.model = IF f.model # None THEN f.model ELSE @]
             response == ResponseEnvelope(named, "in_progress", <<>>)
             a == Event("created", None, response)
             b == Event("in_progress", None, response)
             t == Emit(named, a)
             u == Emit(t, b)
             x == Numbered(a, named.sequence)
             y == Numbered(b, t.sequence)
  <2>1. Start(s, f) = EmitAll(named, <<a, b>>)
    BY <1>2 DEF Start
  <2>2. stem \in Identifiers
    BY ConstantsAssumption, SanitizedIdentifier
  <2>3. IsState(s)
    BY <1>0 DEF Running, Told
  <2> HIDE DEF stem
  <2>4. /\ IsState(named) /\ Same(s, named, {"started", "stem", "responseId", "model"})
        /\ named.started = TRUE /\ named.stem = stem /\ named.responseId = <<"resp", stem>>
    BY <2>3 DEF IsState, Same, StateFields
  <2>5. /\ a.type = "created" /\ a.index = None /\ a.body.id = <<"resp", stem>>
        /\ b.type = "in_progress" /\ b.index = None /\ b.body.id = <<"resp", stem>>
    BY <2>4 DEF Event, ResponseEnvelope
  <2> HIDE DEF named, response, a, b
  <2>6. Running(o, named) /\ o \o named.pending = o \o s.pending
    BY <1>0, <2>2, <2>4 DEF Running, Told, Same, StateFields
  <2>7. named.sequence \in Nat /\ IsSeq(named.pending)
    BY <2>6, ConcatFacts, SeqFacts DEF Running, Told
  <2>8. EmitAll(named, <<a, b>>) = u
    BY <2>4, <2>7, EmitTwo
  <2>9. /\ Running(o, t) /\ Same(named, t, {"pending", "sequence"})
        /\ o \o t.pending = Append(o \o named.pending, x)
    <3>1. Good(x) /\ a.type \notin TerminalTypes
      BY <2>2, <2>5, <2>7, ResponseEventGood DEF ResponseTypes, TerminalTypes
    <3> QED BY <2>6, <3>1, RunEmit
  <2> HIDE DEF t
  <2>10. t.sequence \in Nat
    BY <2>9, ConcatFacts, SeqFacts DEF Running, Told
  <2>11. /\ Running(o, u) /\ Same(t, u, {"pending", "sequence"})
         /\ o \o u.pending = Append(o \o t.pending, y)
    <3>1. Good(y) /\ b.type \notin TerminalTypes
      BY <2>2, <2>5, <2>10, ResponseEventGood DEF ResponseTypes, TerminalTypes
    <3> QED BY <2>9, <3>1, RunEmit
  <2> HIDE DEF u
  <2>12. /\ x.type = "created" /\ y.type = "in_progress" /\ x.index = None /\ y.index = None
    BY <2>5 DEF Numbered
  <2>13. /\ ~Streams(x) /\ ~Streams(y) /\ {x.type, y.type} \cap {"item.added", "item.done"} = {}
         /\ x.index \notin Nat /\ y.index \notin Nat
    BY <2>12, TypesApart, ConstantsAssumption DEF Streams, ResponseTypes
  <2>17. x.type \notin DeltaTypes /\ y.type \notin DeltaTypes
    BY <2>12, DeltasApart
  <2> HIDE DEF x, y
  <2>14. Items(o \o t.pending, s.open, s.nextIndex, s.calls, 0)
    BY <1>0, <2>6, <2>9, <2>13, ItemsOther
  <2>15. Items(o \o u.pending, s.open, s.nextIndex, s.calls, 0)
    BY <2>11, <2>13, <2>14, ItemsOther
  <2>16. /\ u.open = s.open /\ u.nextIndex = s.nextIndex /\ u.calls = s.calls
         /\ u.started = TRUE /\ u.output = s.output
    BY <2>4, <2>9, <2>11 DEF Same, StateFields
  <2>18. /\ Typed(s.open, s.nextIndex, s.calls, 0) /\ IsSeq(o \o s.pending)
         /\ IsSeq(o \o t.pending)
    BY <1>0, <2>14 DEF Items
  <2>19. /\ Lists(s.output, o \o t.pending) /\ Exact(o \o t.pending, s.open, s.calls, 0, h)
    BY <1>0, <2>6, <2>9, <2>13, <2>17, <2>18, ListsOther, ExactOther
  <2>20. /\ Lists(s.output, o \o u.pending) /\ Exact(o \o u.pending, s.open, s.calls, 0, h)
    BY <2>11, <2>13, <2>17, <2>18, <2>19, ListsOther, ExactOther
  <2>21. Base(o, u, u.calls, 0)
    BY <1>0, <2>11, <2>15, <2>16, <2>20 DEF Base
  <2>22. Steady(o, u, h)
    BY <2>16, <2>20, <2>21 DEF Steady, Work
  <2> QED BY <2>1, <2>8, <2>22
<1> QED BY <1>1, <1>2
-----------------------------------------------------------------------------
(* The input of a freeform call is a text.                                 *)
LEMMA FreeformSeq ==
  ASSUME NEW arguments, IsSeq(arguments)
  PROVE  IsSeq(FreeformInput(arguments))
<1>1. PICK S : arguments \in Seq(S)
  BY DEF IsSeq
<1>2. Len(arguments) >= 2 => SubSeq(arguments, 2, Len(arguments) - 1) \in Seq(S)
  BY <1>1
<1> QED BY <1>1, <1>2 DEF FreeformInput, IsSeq

(* What a call is closed with: what its arguments are, and before that the *)
(* input if it is freeform.                                                *)
CallPayload(call) ==
  IF call.freeform THEN FreeformInput(call.arguments)
  ELSE IF call.arguments = <<>> THEN EmptyObject ELSE call.arguments

(* The client is told the input of a freeform call before it is closed.    *)
LEMMA InputTold ==
  ASSUME NEW o, NEW s, NEW h, NEW cs, NEW n, Work(o, s, cs, n, h), n + 1 \in (n + 1)..Len(cs),
         cs[n + 1].announced, cs[n + 1].freeform,
         NEW e, e.type = "input.delta", e.index = cs[n + 1].index,
         e.body = CallPayload(cs[n + 1])
  PROVE  /\ Base(o, Emit(s, e), cs, n) /\ Same(s, Emit(s, e), {"pending", "sequence"})
         /\ Exact(o \o Emit(s, e).pending, s.open, cs, n + 1, h)
         /\ StreamedTo(o \o Emit(s, e).pending, cs[n + 1].index) = CallPayload(cs[n + 1])
<1> DEFINE call == cs[n + 1]
           q == o \o s.pending
           x == Numbered(e, s.sequence)
           t == Emit(s, e)
           w == Append(q, x)
<1>1. /\ Base(o, s, cs, n) /\ Exact(q, s.open, cs, n, h)
      /\ Items(q, s.open, s.nextIndex, cs, n) /\ IsSeq(q)
      /\ Typed(s.open, s.nextIndex, cs, n)
  BY DEF Work, Base, Items
<1>2. call.index \in Nat /\ call.id # <<>>
  BY <1>1, CallFacts
<1>3. e.type \in StreamTypes /\ e.type \in DeltaTypes
  BY TypesApart, DeltasApart
<1>4. Held(s.open, cs, n, e.index)
  BY DEF Held
<1>5. /\ Base(o, t, cs, n) /\ Same(s, t, {"pending", "sequence"}) /\ o \o t.pending = w
      /\ x.type = e.type /\ x.index = e.index /\ x.body = e.body
  BY <1>1, <1>3, <1>4, BaseStream
<1> HIDE DEF t, x, q
<1>6. CallTold(q, call)
  BY <1>1 DEF Exact, InHand
<1>7. IsSeq(x.body)
  <2>1. IsSeq(call.arguments)
    BY <1>6 DEF CallTold
  <2> QED BY <1>5, <2>1, FreeformSeq DEF CallPayload
<1>8. NotClosed(q, x.index)
  <2>1. Live(q, call.index, CallType(call), call.id)
    BY <1>1, <1>2 DEF Items, CallLive
  <2> QED BY <1>5, <2>1 DEF Live, NotClosed
<1>9. Says(h, h, x)
  BY <1>5, DeltasApart DEF Says
<1>10. /\ Known(w, h) /\ StreamedTo(w, x.index) = StreamedTo(q, x.index) \o x.body
       /\ \A j \in Nat : j # x.index => StreamedTo(w, j) = StreamedTo(q, j)
  <2>1. x.type \in DeltaTypes /\ x.index \in Nat /\ Known(q, h) /\ IsSeq(q)
    BY <1>1, <1>2, <1>3, <1>5 DEF Exact
  <2>2. IsSeq(x.body) /\ NotClosed(q, x.index) /\ Says(h, h, x)
    BY <1>7, <1>8, <1>9
  <2>3. /\ Known(Append(q, x), h)
        /\ StreamedTo(Append(q, x), x.index) = StreamedTo(q, x.index) \o x.body
        /\ \A i \in Nat : i # x.index => StreamedTo(Append(q, x), i) = StreamedTo(q, i)
    <3> HIDE DEF w
    <3> QED BY <2>1, <2>2, KnownDelta, ZenonT(40)
  <2> QED BY <2>3
<1>11. StreamedTo(w, call.index) = CallPayload(call)
  <2>1. StreamedTo(q, call.index) = <<>>
    BY <1>6 DEF CallTold
  <2> QED BY <1>5, <1>7, <1>10, <2>1, EmptyFacts
<1> HIDE DEF w
<1>12. ASSUME NEW k \in TextKinds, s.open[k] # None
       PROVE  StreamedTo(w, s.open[k].index) = s.open[k].text
  <2>1. s.open[k].index # call.index
    BY <1>1, <1>2, <1>12 DEF Items, CallLive
  <2>2. s.open[k].index \in Nat
    BY <1>1, <1>12, TextItemFacts DEF Typed
  <2>3. StreamedTo(q, s.open[k].index) = s.open[k].text
    BY <1>1, <1>12 DEF Exact, InHand
  <2> QED BY <1>5, <1>10, <2>1, <2>2, <2>3
<1>13. ASSUME NEW m \in ((n + 1) + 1)..Len(cs) PROVE CallTold(w, cs[m])
  <2>1. m \in (n + 1)..Len(cs) /\ m # n + 1
    <3>1. Len(cs) \in Nat /\ n \in 0..Len(cs)
      BY <1>1, SeqFacts DEF Typed
    <3> QED BY <3>1
  <2>2. cs[m].index \in Nat /\ (cs[m].announced => cs[m].id # <<>>)
    BY <1>1, <2>1, CallFacts
  <2>3. cs[m].announced => cs[m].index # call.index
    BY <1>1, <1>2, <2>1, <2>2 DEF Items, CallLive
  <2>4. CallTold(q, cs[m])
    BY <1>1, <2>1 DEF Exact, InHand
  <2>5. cs[m].announced => StreamedTo(w, cs[m].index) = StreamedTo(q, cs[m].index)
    BY <1>5, <1>10, <2>2, <2>3
  <2> QED BY <2>4, <2>5 DEF CallTold
<1>14. Exact(w, s.open, cs, n + 1, h)
  BY <1>10, <1>12, <1>13 DEF Exact, InHand
<1> QED BY <1>5, <1>11, <1>14 DEF t

(* One call less is in hand.                                               *)
LEMMA ExactNext ==
  ASSUME NEW q, NEW open, NEW next, NEW cs, NEW n, NEW h, Typed(open, next, cs, n),
         n + 1 \in 1..Len(cs), Exact(q, open, cs, n, h)
  PROVE  Exact(q, open, cs, n + 1, h) /\ Typed(open, next, cs, n + 1)
         /\ n + 1 \in (n + 1)..Len(cs)
<1>1. Len(cs) \in Nat /\ n \in 0..Len(cs)
  BY SeqFacts DEF Typed
<1>2. \A m \in ((n + 1) + 1)..Len(cs) : m \in (n + 1)..Len(cs)
  BY <1>1
<1>3. n + 1 \in 0..Len(cs) /\ n + 1 \in (n + 1)..Len(cs)
  BY <1>1
<1> QED BY <1>2, <1>3 DEF Exact, InHand, Typed

(* close_tool_calls closes an announced call: its end, then its item.      *)
LEMMA WorkCloseCall ==
  ASSUME NEW o, NEW s, NEW h, NEW cs, NEW n, Work(o, s, cs, n, h), n + 1 \in 1..Len(cs),
         cs[n + 1].announced
  PROVE  /\ Work(o, CloseCall(s, cs[n + 1]), cs, n + 1, h)
         /\ Same(s, CloseCall(s, cs[n + 1]), {"pending", "sequence", "output"})
<1> DEFINE call == cs[n + 1]
           payload == CallPayload(call)
           item == CallItem(call, payload)
           a == Event("input.delta", call.index, payload)
           b == Event(IF call.freeform THEN "input.done" ELSE "arguments.done", call.index, payload)
           c == Event("item.done", call.index, item)
           events == IF call.freeform THEN <<a, b, c>> ELSE <<b, c>>
           r == CloseCall(s, call)
<1>1. r = [EmitAll(s, events) EXCEPT !.output = Append(@, item)]
  BY DEF CloseCall, CallPayload
<1>2. /\ a.type = "input.delta" /\ a.index = call.index /\ a.body = payload
      /\ b.type \in StreamTypes /\ b.type \notin DeltaTypes
      /\ b.index = call.index /\ c.type = "item.done" /\ c.index = call.index /\ c.body = item
      /\ item.type = CallType(call) /\ item.id = call.id /\ item.payload = payload
  BY TypesApart, DeltasApart DEF Event, CallItem, CallType
<1> HIDE DEF a, b, c, item, payload
<1>3. /\ Base(o, s, cs, n) /\ Exact(o \o s.pending, s.open, cs, n, h) /\ Running(o, s)
      /\ Typed(s.open, s.nextIndex, cs, n)
  BY DEF Work, Base, Items
<1>4. /\ n + 1 \in (n + 1)..Len(cs) /\ Exact(o \o s.pending, s.open, cs, n + 1, h)
      /\ Typed(s.open, s.nextIndex, cs, n + 1)
  BY <1>3, ExactNext
<1>5. Held(s.open, cs, n, call.index) /\ call.index \in Nat
  BY <1>3, <1>4, CallFacts DEF Held
<1>6. \E t : /\ Base(o, t, cs, n) /\ Same(s, t, {"pending", "sequence"})
             /\ EmitAll(s, events) = Emit(Emit(t, b), c)
             /\ Exact(o \o t.pending, s.open, cs, n + 1, h)
             /\ Matches(item, StreamedTo(o \o t.pending, call.index))
  <2>1. IsState(s) /\ IsSeq(s.pending) /\ s.sequence \in Nat
    <3>1. c.type \in StreamTypes \cup {"item.added", "item.done"}
      BY <1>2
    <3> QED BY <1>3, <3>1, RunItem
  <2>2. CASE call.freeform
    <3>1. /\ Base(o, Emit(s, a), cs, n) /\ Same(s, Emit(s, a), {"pending", "sequence"})
          /\ Exact(o \o Emit(s, a).pending, s.open, cs, n + 1, h)
          /\ StreamedTo(o \o Emit(s, a).pending, call.index) = payload
      BY <1>2, <1>4, <2>2, InputTold DEF payload
    <3>2. EmitAll(s, events) = Emit(Emit(Emit(s, a), b), c)
      BY <2>1, <2>2, EmitThree
    <3>3. Matches(item, payload)
      BY <1>2, <2>2 DEF Matches, CallType, TextKinds
    <3> QED BY <3>1, <3>2, <3>3
  <2>3. CASE ~call.freeform
    <3>1. EmitAll(s, events) = Emit(Emit(s, b), c)
      BY <2>1, <2>3, EmitTwo
    <3>2. Same(s, s, {"pending", "sequence"})
      BY DEF Same
    <3> DEFINE text == StreamedTo(o \o s.pending, call.index)
    <3>3. CallTold(o \o s.pending, call)
      BY <1>3, <1>4 DEF Exact, InHand
    <3>4. Ends(text, call.arguments)
      BY <2>3, <3>3 DEF CallTold
    <3> HIDE DEF text
    <3>5. Ends(text, payload)
      <4>1. CASE call.arguments = <<>>
        <5>1. text = <<>>
          BY <3>4, <4>1, EndsSuffix
        <5>2. IsSeq(EmptyObject)
          <6>1. EmptyObject \in Seq({"{}"})
            BY DEF EmptyObject
          <6> QED BY <6>1 DEF IsSeq
        <5>3. payload = EmptyObject
          BY <2>3, <4>1 DEF payload, CallPayload
        <5> QED BY <5>1, <5>2, <5>3, EndsEmpty
      <4>2. CASE call.arguments # <<>>
        BY <2>3, <3>4, <4>2 DEF payload, CallPayload
      <4> QED BY <4>1, <4>2
    <3>6. Matches(item, text)
      BY <1>2, <2>3, <3>5 DEF Matches, CallType
    <3> QED BY <1>3, <1>4, <3>1, <3>2, <3>6 DEF text
  <2> QED BY <2>2, <2>3
<1>7. PICK t : /\ Base(o, t, cs, n) /\ Same(s, t, {"pending", "sequence"})
               /\ EmitAll(s, events) = Emit(Emit(t, b), c)
               /\ Exact(o \o t.pending, s.open, cs, n + 1, h)
               /\ Matches(item, StreamedTo(o \o t.pending, call.index))
  BY <1>6
<1> DEFINE u == Emit(t, b)
           v == Emit(u, c)
           y == Numbered(b, t.sequence)
           x == Numbered(c, u.sequence)
<1>8. t.open = s.open /\ t.nextIndex = s.nextIndex
  BY <1>7 DEF Same, StateFields
<1>9. /\ Base(o, u, cs, n) /\ Same(t, u, {"pending", "sequence"})
      /\ o \o u.pending = Append(o \o t.pending, y) /\ y.type = b.type
  <2>1. Base(o, t, cs, n) /\ b.type \in StreamTypes
    BY <1>2, <1>7
  <2>2. Held(t.open, cs, n, b.index)
    BY <1>2, <1>5, <1>8
  <2> HIDE DEF call
  <2>3. /\ Base(o, Emit(t, b), cs, n) /\ Same(t, Emit(t, b), {"pending", "sequence"})
        /\ o \o Emit(t, b).pending = Append(o \o t.pending, Numbered(b, t.sequence))
        /\ Numbered(b, t.sequence).type = b.type
    BY <2>1, <2>2, BaseStream
  <2> QED BY <2>3
<1> HIDE DEF u, events, r, y, call
<1>10. /\ Running(o, u) /\ Items(o \o u.pending, u.open, u.nextIndex, cs, n)
       /\ IsSeq(u.output) /\ Lists(u.output, o \o u.pending) /\ IsSeq(o \o u.pending)
       /\ IsSeq(o \o t.pending)
  BY <1>7, <1>9 DEF Base, Items
<1>11. /\ Exact(o \o u.pending, s.open, cs, n + 1, h)
       /\ Matches(item, StreamedTo(o \o u.pending, call.index))
  <2>1. y.type \notin DeltaTypes /\ y.type # "item.done"
    BY <1>2, <1>9, TypesApart
  <2>2. /\ Exact(Append(o \o t.pending, y), s.open, cs, n + 1, h)
        /\ \A j \in Nat : StreamedTo(Append(o \o t.pending, y), j) = StreamedTo(o \o t.pending, j)
    BY <1>4, <1>7, <1>10, <2>1, ExactOther
  <2> QED BY <1>5, <1>7, <1>9, <2>2
<1>12. /\ Running(o, v) /\ Same(u, v, {"pending", "sequence"}) /\ IsState(v)
       /\ o \o v.pending = Append(o \o u.pending, x)
       /\ x.type = c.type /\ x.index = c.index /\ x.body = c.body
  <2>1. c.type \in StreamTypes \cup {"item.added", "item.done"}
    BY <1>2
  <2>2. Running(o, u)
    BY <1>10
  <2> QED BY <2>1, <2>2, RunItem
<1>13. r = [v EXCEPT !.output = Append(@, item)]
  BY <1>1, <1>7 DEF u
<1> HIDE DEF v, x
<1>14. Items(Append(o \o u.pending, x), u.open, u.nextIndex, cs, n + 1)
  <2>1. Closes(x, call.index) /\ x.body.type = CallType(call) /\ x.body.id = call.id
    BY <1>2, <1>12 DEF Closes
  <2> QED BY <1>10, <2>1, ItemsCloseCall DEF call
<1>15. /\ IsState(r) /\ Same(v, r, {"output"}) /\ r.output = Append(v.output, item)
  BY <1>12, <1>13 DEF IsState, Same, StateFields
<1>16. Running(o, r) /\ o \o r.pending = o \o v.pending
  <2>1. Same(v, r, {"model", "output", "calls", "open", "usage", "nextIndex"})
    BY <1>15 DEF Same
  <2> QED BY <1>12, <1>15, <2>1, RunChange
<1>17. /\ r.open = u.open /\ r.nextIndex = u.nextIndex /\ v.output = u.output
       /\ u.open = s.open
  BY <1>8, <1>9, <1>12, <1>15 DEF Same, StateFields
<1>18. IsSeq(r.output) /\ Lists(r.output, Append(o \o u.pending, x))
  <2>1. r.output = Append(u.output, x.body) /\ x.type = "item.done"
    BY <1>2, <1>12, <1>15, <1>17
  <2>2. IsSeq(Append(u.output, x.body))
    BY <1>10, AppendFacts
  <2> QED BY <1>10, <2>1, <2>2, ListsClose
<1>19. Exact(Append(o \o u.pending, x), s.open, cs, n + 1, h)
  <2>1. /\ x.type \notin DeltaTypes /\ x.index \in Nat
        /\ Matches(x.body, StreamedTo(o \o u.pending, x.index))
    BY <1>2, <1>5, <1>11, <1>12, DeltasApart
  <2> QED BY <1>4, <1>10, <1>11, <2>1, ExactOther
<1>20. Base(o, r, cs, n + 1)
  BY <1>12, <1>14, <1>16, <1>17, <1>18 DEF Base
<1>21. Work(o, r, cs, n + 1, h)
  BY <1>12, <1>16, <1>17, <1>19, <1>20 DEF Work
<1>22. Same(s, r, {"pending", "sequence", "output"})
  BY <1>7, <1>9, <1>12, <1>15 DEF Same
<1> QED BY <1>21, <1>22 DEF r, call

(* All of them, in order.                                                  *)
LEMMA WorkCloseToolCalls ==
  ASSUME NEW o, NEW s, NEW h, Steady(o, s, h)
  PROVE  /\ Work(o, CloseToolCalls(s), s.calls, Len(s.calls), h)
         /\ Same(s, CloseToolCalls(s), {"pending", "sequence", "output", "calls"})
<1> DEFINE cs == s.calls
           first == [s EXCEPT !.calls = <<>>]
           Step(g, n) == IF cs[n].announced THEN CloseCall(g[n - 1], cs[n]) ELSE g[n - 1]
           IsRun(g, m) == g = [n \in 0..m |-> IF n = 0 THEN first ELSE Step(g, n)]
           closed == CHOOSE g : IsRun(g, Len(cs))
           Kept(t) == Same(s, t, {"pending", "sequence", "output", "calls"})
           E == {m \in Nat : \E g : IsRun(g, m)}
           S == {m \in Nat : m <= Len(cs) => Work(o, closed[m], cs, m, h) /\ Kept(closed[m])}
<1>1. 0 \in E
  <2> DEFINE g == [n \in 0..0 |-> first]
  <2>1. g = [n \in 0..0 |-> IF n = 0 THEN first ELSE Step(g, n)]
    <3> HIDE DEF first, Step
    <3> QED OBVIOUS
  <2>2. IsRun(g, 0)
    BY <2>1
  <2> HIDE DEF g, IsRun
  <2> QED BY <2>2
<1>2. ASSUME NEW m \in Nat, m \in E PROVE m + 1 \in E
  <2>1. PICK g : IsRun(g, m)
    BY <1>2
  <2> HIDE DEF first, cs
  <2> DEFINE w == [n \in 0..(m + 1) |-> IF n <= m THEN g[n] ELSE Step(g, m + 1)]
  <2>2. \A n \in 0..(m + 1) : w[n] = IF n = 0 THEN first ELSE Step(w, n)
    <3>0. w[0] = first
      <4> HIDE DEF Step
      <4> QED BY <2>1
    <3> SUFFICES ASSUME NEW n \in 0..(m + 1), n # 0 PROVE w[n] = Step(w, n)
      <4> HIDE DEF Step, w
      <4> QED BY <3>0
    <3>1. w[n - 1] = g[n - 1]
      OBVIOUS
    <3>2. Step(w, n) = Step(g, n)
      BY <3>1
    <3>3. w[n] = Step(g, n)
      <4> HIDE DEF Step
      <4> QED BY <2>1
    <3> QED BY <3>2, <3>3
  <2>3. w = [n \in 0..(m + 1) |-> IF n = 0 THEN first ELSE Step(w, n)]
    <3> HIDE DEF Step
    <3> QED BY <2>2
  <2>4. IsRun(w, m + 1) /\ m + 1 \in Nat
    BY <2>3
  <2> HIDE DEF w, IsRun
  <2> QED BY <2>4
<1>3. /\ Running(o, s) /\ Items(o \o s.pending, s.open, s.nextIndex, cs, 0) /\ Len(cs) \in Nat
      /\ IsSeq(s.output) /\ Lists(s.output, o \o s.pending)
      /\ Exact(o \o s.pending, s.open, cs, 0, h)
  BY SteadyFacts, SeqFacts
<1>4. Len(cs) \in E
  <2> HIDE DEF E
  <2>1. Nat \subseteq E
    BY <1>1, <1>2, SetInduction
  <2> QED BY <1>3, <2>1
<1>5. IsRun(closed, Len(cs))
  BY <1>4
<1>6. CloseToolCalls(s) = closed[Len(cs)]
  BY DEF CloseToolCalls
<1>7. Work(o, first, cs, 0, h) /\ Kept(first)
  <2>1. IsState(s)
    BY <1>3 DEF Running, Told
  <2>2. IsState(first) /\ Same(s, first, {"calls"})
    BY <2>1 DEF IsState, Same, StateFields
  <2> HIDE DEF first, cs
  <2>3. Same(s, first, {"model", "output", "calls", "open", "usage", "nextIndex"})
    BY <2>2 DEF Same
  <2>4. Running(o, first) /\ o \o first.pending = o \o s.pending
    BY <1>3, <2>2, <2>3, RunChange
  <2>5. first.open = s.open /\ first.nextIndex = s.nextIndex /\ first.output = s.output
    BY <2>2 DEF Same, StateFields
  <2> QED BY <1>3, <2>2, <2>4, <2>5 DEF Work, Base, Same
<1> HIDE DEF closed, cs, first
<1>8. 0 \in S
  <2>1. closed[0] = first
    <3> HIDE DEF Step
    <3> QED BY <1>3, <1>5
  <2> QED BY <1>7, <2>1
<1>9. ASSUME NEW m \in Nat, m \in S PROVE m + 1 \in S
  <2> SUFFICES ASSUME m + 1 <= Len(cs)
               PROVE  Work(o, closed[m + 1], cs, m + 1, h) /\ Kept(closed[m + 1])
    OBVIOUS
  <2>1. closed[m + 1] = Step(closed, m + 1) /\ (m + 1) - 1 = m
    <3> HIDE DEF Step
    <3> QED BY <1>3, <1>5
  <2>2. Work(o, closed[m], cs, m, h) /\ Kept(closed[m]) /\ m + 1 \in 1..Len(cs)
    BY <1>3, <1>9
  <2>3. CASE cs[m + 1].announced
    <3>1. closed[m + 1] = CloseCall(closed[m], cs[m + 1])
      BY <2>1, <2>3
    <3>2. /\ Work(o, closed[m + 1], cs, m + 1, h)
          /\ Same(closed[m], closed[m + 1], {"pending", "sequence", "output"})
      BY <2>2, <2>3, <3>1, WorkCloseCall
    <3> QED BY <2>2, <3>2 DEF Same
  <2>4. CASE ~cs[m + 1].announced
    <3>1. closed[m + 1] = closed[m]
      BY <2>1, <2>4
    <3> DEFINE t == closed[m]
    <3>2. Base(o, t, cs, m) /\ Exact(o \o t.pending, t.open, cs, m, h)
      BY <2>2 DEF Work
    <3> HIDE DEF t
    <3>3. Items(o \o t.pending, t.open, t.nextIndex, cs, m)
      BY <3>2 DEF Base
    <3>4. Typed(t.open, t.nextIndex, cs, m)
      BY <3>3 DEF Items
    <3>5. Items(o \o t.pending, t.open, t.nextIndex, cs, m + 1)
      BY <2>2, <2>4, <3>3, ItemsSkipCall
    <3>6. Exact(o \o t.pending, t.open, cs, m + 1, h)
      BY <2>2, <3>2, <3>4, ExactNext
    <3>7. Work(o, t, cs, m + 1, h)
      BY <3>2, <3>5, <3>6 DEF Work, Base
    <3> QED BY <2>2, <3>1, <3>7 DEF t
  <2> QED BY <2>3, <2>4
<1>10. Len(cs) \in S
  <2> HIDE DEF S
  <2>1. Nat \subseteq S
    BY <1>8, <1>9, SetInduction
  <2> QED BY <1>3, <2>1
<1> QED BY <1>3, <1>6, <1>10 DEF cs
-----------------------------------------------------------------------------
(* A response that is over: its last event is the only terminal one, and   *)
(* if it did not fail every item was closed and is in its output.          *)
AllClosed(q) ==
  \A p \in 1..Len(q) : q[p].type = "item.added" => \E r \in 1..Len(q) : Closes(q[r], q[p].index)
Ended(q) ==
  /\ Len(q) \in Nat \ {0} /\ IsTerminal(q[Len(q)]) /\ Bracketed(q)
  /\ \A p \in 1..(Len(q) - 1) : ~IsTerminal(q[p])
  /\ q[Len(q)].type # "error" => AllClosed(q) /\ Lists(q[Len(q)].body.output, q)
Final(q, output) == q[Len(q)].type # "error" => q[Len(q)].body.output = output
Over(o, s, h) ==
  /\ Told(o, s) /\ s.terminated = TRUE /\ s.finished = TRUE
  /\ Ended(o \o s.pending) /\ Known(o \o s.pending, h) /\ Final(o \o s.pending, s.output)
  /\ \E k \in TextKinds : s.open[k] = None

(* One that failed.                                                        *)
Failed(o, s) == (o \o s.pending)[Len(o \o s.pending)].type = "error"

(* The terminal event.                                                     *)
LEMMA Terminate ==
  ASSUME NEW o, NEW s, NEW h, NEW cs, NEW n, Work(o, s, cs, n, h), NEW e, e.type \in TerminalTypes,
         e.index = None, Good(Numbered(e, s.sequence)),
         e.type # "error" => AllClosed(o \o s.pending) /\ e.body.output = s.output
  PROVE  LET t == [Emit(s, e) EXCEPT !.terminated = TRUE, !.finished = TRUE]
         IN /\ Over(o, t, h) /\ Same(s, t, {"pending", "sequence", "terminated", "finished"})
            /\ e.type = "error" => Failed(o, t)
<1> DEFINE q == o \o s.pending
           x == Numbered(e, s.sequence)
           u == Emit(s, e)
           t == [u EXCEPT !.terminated = TRUE, !.finished = TRUE]
<1>1. /\ Running(o, s) /\ Told(o, s) /\ Items(q, s.open, s.nextIndex, cs, n)
      /\ Known(q, h) /\ Lists(s.output, q)
  BY DEF Work, Base, Exact, Running
<1>2. IsState(s) /\ IsSeq(o) /\ IsSeq(s.pending)
  BY <1>1 DEF Told
<1>3. IsSeq(q) /\ Len(q) \in Nat /\ s.sequence = Len(q)
  BY <1>1, <1>2, ConcatFacts, SeqFacts DEF Told
<1>4. /\ IsState(u) /\ Same(s, u, {"pending", "sequence"}) /\ IsSeq(u.pending)
      /\ u.sequence = s.sequence + 1 /\ o \o u.pending = Append(q, x)
  BY <1>2, <1>3, EmitOne
<1>5. /\ Len(Append(q, x)) = Len(q) + 1 /\ \A p \in 1..Len(q) : Append(q, x)[p] = q[p]
      /\ Append(q, x)[Len(q) + 1] = x
  BY <1>3, AppendFacts
<1>6. /\ x.seq = s.sequence /\ x.type = e.type /\ x.index = e.index /\ x.body = e.body
      /\ Good(x)
  BY DEF Numbered
<1>7. /\ \A p \in 1..Len(q) : q[p].seq = p - 1 /\ Good(q[p]) /\ ~IsTerminal(q[p])
      /\ s.started \in BOOLEAN /\ s.buffer \in Seq(Frames)
      /\ s.started => s.stem \in Identifiers /\ s.responseId = <<"resp", s.stem>>
  BY <1>1 DEF Running, Told
<1>8. ~Streams(x) /\ x.type \notin {"item.added", "item.done"} /\ IsTerminal(x)
  BY <1>6, TypesApart DEF Streams, IsTerminal
<1>19. x.type \notin DeltaTypes
  BY <1>6, DeltasApart DEF TerminalTypes
<1> HIDE DEF u, q, x
<1>9. /\ IsState(t) /\ Same(u, t, {"terminated", "finished"})
      /\ t.terminated = TRUE /\ t.finished = TRUE
  BY <1>4 DEF IsState, Same, StateFields
<1> HIDE DEF t
<1>10. Same(s, t, {"pending", "sequence", "terminated", "finished"})
  BY <1>4, <1>9 DEF Same
<1>11. /\ t.started \in BOOLEAN /\ t.buffer \in Seq(Frames)
       /\ t.started => t.stem \in Identifiers /\ t.responseId = <<"resp", t.stem>>
       /\ t.pending = u.pending /\ t.sequence = s.sequence + 1 /\ t.open = s.open
       /\ t.output = s.output
  BY <1>4, <1>7, <1>9 DEF Same, StateFields
<1> DEFINE v == Append(q, x)
<1>12. o \o t.pending = v
  BY <1>4, <1>11
<1>13. \A p \in 1..Len(v) : v[p].seq = p - 1 /\ Good(v[p])
  BY <1>3, <1>5, <1>6, <1>7
<1>14. Bracketed(v)
  BY <1>1, <1>3, <1>8, BracketOther DEF Items
<1>20. Known(v, h) /\ Lists(s.output, v)
  BY <1>1, <1>3, <1>8, <1>19, KnownOther, ListsOther
<1> HIDE DEF v
<1>15. Told(o, t)
  BY <1>2, <1>3, <1>4, <1>5, <1>9, <1>11, <1>12, <1>13 DEF Told, v
<1>16. e.type # "error" => AllClosed(v)
  <2>1. ASSUME AllClosed(q) PROVE AllClosed(v)
    BY <1>3, <1>5, <1>8, <2>1 DEF AllClosed, v
  <2> QED BY <2>1 DEF q
<1>17. Ended(v)
  <2>1. /\ Len(v) = Len(q) + 1 /\ v[Len(v)] = x /\ Len(v) \in Nat \ {0}
        /\ \A p \in 1..(Len(v) - 1) : ~IsTerminal(v[p])
    BY <1>3, <1>5, <1>7 DEF v
  <2>2. x.type # "error" => AllClosed(v) /\ Lists(x.body.output, v)
    BY <1>6, <1>16, <1>20
  <2> QED BY <1>8, <1>14, <2>1, <2>2 DEF Ended
<1>18. \E k \in TextKinds : t.open[k] = None
  BY <1>1, <1>11 DEF Items, TextLive, TextKinds
<1>21. v[Len(v)].type = e.type /\ Final(v, t.output)
  BY <1>3, <1>5, <1>6, <1>11 DEF Final, v
<1>22. Over(o, t, h)
  BY <1>9, <1>12, <1>15, <1>17, <1>18, <1>20, <1>21 DEF Over
<1>23. e.type = "error" => Failed(o, t)
  BY <1>12, <1>21 DEF Failed
<1> QED BY <1>10, <1>22, <1>23 DEF t, u

(* fail.                                                                   *)
LEMMA FailEnds ==
  ASSUME NEW o, NEW s, NEW h, NEW cs, NEW n, Work(o, s, cs, n, h), NEW message
  PROVE  /\ Over(o, Fail(s, message), h) /\ Failed(o, Fail(s, message))
         /\ Same(s, Fail(s, message), {"pending", "sequence", "terminated", "finished"})
<1> DEFINE e == Event("error", None, [message |-> message, id |-> s.responseId])
<1>1. e.type = "error" /\ e.index = None /\ e.type \in TerminalTypes
  BY DEF Event, TerminalTypes
<1>2. Good(Numbered(e, s.sequence))
  BY <1>1 DEF Good, Numbered
<1>3. s.terminated = FALSE
  BY DEF Work, Base, Running
<1> DEFINE t == [Emit(s, e) EXCEPT !.terminated = TRUE, !.finished = TRUE]
<1>4. Fail(s, message) = t
  BY <1>3 DEF Fail
<1> HIDE DEF e
<1>5. /\ Over(o, t, h) /\ Same(s, t, {"pending", "sequence", "terminated", "finished"})
      /\ Failed(o, t)
  BY <1>1, <1>2, Terminate
<1> QED BY <1>4, <1>5

(* complete.                                                               *)
LEMMA CompleteEnds ==
  ASSUME NEW o, NEW s, NEW h, Steady(o, s, h), NEW reason
  PROVE  Over(o, Complete(s, reason), h)
<1> DEFINE a == CloseReasoning(s)
           b == CloseMessage(a)
           c == CloseToolCalls(b)
           status == IF reason = "length" THEN "incomplete" ELSE "completed"
           e == Event(status, None, ResponseEnvelope(c, status, c.output))
           t == [Emit(c, e) EXCEPT !.terminated = TRUE, !.finished = TRUE]
<1>1. "reasoning" \in TextKinds /\ "message" \in TextKinds
  BY DEF TextKinds
<1>2. s.terminated = FALSE /\ s.started = TRUE
  BY DEF Steady, Work, Base, Running
<1>3. Complete(s, reason) = t
  BY <1>2 DEF Complete
<1>4. /\ Work(o, a, s.calls, 0, h) /\ a.open["reasoning"] = None
      /\ Same(s, a, {"pending", "sequence", "open", "output"})
  BY <1>1, WorkCloseText DEF Steady, CloseReasoning
<1> HIDE DEF a
<1>5. /\ Work(o, b, s.calls, 0, h) /\ b.open["message"] = None /\ b.open["reasoning"] = None
      /\ Same(a, b, {"pending", "sequence", "open", "output"})
  BY <1>1, <1>4, WorkCloseText DEF CloseMessage
<1> HIDE DEF b
<1>6. Steady(o, b, h)
  <2>1. b.calls = s.calls /\ b.started = TRUE
    BY <1>2, <1>4, <1>5 DEF Same, StateFields
  <2> QED BY <1>5, <2>1 DEF Steady
<1>7. /\ Work(o, c, b.calls, Len(b.calls), h)
      /\ Same(b, c, {"pending", "sequence", "output", "calls"})
  BY <1>6, WorkCloseToolCalls
<1> HIDE DEF c
<1>8. AllClosed(o \o c.pending)
  <2>1. \A k \in TextKinds : c.open[k] = None
    BY <1>5, <1>7 DEF Same, StateFields, TextKinds
  <2>2. Items(o \o c.pending, c.open, c.nextIndex, b.calls, Len(b.calls))
    BY <1>7 DEF Work, Base
  <2> QED BY <2>1, <2>2, ItemsAllClosed DEF AllClosed
<1>9. /\ e.type \in {"completed", "incomplete"} /\ e.index = None /\ e.body.id = c.responseId
      /\ e.body.output = c.output
  BY DEF Event, ResponseEnvelope
<1> HIDE DEF e
<1>10. Good(Numbered(e, c.sequence))
  <2>1. Told(o, c)
    BY <1>7 DEF Work, Base, Running
  <2>2. c.sequence \in Nat
    BY <2>1, ConcatFacts, SeqFacts DEF Told
  <2>3. c.started
    BY <1>2, <1>4, <1>5, <1>7 DEF Same, StateFields
  <2>4. c.stem \in Identifiers /\ c.responseId = <<"resp", c.stem>>
    BY <2>1, <2>3 DEF Told
  <2> QED BY <1>9, <2>2, <2>4, ResponseEventGood DEF ResponseTypes
<1>11. e.type \in TerminalTypes
  BY <1>9 DEF TerminalTypes
<1>12. Over(o, t, h) /\ Same(c, t, {"pending", "sequence", "terminated", "finished"})
  BY <1>7, <1>8, <1>9, <1>10, <1>11, Terminate
<1> QED BY <1>3, <1>12
-----------------------------------------------------------------------------
(* handle_chunk and handle_frame: the response goes on, or it is over.     *)
Going(o, s, h) == Work(o, s, s.calls, 0, h)

(* What a frame adds to each kind of text.                                 *)
Hears(g, h, f) == \A k \in TextKinds : g[k] = h[k] \o SaidBy(f, k)

(* Each kind of text is a sequence, and only the texts of h count.         *)
LEMMA TextsKnown ==
  ASSUME NEW o, NEW s, NEW cs, NEW n, NEW h, Work(o, s, cs, n, h)
  PROVE  \A k \in TextKinds : IsSeq(h[k]) /\ h[k] \o <<>> = h[k]
<1>1. \A k \in TextKinds : IsSeq(h[k])
  BY DEF Work, Exact, Known
<1> QED BY <1>1, EmptyFacts

(* The delta of a chunk.                                                   *)
LEMMA SteadyHandleDelta ==
  ASSUME NEW o, NEW s, NEW h, Steady(o, s, h), NEW f, f.reasoning \in Seq(Words),
         f.content \in Seq(Words), f.calls \in Seq(CallDeltas), HasDelta(f),
         NEW g, Hears(g, h, f)
  PROVE  Steady(o, HandleDelta(s, f), g)
<1> DEFINE a == IF f.reasoning = <<>> THEN s ELSE PushReasoning(s, f.reasoning)
           b == IF f.content = <<>> THEN a ELSE PushText(a, f.content)
           w == [k \in TextKinds |-> IF k = "reasoning" THEN h[k] \o f.reasoning ELSE h[k]]
<1>1. HandleDelta(s, f) = PushToolCalls(b, f.calls)
  BY DEF HandleDelta
<1>2. ASSUME NEW t, NEW d, Steady(o, t, d), NEW u, NEW e, Work(o, u, t.calls, 0, e),
             Same(t, u, {"pending", "sequence", "open", "output", "nextIndex"})
      PROVE  Steady(o, u, e)
  <2>1. u.calls = t.calls /\ u.started = t.started
    BY <1>2 DEF Same, StateFields
  <2> QED BY <1>2, <2>1 DEF Steady
<1>3. \A t, d : Steady(o, t, d) => Work(o, t, t.calls, 0, d) /\ t.started
  BY DEF Steady
<1>4. "reasoning" \in TextKinds /\ "message" \in TextKinds
  BY DEF TextKinds
<1>5. /\ SaidBy(f, "reasoning") = f.reasoning /\ SaidBy(f, "message") = f.content
  BY DEF SaidBy
<1>6. Grows(w, h, "reasoning", f.reasoning)
  BY DEF Grows
<1>7. Grows(g, w, "message", f.content)
  <2>1. \A k \in TextKinds : k = "reasoning" \/ k = "message"
    BY DEF TextKinds
  <2>2. /\ g["reasoning"] = h["reasoning"] \o f.reasoning
        /\ g["message"] = h["message"] \o f.content
    BY <1>4, <1>5 DEF Hears
  <2>3. w["reasoning"] = h["reasoning"] \o f.reasoning /\ w["message"] = h["message"]
    BY <1>4
  <2> HIDE DEF w
  <2> QED BY <2>1, <2>2, <2>3 DEF Grows
<1> HIDE DEF w
<1>8. Steady(o, a, w)
  <2>1. CASE f.reasoning = <<>>
    <3>1. \A k \in TextKinds : h[k] \o <<>> = h[k]
      BY <1>3, TextsKnown
    <3>2. \A k \in TextKinds : w[k] = h[k]
      BY <1>6, <2>1, <3>1 DEF Grows
    <3>3. Work(o, s, s.calls, 0, w)
      BY <1>3, <3>2, WorkSays
    <3> QED BY <2>1, <3>3 DEF Steady
  <2>2. CASE f.reasoning # <<>>
    <3> DEFINE u == AppendText(OpenText(CloseText(s, "message"), "reasoning"), "reasoning",
                               f.reasoning)
    <3>1. /\ Work(o, u, s.calls, 0, w)
          /\ Same(s, u, {"pending", "sequence", "open", "output", "nextIndex"})
      BY <1>3, <1>4, <1>6, WorkPushText
    <3>2. a = u
      BY <2>2 DEF PushReasoning, CloseMessage
    <3> HIDE DEF u
    <3>3. Steady(o, u, w)
      BY <1>2, <3>1
    <3> QED BY <3>2, <3>3
  <2> QED BY <2>1, <2>2
<1> HIDE DEF a
<1>9. Steady(o, b, g)
  <2>1. CASE f.content = <<>>
    <3>1. \A k \in TextKinds : w[k] \o <<>> = w[k]
      BY <1>3, <1>8, TextsKnown
    <3>2. \A k \in TextKinds : g[k] = w[k]
      BY <1>7, <2>1, <3>1 DEF Grows
    <3>3. Work(o, a, a.calls, 0, g)
      BY <1>3, <1>8, <3>2, WorkSays
    <3> QED BY <1>8, <2>1, <3>3 DEF Steady
  <2>2. CASE f.content # <<>>
    <3> DEFINE u == AppendText(OpenText(CloseText(a, "reasoning"), "message"), "message",
                               f.content)
    <3>1. /\ Work(o, u, a.calls, 0, g)
          /\ Same(a, u, {"pending", "sequence", "open", "output", "nextIndex"})
      BY <1>3, <1>4, <1>7, <1>8, WorkPushText
    <3>2. b = u
      BY <2>2 DEF PushText, CloseReasoning
    <3> HIDE DEF u
    <3>3. Steady(o, u, g)
      BY <1>2, <1>8, <3>1
    <3> QED BY <3>2, <3>3
  <2> QED BY <2>1, <2>2
<1> HIDE DEF b
<1> QED BY <1>1, <1>9, SteadyPushToolCalls

(* The usage of a response is of no concern to its items.                  *)
LEMMA SteadyUsage ==
  ASSUME NEW o, NEW s, NEW h, Steady(o, s, h), NEW usage
  PROVE  Steady(o, [s EXCEPT !.usage = usage], h)
<1> DEFINE t == [s EXCEPT !.usage = usage]
<1>1. /\ IsState(s) /\ Running(o, s) /\ s.started = TRUE
      /\ Items(o \o s.pending, s.open, s.nextIndex, s.calls, 0)
      /\ IsSeq(s.output) /\ Lists(s.output, o \o s.pending)
      /\ Exact(o \o s.pending, s.open, s.calls, 0, h)
  BY SteadyFacts
<1>2. IsState(t) /\ Same(s, t, {"usage"})
  BY <1>1 DEF IsState, Same, StateFields
<1> HIDE DEF t
<1>3. Same(s, t, {"model", "output", "calls", "open", "usage", "nextIndex"})
  BY <1>2 DEF Same
<1>4. Running(o, t) /\ o \o t.pending = o \o s.pending
  BY <1>1, <1>2, <1>3, RunChange
<1>5. /\ t.calls = s.calls /\ t.open = s.open
      /\ t.nextIndex = s.nextIndex /\ t.started = s.started
      /\ t.output = s.output
  BY <1>2 DEF Same, StateFields
<1>6. Steady(o, t, h)
  BY <1>1, <1>4, <1>5 DEF Steady, Work, Base
<1> QED BY <1>6 DEF t

(* A chunk.                                                                *)
LEMMA ChunkHandled ==
  ASSUME NEW o, NEW s, NEW h, Going(o, s, h), NEW f, f.id \in Seq(Chars),
         f.reasoning \in Seq(Words),
         f.content \in Seq(Words), f.calls \in Seq(CallDeltas), f.kind = "chunk",
         NEW g, Hears(g, h, f)
  PROVE  Going(o, HandleChunk(s, f), g) \/ Over(o, HandleChunk(s, f), g)
<1> DEFINE started == Start(s, f)
           usage == IF f.usage = None THEN started.usage ELSE MapUsage(f.usage)
           counted == [started EXCEPT !.usage = usage]
           said == HandleDelta(counted, f)
<1>1. Steady(o, started, h)
  BY StartRuns DEF Going
<1>2. HandleChunk(s, f) = IF ~f.choice THEN counted
                          ELSE IF f.finish = None THEN said ELSE Complete(said, f.finish)
  BY DEF HandleChunk
<1> HIDE DEF started, usage
<1>3. Steady(o, counted, h)
  BY <1>1, SteadyUsage
<1> HIDE DEF counted
<1>4. CASE f.choice
  <2>1. HasDelta(f)
    BY <1>4 DEF HasDelta
  <2>2. Steady(o, said, g)
    BY <1>3, <2>1, SteadyHandleDelta
  <2> HIDE DEF said
  <2>3. Over(o, Complete(said, f.finish), g)
    BY <2>2, CompleteEnds
  <2> QED BY <1>2, <1>4, <2>2, <2>3 DEF Steady, Going
<1>5. CASE ~f.choice
  <2>1. \A k \in TextKinds : SaidBy(f, k) = <<>>
    BY <1>5 DEF SaidBy, HasDelta
  <2>2. Work(o, counted, counted.calls, 0, h)
    BY <1>3 DEF Steady
  <2>3. \A k \in TextKinds : h[k] \o <<>> = h[k]
    BY <2>2, TextsKnown
  <2>4. \A k \in TextKinds : g[k] = h[k]
    BY <2>1, <2>3 DEF Hears
  <2>5. Work(o, counted, counted.calls, 0, g)
    BY <2>2, <2>4, WorkSays
  <2> QED BY <1>2, <1>5, <2>5 DEF Going
<1> QED BY <1>4, <1>5

(* A frame.                                                                *)
LEMMA FrameHandled ==
  ASSUME NEW o, NEW s, NEW h, Going(o, s, h), NEW f \in Frames, NEW g, Hears(g, h, f)
  PROVE  Going(o, HandleFrame(s, f), g) \/ Over(o, HandleFrame(s, f), g)
<1>1. CASE f.kind = "chunk"
  <2>1. /\ f.id \in Seq(Chars) /\ f.reasoning \in Seq(Words) /\ f.content \in Seq(Words)
        /\ f.calls \in Seq(CallDeltas)
    BY <1>1, ConstantsAssumption DEF WellFormed
  <2>2. HandleFrame(s, f) = HandleChunk(s, f)
    BY <1>1 DEF HandleFrame
  <2>3. Going(o, HandleChunk(s, f), g) \/ Over(o, HandleChunk(s, f), g)
    BY <1>1, <2>1, ChunkHandled
  <2> QED BY <2>2, <2>3
<1>2. CASE f.kind # "chunk"
  <2>1. Going(o, s, g)
    <3>1. \A k \in TextKinds : SaidBy(f, k) = <<>>
      BY <1>2 DEF SaidBy, HasDelta
    <3>2. \A k \in TextKinds : h[k] \o <<>> = h[k]
      BY TextsKnown DEF Going
    <3>3. \A k \in TextKinds : g[k] = h[k]
      BY <3>1, <3>2 DEF Hears
    <3> QED BY <3>3, WorkSays DEF Going
  <2>2. \A message : Over(o, Fail(s, message), g)
    BY <2>1, FailEnds DEF Going
  <2>3. CASE f.kind = "error"
    BY <2>2, <2>3 DEF HandleFrame
  <2>4. CASE f.kind = "malformed"
    BY <2>2, <2>4 DEF HandleFrame
  <2>5. CASE f.kind = "done"
    <3> DEFINE t == IF s.started THEN Complete(s, None) ELSE Fail(s, OwnMessage)
    <3>1. Over(o, t, g)
      <4>1. CASE s.started
        <5>1. Steady(o, s, g)
          BY <2>1, <4>1 DEF Going, Steady, Work, Base, Running, Told
        <5> QED BY <4>1, <5>1, CompleteEnds
      <4>2. CASE ~s.started
        BY <2>2, <4>2
      <4> QED BY <4>1, <4>2
    <3>2. HandleFrame(s, f) = [t EXCEPT !.finished = TRUE]
      BY <2>5 DEF HandleFrame
    <3> HIDE DEF t
    <3>3. IsState(t) /\ t.finished = TRUE
      BY <3>1 DEF Over, Told
    <3>4. [t EXCEPT !.finished = TRUE] = t
      BY <3>3 DEF IsState, StateFields
    <3> QED BY <3>1, <3>2, <3>4
  <2>6. CASE f.kind \notin {"error", "malformed", "done"}
    BY <1>2, <2>1, <2>6 DEF HandleFrame
  <2> QED BY <2>3, <2>4, <2>5, <2>6
<1> QED BY <1>1, <1>2

(* An event changes hands: all that was told stays told.                   *)
LEMMA Deliver ==
  ASSUME NEW o, NEW s, Told(o, s), s.pending # <<>>
  PROVE  LET d == Append(o, Head(s.pending))
             t == [s EXCEPT !.pending = Tail(@)]
         IN Told(d, t) /\ Same(s, t, {"pending"}) /\ d \o t.pending = o \o s.pending
<1> DEFINE d == Append(o, Head(s.pending))
           t == [s EXCEPT !.pending = Tail(@)]
<1>1. IsState(s) /\ IsSeq(o) /\ IsSeq(s.pending)
  BY DEF Told
<1>2. IsState(t) /\ Same(s, t, {"pending"}) /\ t.pending = Tail(s.pending)
  BY <1>1 DEF IsState, Same, StateFields
<1>3. PICK S : o \in Seq(S)
  BY <1>1 DEF IsSeq
<1>4. PICK U : s.pending \in Seq(U)
  BY <1>1 DEF IsSeq
<1> DEFINE V == S \cup U
<1>5. o \in Seq(V) /\ s.pending \in Seq(V)
  BY <1>3, <1>4
<1> HIDE DEF V, t
<1>6. Head(s.pending) \in V /\ Tail(s.pending) \in Seq(V) /\ d \in Seq(V)
  BY <1>5
<1>7. d \o Tail(s.pending) = o \o s.pending
  <2> DEFINE rest == Tail(s.pending)
             l == d \o rest
             r == o \o s.pending
  <2>1. /\ Len(o) \in Nat /\ Len(d) = Len(o) + 1 /\ (\A p \in 1..Len(o) : d[p] = o[p])
        /\ d[Len(o) + 1] = s.pending[1]
    BY <1>5, <1>6
  <2>2. /\ Len(s.pending) \in Nat \ {0} /\ Len(rest) = Len(s.pending) - 1
        /\ \A p \in 1..(Len(s.pending) - 1) : rest[p] = s.pending[p + 1]
    BY <1>5
  <2> HIDE DEF d, rest
  <2>3. /\ l \in Seq(V) /\ Len(l) = Len(d) + Len(rest) /\ (\A p \in 1..Len(d) : l[p] = d[p])
        /\ \A p \in 1..Len(rest) : l[Len(d) + p] = rest[p]
    BY <1>6 DEF rest
  <2>4. /\ r \in Seq(V) /\ Len(r) = Len(o) + Len(s.pending)
        /\ (\A p \in 1..Len(o) : r[p] = o[p])
        /\ \A p \in 1..Len(s.pending) : r[Len(o) + p] = s.pending[p]
    BY <1>5
  <2> HIDE DEF l, r
  <2>5. Len(l) = Len(r)
    <3>1. Len(l) = Len(d) + Len(rest) /\ Len(r) = Len(o) + Len(s.pending)
      BY <2>3, <2>4
    <3>2. /\ Len(d) = Len(o) + 1 /\ Len(rest) = Len(s.pending) - 1
          /\ Len(o) \in Nat /\ Len(s.pending) \in Nat
      BY <2>1, <2>2
    <3>3. \A a, b \in Nat : (a + 1) + (b - 1) = a + b
      OBVIOUS
    <3>4. (Len(o) + 1) + (Len(s.pending) - 1) = Len(o) + Len(s.pending)
      BY <3>2, <3>3
    <3>5. Len(l) = (Len(o) + 1) + (Len(s.pending) - 1)
      BY <3>1, <3>2, Zenon
    <3> QED BY <3>1, <3>4, <3>5, Zenon
  <2>6. ASSUME NEW p \in 1..Len(r) PROVE l[p] = r[p]
    <3>1. CASE p <= Len(o)
      BY <2>1, <2>2, <2>3, <2>4, <3>1
    <3>2. CASE p = Len(o) + 1
      <4>1. p \in 1..Len(d) /\ 1 \in 1..Len(s.pending)
        BY <2>1, <2>2, <3>2
      <4>2. l[p] = d[p] /\ r[p] = s.pending[1]
        BY <2>3, <2>4, <3>2, <4>1
      <4> QED BY <2>1, <3>2, <4>2
    <3>3. CASE p > Len(o) + 1
      <4>1. /\ p - Len(d) \in 1..Len(rest) /\ Len(d) + (p - Len(d)) = p
            /\ p - Len(o) \in 1..Len(s.pending) /\ Len(o) + (p - Len(o)) = p
            /\ (p - Len(d)) + 1 = p - Len(o)
        BY <2>1, <2>2, <2>4, <3>3
      <4>2. l[p] = rest[p - Len(d)] /\ r[p] = s.pending[p - Len(o)]
        BY <2>3, <2>4, <4>1
      <4> QED BY <2>2, <4>1, <4>2
    <3> QED BY <2>1, <3>1, <3>2, <3>3
  <2>7. l = r
    <3>1. l \in Seq(V) /\ r \in Seq(V)
      BY <2>3, <2>4
    <3> QED BY <2>5, <2>6, <3>1
  <2> QED BY <2>7 DEF l, r, rest
<1> HIDE DEF d
<1>8. IsSeq(d) /\ IsSeq(t.pending) /\ d \o t.pending = o \o s.pending
  BY <1>2, <1>6, <1>7 DEF IsSeq
<1>9. Told(d, t)
  BY <1>2, <1>8 DEF Told, Same, StateFields
<1> QED BY <1>2, <1>8, <1>9 DEF d, t

(* The bytes in the buffer change: nothing is told.                        *)
LEMMA Buffered ==
  ASSUME NEW o, NEW s, NEW h, Going(o, s, h), NEW buffer \in Seq(Frames)
  PROVE  Going(o, [s EXCEPT !.buffer = buffer], h)
<1> DEFINE t == [s EXCEPT !.buffer = buffer]
<1>1. /\ IsState(s) /\ Running(o, s) /\ Items(o \o s.pending, s.open, s.nextIndex, s.calls, 0)
      /\ IsSeq(s.output) /\ Lists(s.output, o \o s.pending)
      /\ Exact(o \o s.pending, s.open, s.calls, 0, h)
  BY DEF Going, Work, Base, Running, Told
<1>2. IsState(t) /\ Same(s, t, {"buffer"}) /\ t.buffer = buffer
  BY <1>1 DEF IsState, Same, StateFields
<1> HIDE DEF t
<1>3. Running(o, t)
  BY <1>1, <1>2 DEF Running, Told, Same, StateFields
<1>4. /\ t.pending = s.pending /\ t.open = s.open /\ t.nextIndex = s.nextIndex
      /\ t.calls = s.calls /\ t.output = s.output
  BY <1>2 DEF Same, StateFields
<1>5. Going(o, t, h)
  BY <1>1, <1>3, <1>4 DEF Going, Work, Base
<1> QED BY <1>5 DEF t
-----------------------------------------------------------------------------
(* The inductive invariant: the response goes on, or it is over, and it    *)
(* has told all the upstream said; and the synthesizer only waits for       *)
(* bytes while it goes on.                                                 *)
Said == [k \in TextKinds |-> SaidIn(taken, k)]
PcInv == pc \in {"idle", "top", "await", "drain", "ended", "cancelled"}
TurnInv == Going(sent, state, Said) \/ Over(sent, state, Said)
AwaitInv == pc = "await" => Going(sent, state, Said)
IInv == PcInv /\ TurnInv /\ AwaitInv /\ IsSeq(taken)

(* Nothing is told at first.                                               *)
LEMMA InitInv == Init => IInv
<1> SUFFICES ASSUME Init PROVE IInv
  OBVIOUS
<1>1. /\ IsState(state) /\ state.pending = <<>> /\ state.buffer = <<>> /\ state.calls = <<>>
      /\ state.started = FALSE /\ state.terminated = FALSE /\ state.finished = FALSE
      /\ state.open = [k \in TextKinds |-> None] /\ state.nextIndex = 0 /\ state.sequence = 0
      /\ sent = <<>> /\ pc = "idle" /\ taken = <<>> /\ state.output = <<>>
  BY DEF Init, IsState, StateFields
<1>2. IsSeq(<<>>) /\ Len(<<>>) = 0 /\ <<>> \o <<>> = <<>> /\ <<>> \in Seq(Frames)
  <2>1. <<>> \in Seq({})
    OBVIOUS
  <2> QED BY <2>1 DEF IsSeq
<1>3. \A p \in 1..Len(<<>>) : FALSE
  OBVIOUS
<1>4. Running(sent, state)
  BY <1>1, <1>2, <1>3 DEF Running, Told
<1>5. \A k \in TextKinds : state.open[k] = None
  BY <1>1
<1>6. Typed(state.open, 0, <<>>, 0)
  BY <1>1, <1>2, <1>3 DEF Typed
<1>7. Bracketed(<<>>) /\ Fresh(<<>>, 0)
  BY <1>3 DEF Bracketed, Fresh, Unused
<1>8. TextLive(<<>>, state.open, 0)
  BY <1>5 DEF TextLive, TextKinds
<1>9. CallLive(<<>>, state.open, 0, <<>>, 0)
  BY <1>2 DEF CallLive
<1>10. Settled(<<>>, state.open, <<>>, 0)
  BY <1>3 DEF Settled
<1>11. Items(<<>>, state.open, 0, <<>>, 0)
  BY <1>2, <1>6, <1>7, <1>8, <1>9, <1>10 DEF Items
<1>12. Lists(<<>>, <<>>)
  <2>1. ClosedIn(<<>>) = {}
    BY <1>3 DEF ClosedIn
  <2> QED BY <1>2, <2>1, FS_EmptySet DEF Lists
<1>13. /\ \A i : StreamedTo(<<>>, i) = <<>>
       /\ \A k : HeardIn(<<>>, k) = <<>> /\ SaidIn(<<>>, k) = <<>>
  <2>2. FlattenSeq(<<>>) = <<>>
    BY <1>2 DEF FlattenSeq
  <2>3. ASSUME NEW i PROVE StreamedTo(<<>>, i) = <<>>
    <3>1. [p \in 1..Len(<<>>) |-> IF <<>>[p].type \in DeltaTypes /\ <<>>[p].index = i
                                 THEN <<>>[p].body ELSE <<>>] = <<>>
      BY <1>2
    <3> QED BY <2>2, <3>1 DEF StreamedTo
  <2>4. ASSUME NEW k PROVE HeardIn(<<>>, k) = <<>>
    <3>1. [p \in 1..Len(<<>>) |-> IF <<>>[p].type = TextEvents[k].delta
                                 THEN <<>>[p].body ELSE <<>>] = <<>>
      BY <1>2
    <3> QED BY <2>2, <3>1 DEF HeardIn
  <2>5. ASSUME NEW k PROVE SaidIn(<<>>, k) = <<>>
    <3>1. [p \in 1..Len(<<>>) |-> SaidBy(<<>>[p], k)] = <<>>
      BY <1>2
    <3> QED BY <2>2, <3>1 DEF SaidIn
  <2> QED BY <2>3, <2>4, <2>5
<1>14. Exact(<<>>, state.open, <<>>, 0, Said)
  <2>1. Known(<<>>, Said)
    BY <1>1, <1>2, <1>3, <1>13 DEF Known, Said
  <2>2. InHand(<<>>, state.open, <<>>, 0)
    BY <1>2, <1>5 DEF InHand
  <2> QED BY <2>1, <2>2 DEF Exact
<1>15. Going(sent, state, Said)
  BY <1>1, <1>2, <1>4, <1>11, <1>12, <1>14 DEF Going, Work, Base
<1> QED BY <1>1, <1>2, <1>15 DEF IInv, PcInv, TurnInv, AwaitInv

(* What a wait means.                                                      *)
LEMMA TurnFacts ==
  ASSUME TurnInv
  PROVE  /\ Told(sent, state) /\ state.finished \in BOOLEAN
         /\ state.terminated = state.finished
         /\ state.finished = FALSE <=> Going(sent, state, Said)
         /\ state.finished = TRUE <=> Over(sent, state, Said)
BY DEF TurnInv, Going, Work, Base, Running, Over

(* What the upstream has said after one frame more.                        *)
HearsFrom(h, frames, f) == Hears([k \in TextKinds |-> SaidIn(Append(frames, f), k)], h, f)

(* The frame that is taken from the buffer, and what it says.              *)
LEMMA NextFrame ==
  ASSUME IInv, HandleNext
  PROVE  \E rest \in Seq(Frames), frame \in Frames :
           /\ Going(sent, [state EXCEPT !.buffer = rest], Said) /\ HearsFrom(Said, taken, frame)
           /\ state' = HandleFrame([state EXCEPT !.buffer = rest], frame)
           /\ taken' = Append(taken, frame) /\ sent' = sent /\ pc' = pc /\ pc = "drain"
<1> DEFINE n == CHOOSE i \in FrameEnds : \A j \in FrameEnds : i <= j
           rest == SubSeq(state.buffer, n + 1, Len(state.buffer))
           t == [state EXCEPT !.buffer = rest]
           frame == state.buffer[n]
<1>1. Going(sent, state, Said) /\ FrameEnds # {}
  BY TurnFacts DEF IInv, HandleNext, FrameReady
<1>2. state.buffer \in Seq(Frames)
  BY <1>1 DEF Going, Work, Base, Running, Told
<1>3. FrameEnds \subseteq 1..Len(state.buffer) /\ Len(state.buffer) \in Nat
  BY <1>2 DEF FrameEnds
<1>4. n \in 1..Len(state.buffer)
  <2>1. n = Min(FrameEnds)
    BY DEF Min
  <2> QED BY <1>1, <1>3, <2>1, FirstAppend
<1> HIDE DEF n
<1>5. frame \in Frames /\ rest \in Seq(Frames)
  BY <1>2, <1>4
<1>6. /\ state' = HandleFrame(t, frame) /\ sent' = sent /\ pc' = pc /\ pc = "drain"
      /\ taken' = Append(taken, frame)
  BY DEF HandleNext, n
<1> HIDE DEF rest, frame
<1>7. Going(sent, t, Said)
  BY <1>1, <1>5, Buffered
<1>8. HearsFrom(Said, taken, frame)
  <2> SUFFICES ASSUME NEW k \in TextKinds
               PROVE  SaidIn(Append(taken, frame), k) = SaidIn(taken, k) \o SaidBy(frame, k)
    BY DEF HearsFrom, Hears, Said
  <2>1. frame.kind = "chunk" => frame.reasoning \in Seq(Words) /\ frame.content \in Seq(Words)
    BY <1>5, ConstantsAssumption DEF WellFormed
  <2>2. <<>> \in Seq(Words)
    OBVIOUS
  <2>3. SaidBy(frame, k) \in Seq(Words)
    BY <2>1, <2>2 DEF SaidBy, HasDelta
  <2>4. IsSeq(SaidBy(frame, k))
    BY <2>3 DEF IsSeq
  <2> QED BY <2>4, SaidAppend DEF IInv
<1> QED BY <1>5, <1>6, <1>7, <1>8

(* Every step keeps it.                                                    *)
LEMMA NextInv ==
  ASSUME IInv, [Next]_vars
  PROVE  IInv'
<1>1. TurnInv /\ PcInv /\ IsSeq(taken)
  BY DEF IInv
<1>11. taken' = taken => Said' = Said
  BY DEF Said
<1>2. ASSUME Yield PROVE IInv'
  <2> DEFINE d == Append(sent, Head(state.pending))
             t == [state EXCEPT !.pending = Tail(@)]
  <2>1. Told(sent, state) /\ state.pending # <<>>
    BY <1>1, <1>2, TurnFacts DEF Yield
  <2>2. Told(d, t) /\ Same(state, t, {"pending"}) /\ d \o t.pending = sent \o state.pending
    BY <2>1, Deliver
  <2>3. sent' = d /\ state' = t /\ pc' = "idle" /\ taken' = taken
    BY <1>2 DEF Yield
  <2> HIDE DEF d, t
  <2>4. /\ t.terminated = state.terminated /\ t.finished = state.finished /\ t.open = state.open
        /\ t.nextIndex = state.nextIndex /\ t.calls = state.calls /\ t.output = state.output
    BY <2>2 DEF Same, StateFields
  <2>5. Going(sent, state, Said) => Going(d, t, Said)
    BY <2>2, <2>4 DEF Going, Work, Base, Running
  <2>6. Over(sent, state, Said) => Over(d, t, Said)
    BY <2>2, <2>4 DEF Over
  <2>7. Going(d, t, Said) \/ Over(d, t, Said)
    BY <1>1, <2>5, <2>6 DEF TurnInv
  <2> QED BY <1>1, <1>11, <2>3, <2>7 DEF IInv, PcInv, TurnInv, AwaitInv
<1>3. ASSUME End \/ Drained \/ Cancel \/ Stopped PROVE IInv'
  <2>1. /\ sent' = sent /\ state' = state /\ taken' = taken
        /\ pc' \in {"ended", "top", "cancelled"} \/ pc' = pc
    BY <1>3 DEF End, Drained, Cancel, Stopped, vars
  <2> QED BY <1>11, <2>1 DEF IInv, PcInv, TurnInv, AwaitInv
<1>4. ASSUME Await PROVE IInv'
  <2>1. Going(sent, state, Said)
    BY <1>1, <1>4, TurnFacts DEF Await
  <2> QED BY <1>1, <1>4, <1>11, <2>1 DEF Await, IInv, PcInv, TurnInv, AwaitInv
<1>5. ASSUME NEW c \in Chunks, Overflow(c) PROVE IInv'
  <2>1. Over(sent, Fail(state, OwnMessage), Said)
    BY <1>5, FailEnds DEF Overflow, IInv, AwaitInv, Going
  <2> QED BY <1>1, <1>5, <1>11, <2>1 DEF Overflow, IInv, PcInv, TurnInv, AwaitInv
<1>6. ASSUME NEW c \in Chunks, Receive(c) PROVE IInv'
  <2>1. Going(sent, state, Said)
    BY <1>6 DEF Receive, IInv, AwaitInv
  <2>2. state.buffer \in Seq(Frames) /\ c \in Seq(Frames)
    BY <2>1, ConstantsAssumption DEF Going, Work, Base, Running, Told
  <2>3. state.buffer \o c \in Seq(Frames)
    BY <2>2
  <2>4. Going(sent, [state EXCEPT !.buffer = state.buffer \o c], Said)
    BY <2>1, <2>3, Buffered
  <2> QED BY <1>1, <1>6, <1>11, <2>4 DEF Receive, IInv, PcInv, TurnInv, AwaitInv
<1>7. ASSUME HandleNext PROVE IInv'
  <2>1. PICK rest \in Seq(Frames), frame \in Frames :
          /\ Going(sent, [state EXCEPT !.buffer = rest], Said) /\ HearsFrom(Said, taken, frame)
          /\ state' = HandleFrame([state EXCEPT !.buffer = rest], frame)
          /\ taken' = Append(taken, frame) /\ sent' = sent /\ pc' = pc /\ pc = "drain"
    BY <1>7, NextFrame
  <2> DEFINE g == [k \in TextKinds |-> SaidIn(Append(taken, frame), k)]
             t == [state EXCEPT !.buffer = rest]
  <2>2. Hears(g, Said, frame) /\ Said' = g
    BY <2>1 DEF HearsFrom, Said
  <2> HIDE DEF g, t
  <2>3. Going(sent, HandleFrame(t, frame), g) \/ Over(sent, HandleFrame(t, frame), g)
    BY <2>1, <2>2, FrameHandled DEF t
  <2>4. IsSeq(taken')
    BY <1>1, <2>1, AppendFacts
  <2> QED BY <2>1, <2>2, <2>3, <2>4 DEF IInv, PcInv, TurnInv, AwaitInv, t
<1>8. ASSUME BodyError PROVE IInv'
  <2>1. Over(sent, Fail(state, OwnMessage), Said)
    BY <1>8, FailEnds DEF BodyError, IInv, AwaitInv, Going
  <2> QED BY <1>1, <1>8, <1>11, <2>1 DEF BodyError, IInv, PcInv, TurnInv, AwaitInv
<1>9. ASSUME BodyEnd PROVE IInv'
  <2> DEFINE t == Fail(state, OwnMessage)
  <2>1. Over(sent, t, Said)
    BY <1>9, FailEnds DEF BodyEnd, IInv, AwaitInv, Going
  <2>2. state' = [t EXCEPT !.finished = TRUE] /\ sent' = sent /\ pc' = "top" /\ taken' = taken
    BY <1>9 DEF BodyEnd
  <2> HIDE DEF t
  <2>3. [t EXCEPT !.finished = TRUE] = t
    <3>1. IsState(t) /\ t.finished = TRUE
      BY <2>1 DEF Over, Told
    <3> QED BY <3>1 DEF IsState, StateFields
  <2> QED BY <1>1, <1>11, <2>1, <2>2, <2>3 DEF IInv, PcInv, TurnInv, AwaitInv
<1>10. ASSUME UNCHANGED vars PROVE IInv'
  BY <1>10, <1>11 DEF vars, IInv, PcInv, TurnInv, AwaitInv
<1> QED BY <1>2, <1>3, <1>4, <1>5, <1>6, <1>7, <1>8, <1>9, <1>10 DEF Next

(* So it always holds.                                                     *)
LEMMA Invariance == Spec => []IInv
BY InitInv, NextInv, PTL DEF Spec
-----------------------------------------------------------------------------
(* Every event but an error is one the gateway's validator accepts, and    *)
(* the events are numbered from 0 without a gap, whatever Z.ai sends.      *)
THEOREM StreamOutputAccepted == Spec => []OutputAccepted
<1>1. IInv => OutputAccepted
  <2> SUFFICES ASSUME IInv PROVE OutputAccepted
    OBVIOUS
  <2>1. Told(sent, state)
    BY TurnFacts DEF IInv
  <2>2. IsSeq(Out) /\ DOMAIN Out = 1..Len(Out)
    BY <2>1, ConcatFacts, SeqFacts DEF Told, Out
  <2> QED BY <2>1, <2>2 DEF OutputAccepted, Told, Good, Out
<1> QED BY Invariance, <1>1, PTL

(* However reasoning, text and tool calls interleave, every item is one    *)
(* bracket of the stream, and a response that completes leaves none open.  *)
THEOREM StreamItemsBracketed == Spec => []ItemsBracketed
<1>1. IInv => ItemsBracketed
  <2> SUFFICES ASSUME IInv PROVE ItemsBracketed
    OBVIOUS
  <2>1. Told(sent, state) /\ TurnInv
    BY TurnFacts DEF IInv
  <2>2. IsSeq(Out) /\ DOMAIN Out = 1..Len(Out) /\ Len(Out) \in Nat
    BY <2>1, ConcatFacts, SeqFacts DEF Told, Out
  <2>3. Bracketed(Out)
    BY <2>1 DEF TurnInv, Going, Work, Base, Items, Over, Ended, Out
  <2>4. \E k \in TextKinds : state.open[k] = None
    BY <2>1 DEF TurnInv, Going, Work, Base, Items, TextLive, TextKinds, Over
  <2>5. Succeeded => AllClosed(Out)
    <3> SUFFICES ASSUME Succeeded PROVE AllClosed(Out)
      OBVIOUS
    <3>1. /\ Len(Out) \in 1..Len(Out) /\ Out[Len(Out)].type \in {"completed", "incomplete"}
      BY <2>2, SeqFacts DEF Succeeded, Last
    <3>2. IsTerminal(Out[Len(Out)]) /\ Out[Len(Out)].type # "error"
      BY <3>1 DEF IsTerminal, TerminalTypes
    <3>3. ~Going(sent, state, Said)
      BY <3>1, <3>2 DEF Going, Work, Base, Running, Out
    <3> QED BY <2>1, <3>2, <3>3 DEF TurnInv, Over, Ended, Out
  <2> HIDE DEF Out
  <2>6. \A p \in DOMAIN Out : Streamed(p) =>
          /\ \E q \in AddedAt(Out[p].index) : q < p
          /\ \A q \in DoneAt(Out[p].index) : p < q
    BY <2>2, <2>3 DEF Bracketed, Streamed, Streams, StreamTypes, AddedAt, DoneAt, Adds, Closes
  <2>7. ASSUME NEW i
        PROVE  /\ \A p, q \in AddedAt(i) : p = q
               /\ \A p, q \in DoneAt(i) : p = q
               /\ \A q \in DoneAt(i) : \E p \in AddedAt(i) :
                    p < q /\ Out[p].body.type = Out[q].body.type /\ Out[p].body.id = Out[q].body.id
               /\ Succeeded => (AddedAt(i) # {} => DoneAt(i) # {})
    <3>1. \A p, q \in AddedAt(i) : p = q
      BY <2>2, <2>3 DEF Bracketed, AddedAt, Adds
    <3>2. \A p, q \in DoneAt(i) : p = q
      BY <2>2, <2>3 DEF Bracketed, DoneAt, Closes
    <3>3. \A q \in DoneAt(i) : \E p \in AddedAt(i) :
            p < q /\ Out[p].body.type = Out[q].body.type /\ Out[p].body.id = Out[q].body.id
      BY <2>2, <2>3 DEF Bracketed, AddedAt, DoneAt, Adds
    <3>4. Succeeded => (AddedAt(i) # {} => DoneAt(i) # {})
      BY <2>2, <2>5 DEF AllClosed, AddedAt, DoneAt, Closes
    <3> QED BY <3>1, <3>2, <3>3, <3>4
  <2> QED BY <2>4, <2>6, <2>7 DEF ItemsBracketed
<1> QED BY Invariance, <1>1, PTL

(* What the invariant says of all that was told, and of a response that    *)
(* completed.                                                              *)
LEMMA OutFacts ==
  ASSUME IInv
  PROVE  /\ IsSeq(Out) /\ DOMAIN Out = 1..Len(Out) /\ Len(Out) \in Nat /\ Known(Out, Said)
         /\ Succeeded => Lists(Out[Len(Out)].body.output, Out)
<1>1. Told(sent, state) /\ TurnInv
  BY TurnFacts DEF IInv
<1>2. IsSeq(Out) /\ DOMAIN Out = 1..Len(Out) /\ Len(Out) \in Nat
  BY <1>1, ConcatFacts, SeqFacts DEF Told, Out
<1>3. Known(Out, Said)
  BY <1>1 DEF TurnInv, Going, Work, Exact, Over, Out
<1>4. ASSUME Succeeded PROVE Lists(Out[Len(Out)].body.output, Out)
  <2>1. /\ Len(Out) \in 1..Len(Out) /\ Out[Len(Out)].type \in {"completed", "incomplete"}
    BY <1>2, <1>4, SeqFacts DEF Succeeded, Last
  <2>2. IsTerminal(Out[Len(Out)]) /\ Out[Len(Out)].type # "error"
    BY <2>1 DEF IsTerminal, TerminalTypes
  <2>3. ~Going(sent, state, Said)
    BY <2>1, <2>2 DEF Going, Work, Base, Running, Out
  <2> QED BY <1>1, <2>2, <2>3 DEF TurnInv, Over, Ended, Out
<1> QED BY <1>2, <1>3, <1>4

(* The response that ends the stream lists the items that closed, each     *)
(* once, as it was closed and in that order, and no other.                 *)
THEOREM StreamOutputExact == Spec => []OutputExact
<1>1. IInv => OutputExact
  BY OutFacts DEF OutputExact, Last
<1> QED BY Invariance, <1>1, PTL

(* Every item is closed with what was streamed: the text of a message is   *)
(* the concatenation of its deltas, the input of a freeform call its delta, *)
(* and the deltas of a function call end its arguments.                    *)
THEOREM StreamItemsMatchDeltas == Spec => []ItemsMatchDeltas
<1>1. IInv => ItemsMatchDeltas
  <2> SUFFICES ASSUME IInv, NEW p \in DOMAIN Out, Out[p].type = "item.done"
               PROVE  LET item == Out[p].body
                          streamed == StreamedTo(Out, Out[p].index)
                      IN IF item.type = "function_call"
                         THEN IsSuffix(streamed, item.payload)
                         ELSE streamed = (IF item.type \in TextKinds THEN item.text
                                          ELSE item.payload)
    BY DEF ItemsMatchDeltas
  <2>1. Matches(Out[p].body, StreamedTo(Out, Out[p].index))
    BY OutFacts DEF Known
  <2> DEFINE item == Out[p].body
             streamed == StreamedTo(Out, Out[p].index)
  <2>2. CASE item.type = "function_call"
    <3>1. Ends(streamed, item.payload)
      BY <2>1, <2>2 DEF Matches
    <3> QED BY <2>2, <3>1, EndsSuffix
  <2>3. CASE item.type # "function_call"
    BY <2>1, <2>3 DEF Matches
  <2> QED BY <2>2, <2>3
<1> QED BY Invariance, <1>1, PTL

(* No word is lost, repeated or reordered: the reasoning deltas are the    *)
(* upstream's reasoning and the text deltas its content, wherever the      *)
(* stream stands and however many items the interleaving cut them into.    *)
THEOREM StreamNothingUnsaid == Spec => []NothingUnsaid
<1>1. IInv => NothingUnsaid
  <2> SUFFICES ASSUME IInv, NEW k \in TextKinds PROVE HeardIn(Out, k) = SaidIn(taken, k)
    BY DEF NothingUnsaid
  <2>1. HeardIn(Out, k) = Said[k]
    BY OutFacts DEF Known
  <2> QED BY <2>1 DEF Said
<1> QED BY Invariance, <1>1, PTL

(* The stream Muse is given: what its status is while events are given.    *)
LEMMA StatusFacts ==
  ASSUME IInv, pc \notin {"ended", "cancelled"}
  PROVE  /\ Status = IF sent # <<>> /\ IsTerminal(sent[Len(sent)]) THEN "complete" ELSE "open"
         /\ state.pending # <<>> => Status = "open"
         /\ state.pending = <<>> /\ state.finished => Status = "complete"
<1>1. Told(sent, state) /\ TurnInv
  BY TurnFacts DEF IInv
<1>2. /\ IsSeq(sent) /\ IsSeq(state.pending) /\ Len(sent) \in Nat /\ Len(state.pending) \in Nat
      /\ (Len(sent) = 0 <=> sent = <<>>) /\ (Len(state.pending) = 0 <=> state.pending = <<>>)
  BY <1>1, SeqFacts DEF Told
<1> DEFINE q == sent \o state.pending
<1>3. /\ Len(q) = Len(sent) + Len(state.pending) /\ \A p \in 1..Len(sent) : q[p] = sent[p]
  BY <1>2, ConcatFacts
<1>4. \A p \in 1..Len(q) : IsTerminal(q[p]) => p = Len(q)
  <2>1. CASE Going(sent, state, Said)
    BY <2>1 DEF Going, Work, Base, Running
  <2>2. CASE Over(sent, state, Said)
    <3>1. Len(q) \in Nat /\ \A p \in 1..(Len(q) - 1) : ~IsTerminal(q[p])
      BY <2>2 DEF Over, Ended
    <3> HIDE DEF q
    <3> QED BY <3>1
  <2> QED BY <1>1, <2>1, <2>2 DEF TurnInv
<1>5. state.finished => IsTerminal(q[Len(q)]) /\ Len(q) # 0
  BY <1>1, TurnFacts DEF Over, Ended
<1>6. Status = IF sent # <<>> /\ IsTerminal(sent[Len(sent)]) THEN "complete" ELSE "open"
  BY DEF Status, Last
<1> HIDE DEF q
<1>7. state.pending # <<>> => Status = "open"
  BY <1>2, <1>3, <1>4, <1>6
<1>8. state.pending = <<>> /\ state.finished => Status = "complete"
  BY <1>2, <1>3, <1>5, <1>6
<1> QED BY <1>6, <1>7, <1>8

(* Every step is a step of TerminalStream or shows nothing.                *)
LEMMA StreamStep ==
  ASSUME IInv, [Next]_vars
  PROVE  [Stream!Next]_<<sent, Status>>
<1>1. ASSUME Yield PROVE Stream!Next
  <2> DEFINE e == Head(state.pending)
  <2>1. IsSeq(sent) /\ pc \notin {"ended", "cancelled"}
    BY <1>1, TurnFacts DEF IInv, Told, Yield
  <2>2. Status = "open" /\ sent' = Append(sent, e) /\ pc' = "idle"
    BY <1>1, <2>1, StatusFacts DEF Yield
  <2>3. /\ IsSeq(sent') /\ Len(sent') = Len(sent) + 1 /\ Len(sent) \in Nat
        /\ sent'[Len(sent) + 1] = e
    BY <2>1, <2>2, AppendFacts
  <2>4. sent' # <<>> /\ sent'[Len(sent')] = e
    BY <2>3
  <2>5. Status' = IF IsTerminal(e) THEN "complete" ELSE "open"
    BY <2>2, <2>4 DEF Status, Last
  <2> QED BY <2>2, <2>4, <2>5 DEF Stream!Next, Stream!Give
<1>2. ASSUME End PROVE Stream!Next
  <2>1. Status = "complete"
    BY <1>2, StatusFacts DEF End
  <2>2. Status' = "closed" /\ sent' = sent
    BY <1>2 DEF End, Status
  <2> QED BY <2>1, <2>2 DEF Stream!Next, Stream!Close
<1>3. ASSUME Cancel PROVE Stream!Next
  <2>1. Status \in {"open", "complete"}
    BY <1>3, StatusFacts DEF Cancel
  <2>2. Status' = "cancelled" /\ sent' = sent
    BY <1>3 DEF Cancel, Status
  <2> QED BY <2>1, <2>2 DEF Stream!Next, Stream!Leave
<1>4. ASSUME \/ Await \/ (\E c \in Chunks : Overflow(c) \/ Receive(c)) \/ HandleNext
             \/ Drained \/ BodyError \/ BodyEnd
      PROVE  UNCHANGED <<sent, Status>>
  <2>1. sent' = sent /\ {pc, pc'} \cap {"ended", "cancelled"} = {}
    BY <1>4 DEF Await, Overflow, Receive, HandleNext, Drained, BodyError, BodyEnd
  <2> QED BY <2>1 DEF Status
<1>5. ASSUME Stopped \/ UNCHANGED vars PROVE UNCHANGED <<sent, Status>>
  BY <1>5 DEF Stopped, vars, Status
<1> QED BY <1>1, <1>2, <1>3, <1>4, <1>5 DEF Next

(* Whatever the upstream sends and wherever it stops, the synthesized      *)
(* stream is events, one terminal event, then its end.                     *)
THEOREM StreamKeepsPromise == Spec => KeepsPromise
<1>1. Init => Stream!Init
  BY DEF Init, Stream!Init, Status
<1>2. IInv /\ [Next]_vars => [Stream!Next]_<<sent, Status>>
  BY StreamStep
<1> QED BY Invariance, <1>1, <1>2, PTL DEF Spec, KeepsPromise, Stream!Spec

(* One frame more brings its fragments of calls.                           *)
LEMMA CallsAppend ==
  ASSUME NEW q, IsSeq(q), NEW x, IsSeq(CallsBy(x))
  PROVE  CallsIn(Append(q, x)) = CallsIn(q) \o CallsBy(x)
<1> DEFINE b == [p \in 1..Len(q) |-> CallsBy(q[p])]
           r == Append(q, x)
           c == [p \in 1..Len(r) |-> CallsBy(r[p])]
<1>1. /\ Len(q) \in Nat /\ Len(r) = Len(q) + 1 /\ (\A p \in 1..Len(q) : r[p] = q[p])
      /\ r[Len(q) + 1] = x
  BY AppendFacts
<1>2. CallsIn(q) = FlattenSeq(b) /\ CallsIn(r) = FlattenSeq(c)
  BY DEF CallsIn
<1> HIDE DEF r
<1>3. b \in Seq({CallsBy(q[p]) : p \in 1..Len(q)}) /\ Len(b) = Len(q)
  BY <1>1
<1>4. c \in Seq({CallsBy(r[p]) : p \in 1..Len(r)}) /\ Len(c) = Len(q) + 1
  BY <1>1
<1>5. (\A p \in 1..Len(q) : c[p] = b[p]) /\ c[Len(q) + 1] = CallsBy(x)
  BY <1>1
<1> HIDE DEF b, c
<1>6. IsSeq(b) /\ IsSeq(c)
  BY <1>3, <1>4 DEF IsSeq
<1>7. c = Append(b, CallsBy(x))
  BY <1>3, <1>4, <1>5, <1>6, OneMore
<1> QED BY <1>2, <1>6, <1>7, FlattenAppend DEF r

(* One fragment more brings its arguments to its call and to no other.     *)
LEMMA ArgumentsAppend ==
  ASSUME NEW fs \in Seq(CallDeltas), NEW f \in CallDeltas, NEW n
  PROVE  ArgumentsIn(Append(fs, f), n)
           = ArgumentsIn(fs, n) \o (IF f.index = n THEN f.arguments ELSE <<>>)
<1> DEFINE Piece(e) == IF e.index = n THEN e.arguments ELSE <<>>
           b == [p \in 1..Len(fs) |-> Piece(fs[p])]
           r == Append(fs, f)
           c == [p \in 1..Len(r) |-> Piece(r[p])]
<1>1. /\ Len(fs) \in Nat /\ Len(r) = Len(fs) + 1 /\ (\A p \in 1..Len(fs) : r[p] = fs[p])
      /\ r[Len(fs) + 1] = f
  OBVIOUS
<1>2. ArgumentsIn(fs, n) = FlattenSeq(b) /\ ArgumentsIn(r, n) = FlattenSeq(c)
  BY DEF ArgumentsIn
<1>3. Piece(f) \in Seq(Words)
  <2>1. f.arguments \in Seq(Words) /\ <<>> \in Seq(Words)
    BY DEF CallDeltas
  <2> QED BY <2>1
<1> HIDE DEF r, Piece
<1>4. b \in Seq({Piece(fs[p]) : p \in 1..Len(fs)}) /\ Len(b) = Len(fs)
  BY <1>1
<1>5. c \in Seq({Piece(r[p]) : p \in 1..Len(r)}) /\ Len(c) = Len(fs) + 1
  BY <1>1
<1>6. (\A p \in 1..Len(fs) : c[p] = b[p]) /\ c[Len(fs) + 1] = Piece(f)
  BY <1>1
<1> HIDE DEF b, c
<1>7. IsSeq(b) /\ IsSeq(c) /\ IsSeq(Piece(f))
  BY <1>3, <1>4, <1>5 DEF IsSeq
<1>8. c = Append(b, Piece(f))
  BY <1>4, <1>5, <1>6, <1>7, OneMore
<1>9. ArgumentsIn(r, n) = ArgumentsIn(fs, n) \o Piece(f)
  BY <1>2, <1>7, <1>8, FlattenAppend
<1> QED BY <1>9 DEF r, Piece

-----------------------------------------------------------------------------
(* What call n was first given, if anything.                               *)
FirstId(fs, n) == IF WithId(fs, n) = {} THEN <<>> ELSE fs[Min(WithId(fs, n))].id
FirstName(fs, n) == IF WithName(fs, n) = {} THEN <<>> ELSE fs[Min(WithName(fs, n))].name

(* The first identifier and the first name stay what they are.             *)
LEMMA FirstsAppend ==
  ASSUME NEW fs \in Seq(CallDeltas), NEW f \in CallDeltas, NEW n
  PROVE  LET gs == Append(fs, f) IN
         /\ FirstId(gs, n) = IF f.index # n \/ FirstId(fs, n) # <<>> THEN FirstId(fs, n) ELSE f.id
         /\ FirstName(gs, n) = IF f.index # n \/ FirstName(fs, n) # <<>> THEN FirstName(fs, n)
                               ELSE f.name
<1> DEFINE gs == Append(fs, f)
           l == Len(fs)
<1>1. /\ l \in Nat /\ Len(gs) = l + 1 /\ (\A p \in 1..l : gs[p] = fs[p]) /\ gs[l + 1] = f
  OBVIOUS
<1> HIDE DEF gs, l
<1>2. \A p \in 1..(l + 1) : p \in 1..l \/ p = l + 1
  BY <1>1
<1>3. FirstId(gs, n) = IF f.index # n \/ FirstId(fs, n) # <<>> THEN FirstId(fs, n) ELSE f.id
  <2> DEFINE A == WithId(fs, n)
             B == WithId(gs, n)
  <2>1. A \subseteq 1..l /\ \A p \in A : fs[p].id # <<>>
    BY DEF WithId, l
  <2>2. B = IF f.index = n /\ f.id # <<>> THEN A \cup {l + 1} ELSE A
    BY <1>1, <1>2 DEF WithId, l
  <2> HIDE DEF A, B
  <2>3. /\ A # {} => Min(A) \in A /\ Min(B) = Min(A)
        /\ A = {} /\ B # {} => Min(B) = l + 1
    <3>1. B = A \/ B = A \cup {l + 1}
      BY <2>2
    <3> QED BY <1>1, <2>1, <3>1, FirstAppend
  <2>4. /\ FirstId(fs, n) = IF A = {} THEN <<>> ELSE fs[Min(A)].id
        /\ FirstId(gs, n) = IF B = {} THEN <<>> ELSE gs[Min(B)].id
    BY DEF FirstId, A, B
  <2>5. CASE A # {}
    <3>1. B # {} /\ Min(B) = Min(A) /\ gs[Min(A)] = fs[Min(A)] /\ fs[Min(A)].id # <<>>
      BY <1>1, <2>1, <2>2, <2>3, <2>5
    <3> QED BY <2>4, <2>5, <3>1
  <2>6. CASE A = {}
    <3>1. CASE f.index = n /\ f.id # <<>>
      <4>1. B # {} /\ Min(B) = l + 1
        BY <2>2, <2>3, <2>6, <3>1
      <4> QED BY <1>1, <2>4, <2>6, <3>1, <4>1
    <3>2. CASE ~(f.index = n /\ f.id # <<>>)
      BY <2>2, <2>4, <2>6, <3>2
    <3> QED BY <3>1, <3>2
  <2> QED BY <2>5, <2>6
<1>4. FirstName(gs, n) = IF f.index # n \/ FirstName(fs, n) # <<>> THEN FirstName(fs, n)
                         ELSE f.name
  <2> DEFINE A == WithName(fs, n)
             B == WithName(gs, n)
  <2>1. A \subseteq 1..l /\ \A p \in A : fs[p].name # <<>>
    BY DEF WithName, l
  <2>2. B = IF f.index = n /\ f.name # <<>> THEN A \cup {l + 1} ELSE A
    BY <1>1, <1>2 DEF WithName, l
  <2> HIDE DEF A, B
  <2>3. /\ A # {} => Min(A) \in A /\ Min(B) = Min(A)
        /\ A = {} /\ B # {} => Min(B) = l + 1
    <3>1. B = A \/ B = A \cup {l + 1}
      BY <2>2
    <3> QED BY <1>1, <2>1, <3>1, FirstAppend
  <2>4. /\ FirstName(fs, n) = IF A = {} THEN <<>> ELSE fs[Min(A)].name
        /\ FirstName(gs, n) = IF B = {} THEN <<>> ELSE gs[Min(B)].name
    BY DEF FirstName, A, B
  <2>5. CASE A # {}
    <3>1. B # {} /\ Min(B) = Min(A) /\ gs[Min(A)] = fs[Min(A)] /\ fs[Min(A)].name # <<>>
      BY <1>1, <2>1, <2>2, <2>3, <2>5
    <3> QED BY <2>4, <2>5, <3>1
  <2>6. CASE A = {}
    <3>1. CASE f.index = n /\ f.name # <<>>
      <4>1. B # {} /\ Min(B) = l + 1
        BY <2>2, <2>3, <2>6, <3>1
      <4> QED BY <1>1, <2>4, <2>6, <3>1, <4>1
    <3>2. CASE ~(f.index = n /\ f.name # <<>>)
      BY <2>2, <2>4, <2>6, <3>2
    <3> QED BY <3>1, <3>2
  <2> QED BY <2>5, <2>6
<1> QED BY <1>3, <1>4 DEF gs

(* They are there when a fragment of the call has one.                     *)
LEMMA FirstsFacts ==
  ASSUME NEW fs \in Seq(CallDeltas), NEW n
  PROVE  /\ FirstId(fs, n) # <<>> <=> WithId(fs, n) # {}
         /\ FirstName(fs, n) # <<>> <=> WithName(fs, n) # {}
         /\ FirstId(fs, n) \in Seq(Chars)
<1>1. /\ WithId(fs, n) \subseteq 1..Len(fs) /\ WithName(fs, n) \subseteq 1..Len(fs)
      /\ \A p \in WithId(fs, n) : fs[p].id # <<>>
      /\ \A p \in WithName(fs, n) : fs[p].name # <<>>
  BY DEF WithId, WithName
<1>2. Len(fs) \in Nat /\ \A p \in 1..Len(fs) : fs[p] \in CallDeltas
  OBVIOUS
<1>3. \A p \in 1..Len(fs) : fs[p].id \in Seq(Chars)
  BY <1>2 DEF CallDeltas
<1>4. /\ WithId(fs, n) # {} => Min(WithId(fs, n)) \in WithId(fs, n)
      /\ WithName(fs, n) # {} => Min(WithName(fs, n)) \in WithName(fs, n)
  BY <1>1, <1>2, FirstAppend
<1> QED BY <1>1, <1>3, <1>4 DEF FirstId, FirstName
-----------------------------------------------------------------------------
(* A call that holds the identifier, the name and the arguments it was     *)
(* given, and is announced when it has the first two.                      *)
Gathers(c, id, name, arguments) ==
  /\ c = [x \in CallFields |-> c[x]] /\ c.announced \in BOOLEAN
  /\ c.callId = IF id = <<>> THEN <<>> ELSE SanitizeIdentifier(id)
  /\ c.encodedName = name
  /\ name # <<>> => c.name = Decode(Tools, name) /\ c.freeform = IsFreeform(name)
  /\ c.arguments = arguments /\ IsSeq(arguments)
  /\ c.announced <=> id # <<>> /\ name # <<>>

(* The call that stands for the upstream's call n, and a state whose calls *)
(* hold all that the fragments fs gave them, with no call closed yet.      *)
CallAt(cs, n) == IF n < Len(cs) THEN cs[n + 1] ELSE DefaultCall
Gathering(cs, fs) ==
  \A n \in Nat : Gathers(CallAt(cs, n), FirstId(fs, n), FirstName(fs, n), ArgumentsIn(fs, n))
TextsOnly(output) == \A p \in 1..Len(output) : output[p].type \in TextKinds
Gathered(s, fs) ==
  /\ IsState(s) /\ IsSeq(s.calls) /\ IsSeq(s.output) /\ fs \in Seq(CallDeltas)
  /\ Gathering(s.calls, fs) /\ TextsOnly(s.output)

(* Emitting changes what is pending and nothing else.                      *)
LEMMA EmitKeeps ==
  ASSUME NEW s, IsState(s), NEW es
  PROVE  IsState(EmitAll(s, es)) /\ Same(s, EmitAll(s, es), {"pending", "sequence"})
BY DEF EmitAll, IsState, Same, StateFields

(* Closing a text adds at most that text to the output.                    *)
LEMMA GatheredClose ==
  ASSUME NEW s, NEW fs, Gathered(s, fs), NEW k \in TextKinds
  PROVE  Gathered(CloseText(s, k), fs)
<1>1. CASE s.open[k] = None
  BY <1>1 DEF CloseText
<1>2. CASE s.open[k] # None
  <2> DEFINE o == s.open[k]
             item == [type |-> k, id |-> o.id, text |-> o.text]
             es == <<Event(TextEvents[k].text, o.index, o.text),
                     Event(TextEvents[k].part, o.index, o.text),
                     Event("item.done", o.index, item)>>
             u == EmitAll(s, es)
             t == [u EXCEPT !.open[k] = None, !.output = Append(@, item)]
  <2>1. CloseText(s, k) = t
    BY <1>2 DEF CloseText
  <2>2. IsState(s) /\ IsSeq(s.output)
    BY DEF Gathered
  <2> HIDE DEF es
  <2>3. IsState(u) /\ Same(s, u, {"pending", "sequence"})
    BY <2>2, EmitKeeps
  <2> HIDE DEF u
  <2>4. item.type \in TextKinds
    OBVIOUS
  <2> HIDE DEF item
  <2>5. IsState(t) /\ t.calls = u.calls /\ t.output = Append(u.output, item)
    BY <2>3 DEF IsState, StateFields
  <2>6. u.calls = s.calls /\ u.output = s.output
    BY <2>3 DEF Same, StateFields
  <2> HIDE DEF t
  <2>7. IsSeq(t.output) /\ TextsOnly(t.output)
    <3>1. TextsOnly(s.output)
      BY DEF Gathered
    <3>2. /\ IsSeq(Append(s.output, item)) /\ Len(s.output) \in Nat
          /\ Len(Append(s.output, item)) = Len(s.output) + 1
          /\ \A p \in 1..Len(s.output) : Append(s.output, item)[p] = s.output[p]
          /\ Append(s.output, item)[Len(s.output) + 1] = item
      BY <2>2, AppendFacts
    <3> QED BY <2>4, <2>5, <2>6, <3>1, <3>2 DEF TextsOnly
  <2>8. Gathered(t, fs)
    BY <2>5, <2>6, <2>7 DEF Gathered
  <2> QED BY <2>1, <2>8
<1> QED BY <1>1, <1>2

(* Opening one, or saying more of it, leaves the calls and the output.     *)
LEMMA GatheredSay ==
  ASSUME NEW s, NEW fs, Gathered(s, fs), NEW k \in TextKinds, NEW delta
  PROVE  Gathered(OpenText(s, k), fs) /\ Gathered(AppendText(s, k, delta), fs)
<1>1. IsState(s)
  BY DEF Gathered
<1>2. ASSUME NEW t, IsState(t), t.calls = s.calls, t.output = s.output PROVE Gathered(t, fs)
  BY <1>2 DEF Gathered
<1>3. Gathered(OpenText(s, k), fs)
  <2>1. CASE s.open[k] # None
    BY <2>1 DEF OpenText
  <2>2. CASE s.open[k] = None
    <3> DEFINE id == ItemId(s, k, s.nextIndex)
               es == <<Event("item.added", s.nextIndex, [type |-> k, id |-> id, text |-> <<>>]),
                       Event(TextEvents[k].added, s.nextIndex, <<>>)>>
               u == EmitAll(s, es)
               t == [u EXCEPT !.nextIndex = @ + 1,
                              !.open[k] = [id |-> id, index |-> s.nextIndex, text |-> <<>>]]
    <3>1. OpenText(s, k) = t
      BY <2>2 DEF OpenText
    <3> HIDE DEF es, id
    <3>2. IsState(u) /\ Same(s, u, {"pending", "sequence"})
      BY <1>1, EmitKeeps
    <3> HIDE DEF u
    <3>3. IsState(t) /\ t.calls = u.calls /\ t.output = u.output
      BY <3>2 DEF IsState, StateFields
    <3>4. u.calls = s.calls /\ u.output = s.output
      BY <3>2 DEF Same, StateFields
    <3> HIDE DEF t
    <3> QED BY <1>2, <3>1, <3>3, <3>4
  <2> QED BY <2>1, <2>2
<1>4. Gathered(AppendText(s, k, delta), fs)
  <2> DEFINE u == [s EXCEPT !.open[k].text = @ \o delta]
             es == <<Event(TextEvents[k].delta, s.open[k].index, delta)>>
             t == EmitAll(u, es)
  <2>1. AppendText(s, k, delta) = t
    BY DEF AppendText, Emit
  <2>2. IsState(u) /\ u.calls = s.calls /\ u.output = s.output
    BY <1>1 DEF IsState, StateFields
  <2> HIDE DEF u, es
  <2>3. IsState(t) /\ Same(u, t, {"pending", "sequence"})
    BY <2>2, EmitKeeps
  <2> HIDE DEF t
  <2>4. t.calls = u.calls /\ t.output = u.output
    BY <2>3 DEF Same, StateFields
  <2> QED BY <1>2, <2>1, <2>2, <2>3, <2>4
<1> QED BY <1>3, <1>4

(* One call of a state changes.                                            *)
Puts(s, t, i, d) ==
  /\ IsState(t) /\ t.output = s.output /\ IsSeq(t.calls) /\ Len(t.calls) = Len(s.calls)
  /\ t.calls[i] = d /\ \A j \in 1..Len(s.calls) : j # i => t.calls[j] = s.calls[j]

(* When an entry of the calls is written.                                  *)
LEMMA PutCall ==
  ASSUME NEW s, IsSeq(s.calls), NEW i \in 1..Len(s.calls), NEW d, NEW t, IsState(t),
         t.output = s.output, t.calls = [s.calls EXCEPT ![i] = d]
  PROVE  Puts(s, t, i, d)
<1>1. PICK S : s.calls \in Seq(S)
  BY DEF IsSeq
<1>2. s.calls \in Seq(S \cup {d})
  BY <1>1
<1>3. t.calls \in Seq(S \cup {d}) /\ Len(t.calls) = Len(s.calls)
  BY <1>2
<1>4. t.calls[i] = d /\ \A j \in 1..Len(s.calls) : j # i => t.calls[j] = s.calls[j]
  BY <1>2
<1> QED BY <1>3, <1>4 DEF Puts, IsSeq

(* The calls that are made room for hold nothing.                          *)
LEMMA GrowCalls ==
  ASSUME NEW cs, IsSeq(cs), NEW i \in Nat \ {0}
  PROVE  /\ IsSeq(Grow(cs, i)) /\ i \in 1..Len(Grow(cs, i))
         /\ \A n \in Nat : CallAt(Grow(cs, i), n) = CallAt(cs, n)
<1>1. Len(cs) \in Nat
  BY SeqFacts
<1>2. CASE i <= Len(cs)
  <2>1. Grow(cs, i) = cs
    BY <1>2 DEF Grow
  <2> QED BY <1>1, <1>2, <2>1
<1>3. CASE ~(i <= Len(cs))
  <2> DEFINE more == [l \in 1..(i - Len(cs)) |-> DefaultCall]
  <2>1. more \in Seq({DefaultCall}) /\ Len(more) = i - Len(cs)
    BY <1>1, <1>3
  <2>2. Grow(cs, i) = cs \o more
    BY <1>3 DEF Grow
  <2>3. IsSeq(more) /\ \A l \in 1..Len(more) : more[l] = DefaultCall
    BY <2>1 DEF IsSeq
  <2> HIDE DEF more
  <2> DEFINE r == cs \o more
  <2>4. /\ IsSeq(r) /\ Len(r) = Len(cs) + Len(more)
        /\ \A p \in 1..Len(cs) : r[p] = cs[p]
        /\ \A p \in 1..Len(more) : r[Len(cs) + p] = more[p]
    BY <2>3, ConcatFacts
  <2> HIDE DEF r
  <2>5. Len(r) = i
    BY <1>1, <2>1, <2>4
  <2>6. ASSUME NEW n \in Nat PROVE CallAt(r, n) = CallAt(cs, n)
    <3>1. CASE n < Len(cs)
      <4>1. n + 1 \in 1..Len(cs) /\ n < Len(r)
        BY <1>1, <1>3, <2>5, <3>1
      <4> QED BY <2>4, <3>1, <4>1 DEF CallAt
    <3>2. CASE ~(n < Len(cs)) /\ n < i
      <4>1. /\ n + 1 - Len(cs) \in 1..Len(more) /\ Len(cs) + (n + 1 - Len(cs)) = n + 1
        BY <1>1, <2>1, <3>2
      <4>2. r[n + 1] = DefaultCall
        BY <2>3, <2>4, <4>1
      <4> QED BY <2>5, <3>2, <4>2 DEF CallAt
    <3>3. CASE ~(n < Len(cs)) /\ ~(n < i)
      BY <2>5, <3>3 DEF CallAt
    <3> QED BY <3>1, <3>2, <3>3
  <2> QED BY <2>2, <2>4, <2>5, <2>6 DEF r
<1> QED BY <1>2, <1>3

(* The output index of a call is none of what it was given.                *)
LEMMA ReserveGathers ==
  ASSUME NEW s, IsState(s), IsSeq(s.calls), NEW i \in 1..Len(s.calls),
         NEW id, NEW name, NEW arguments, Gathers(s.calls[i], id, name, arguments)
  PROVE  \E d : Puts(s, Reserve(s, i), i, d) /\ Gathers(d, id, name, arguments)
<1>1. CASE s.calls[i].id # <<>>
  <2>1. Reserve(s, i) = s
    BY <1>1 DEF Reserve
  <2>2. Puts(s, s, i, s.calls[i])
    BY DEF Puts
  <2> QED BY <2>1, <2>2
<1>2. CASE s.calls[i].id = <<>>
  <2> DEFINE c == s.calls[i]
             t == Reserve(s, i)
             d == [c EXCEPT !.index = s.nextIndex, !.id = ItemId(s, "call", s.nextIndex)]
  <2>1. t = [s EXCEPT !.calls[i] = d, !.nextIndex = @ + 1]
    BY <1>2 DEF Reserve
  <2> HIDE DEF t
  <2>2. Gathers(d, id, name, arguments)
    <3>1. c = [x \in CallFields |-> c[x]]
      BY DEF Gathers
    <3> HIDE DEF c
    <3>2. /\ d = [x \in CallFields |-> d[x]] /\ d.announced = c.announced /\ d.callId = c.callId
          /\ d.encodedName = c.encodedName /\ d.name = c.name /\ d.freeform = c.freeform
          /\ d.arguments = c.arguments
      BY <3>1 DEF CallFields
    <3> HIDE DEF d
    <3> QED BY <3>2 DEF Gathers, c
  <2> HIDE DEF d
  <2>3. IsState(t) /\ t.output = s.output /\ t.calls = [s.calls EXCEPT ![i] = d]
    BY <2>1 DEF IsState, StateFields
  <2>4. Puts(s, t, i, d)
    BY <2>3, PutCall
  <2> QED BY <2>2, <2>4 DEF t
<1> QED BY <1>1, <1>2

(* All but the announcement that a first identifier or name may call for.  *)
Prepared(c, id, name, arguments) ==
  /\ c = [x \in CallFields |-> c[x]] /\ c.announced \in BOOLEAN
  /\ c.callId = IF id = <<>> THEN <<>> ELSE SanitizeIdentifier(id)
  /\ c.encodedName = name
  /\ name # <<>> => c.name = Decode(Tools, name) /\ c.freeform = IsFreeform(name)
  /\ c.arguments = arguments /\ IsSeq(arguments)
  /\ c.announced => id # <<>> /\ name # <<>>

(* The first identifier and the first name a call is given stay its own.   *)
LEMMA IdentifyGathers ==
  ASSUME NEW c, NEW id \in Seq(Chars), NEW name, NEW arguments, Gathers(c, id, name, arguments), NEW f
  PROVE  Prepared(Identify(c, f), IF id # <<>> THEN id ELSE f.id, IF name # <<>> THEN name ELSE f.name,
               arguments)
<1> DEFINE d == Identify(c, f)
           newId == IF id # <<>> THEN id ELSE f.id
           newName == IF name # <<>> THEN name ELSE f.name
<1>1. c = [x \in CallFields |-> c[x]]
  BY DEF Gathers
<1>2. /\ d = [x \in CallFields |-> d[x]] /\ d.announced = c.announced
      /\ d.arguments = c.arguments
      /\ d.callId = IF f.id # <<>> /\ c.callId = <<>> THEN SanitizeIdentifier(f.id) ELSE c.callId
      /\ d.encodedName = IF f.name # <<>> /\ c.encodedName = <<>> THEN f.name ELSE c.encodedName
      /\ d.name = IF f.name # <<>> /\ c.encodedName = <<>> THEN Decode(Tools, f.name) ELSE c.name
      /\ d.freeform = IF f.name # <<>> /\ c.encodedName = <<>> THEN IsFreeform(f.name)
                      ELSE c.freeform
  BY <1>1 DEF CallFields, Identify
<1> HIDE DEF d
<1>3. id # <<>> => SanitizeIdentifier(id) # <<>>
  BY SanitizedIdentifier DEF Identifiers
<1>4. d.callId = IF newId = <<>> THEN <<>> ELSE SanitizeIdentifier(newId)
  BY <1>2, <1>3 DEF Gathers
<1>5. d.encodedName = newName
  BY <1>2 DEF Gathers
<1>6. newName # <<>> => d.name = Decode(Tools, newName) /\ d.freeform = IsFreeform(newName)
  <2>1. CASE name # <<>>
    BY <1>2, <2>1 DEF Gathers
  <2>2. CASE name = <<>>
    BY <1>2, <2>2 DEF Gathers
  <2> QED BY <2>1, <2>2
<1>7. d.announced \in BOOLEAN /\ (d.announced => newId # <<>> /\ newName # <<>>)
  BY <1>2 DEF Gathers
<1> QED BY <1>2, <1>4, <1>5, <1>6, <1>7 DEF Prepared, Gathers, d

(* A call is announced as soon as it has both.                             *)
LEMMA AnnounceGathers ==
  ASSUME NEW s, IsState(s), IsSeq(s.calls), NEW i \in 1..Len(s.calls),
         NEW id \in Seq(Chars), NEW name, NEW arguments,
         Prepared(s.calls[i], id, name, arguments)
  PROVE  \E d : Puts(s, Announce(s, i), i, d) /\ Gathers(d, id, name, arguments)
<1> DEFINE c == s.calls[i]
<1>1. c.callId = <<>> <=> id = <<>>
  BY SanitizedIdentifier DEF Identifiers, Prepared
<1>2. c.encodedName = <<>> <=> name = <<>>
  BY DEF Prepared
<1>3. c.announced \in BOOLEAN /\ (c.announced => id # <<>> /\ name # <<>>)
  BY DEF Prepared
<1>4. CASE c.announced \/ c.encodedName = <<>> \/ c.callId = <<>>
  <2>1. Announce(s, i) = s
    BY <1>4 DEF Announce
  <2>2. Puts(s, s, i, c)
    BY DEF Puts
  <2>3. c.announced <=> id # <<>> /\ name # <<>>
    BY <1>1, <1>2, <1>3, <1>4
  <2>4. Gathers(c, id, name, arguments)
    BY <2>3 DEF Gathers, Prepared
  <2> QED BY <2>1, <2>2, <2>4
<1>5. CASE ~(c.announced \/ c.encodedName = <<>> \/ c.callId = <<>>)
  <2> DEFINE d == [c EXCEPT !.announced = TRUE]
             u == [s EXCEPT !.calls[i].announced = TRUE]
             es == <<Event("item.added", c.index, CallItem(c, <<>>))>>
             t == EmitAll(u, es)
  <2>1. Announce(s, i) = t
    BY <1>5 DEF Announce, Emit
  <2>2. Gathers(d, id, name, arguments)
    <3>1. c = [x \in CallFields |-> c[x]] /\ id # <<>> /\ name # <<>>
      BY <1>1, <1>2, <1>5 DEF Prepared
    <3> HIDE DEF c
    <3>2. /\ d = [x \in CallFields |-> d[x]] /\ d.announced = TRUE /\ d.callId = c.callId
          /\ d.encodedName = c.encodedName /\ d.name = c.name /\ d.freeform = c.freeform
          /\ d.arguments = c.arguments
      BY <3>1 DEF CallFields
    <3> HIDE DEF d
    <3> QED BY <3>1, <3>2 DEF Gathers, Prepared, c
  <2>3. IsState(u) /\ u.output = s.output /\ u.calls = [s.calls EXCEPT ![i] = d]
    BY DEF IsState, StateFields
  <2> HIDE DEF u, d, es
  <2>4. IsState(t) /\ Same(u, t, {"pending", "sequence"})
    BY <2>3, EmitKeeps
  <2> HIDE DEF t
  <2>5. t.output = s.output /\ t.calls = [s.calls EXCEPT ![i] = d]
    BY <2>3, <2>4 DEF Same, StateFields
  <2>6. Puts(s, t, i, d)
    BY <2>4, <2>5, PutCall
  <2> QED BY <2>1, <2>2, <2>6
<1> QED BY <1>4, <1>5

(* A fragment of its arguments goes behind those it has.                   *)
LEMMA ArgumentsGathers ==
  ASSUME NEW s, IsState(s), IsSeq(s.calls), NEW i \in 1..Len(s.calls),
         NEW id, NEW name, NEW arguments, Gathers(s.calls[i], id, name, arguments),
         NEW fragment, IsSeq(fragment)
  PROVE  \E d : /\ Puts(s, AddArguments(s, i, fragment), i, d)
                /\ Gathers(d, id, name, arguments \o fragment)
<1> DEFINE c == s.calls[i]
<1>1. CASE fragment = <<>>
  <2>1. AddArguments(s, i, fragment) = s
    BY <1>1 DEF AddArguments
  <2>2. Puts(s, s, i, c)
    BY DEF Puts
  <2>3. arguments \o fragment = arguments
    BY <1>1, EmptyFacts DEF Gathers
  <2> QED BY <2>1, <2>2, <2>3
<1>2. CASE fragment # <<>>
  <2> DEFINE d == [c EXCEPT !.arguments = @ \o fragment]
             u == [s EXCEPT !.calls[i].arguments = @ \o fragment]
             es == <<Event("arguments.delta", c.index, fragment)>>
             v == EmitAll(u, es)
             t == AddArguments(s, i, fragment)
  <2>1. t = u \/ t = v
    BY <1>2 DEF AddArguments, Emit
  <2> HIDE DEF t
  <2>2. Gathers(d, id, name, arguments \o fragment)
    <3>1. /\ c = [x \in CallFields |-> c[x]] /\ c.arguments = arguments
          /\ IsSeq(arguments \o fragment)
      BY ConcatFacts DEF Gathers
    <3> HIDE DEF c
    <3>2. /\ d = [x \in CallFields |-> d[x]] /\ d.announced = c.announced /\ d.callId = c.callId
          /\ d.encodedName = c.encodedName /\ d.name = c.name /\ d.freeform = c.freeform
          /\ d.arguments = arguments \o fragment
      BY <3>1 DEF CallFields
    <3> HIDE DEF d
    <3> QED BY <3>1, <3>2 DEF Gathers, c
  <2>3. IsState(u) /\ u.output = s.output /\ u.calls = [s.calls EXCEPT ![i] = d]
    BY DEF IsState, StateFields
  <2> HIDE DEF u, d, es
  <2>4. IsState(v) /\ Same(u, v, {"pending", "sequence"})
    BY <2>3, EmitKeeps
  <2> HIDE DEF v
  <2>5. v.output = s.output /\ v.calls = [s.calls EXCEPT ![i] = d]
    BY <2>3, <2>4 DEF Same, StateFields
  <2>6. Puts(s, u, i, d) /\ Puts(s, v, i, d)
    BY <2>3, <2>4, <2>5, PutCall
  <2>7. Puts(s, t, i, d)
    BY <2>1, <2>6
  <2> QED BY <2>2, <2>7 DEF t
<1> QED BY <1>1, <1>2

(* One write after another to the same call.                               *)
LEMMA PutTwice ==
  ASSUME NEW s, NEW t, NEW u, NEW i, NEW d, NEW e, Puts(s, t, i, d), Puts(t, u, i, e)
  PROVE  Puts(s, u, i, e)
BY DEF Puts

(* push_tool_call: the call of the fragment is given what it brings, and   *)
(* every other call stays as it is.                                        *)
LEMMA GatheredPushToolCall ==
  ASSUME NEW s, NEW fs, Gathered(s, fs), NEW f \in CallDeltas
  PROVE  Gathered(PushToolCall(s, f), Append(fs, f))
<1> DEFINE i == f.index + 1
           n == f.index
           gs == Append(fs, f)
           a == CloseReasoning(s)
           b == CloseMessage(a)
           grown == [b EXCEPT !.calls = Grow(@, i)]
           reserved == Reserve(grown, i)
           identified == [reserved EXCEPT !.calls[i] = Identify(@, f)]
           announced == Announce(identified, i)
           t == AddArguments(announced, i, f.arguments)
           id == FirstId(fs, n)
           name == FirstName(fs, n)
           arguments == ArgumentsIn(fs, n)
           newId == IF id # <<>> THEN id ELSE f.id
           newName == IF name # <<>> THEN name ELSE f.name
<1>1. PushToolCall(s, f) = t
  BY DEF PushToolCall
<1>2. n \in Nat /\ i \in Nat \ {0} /\ f.id \in Seq(Chars) /\ fs \in Seq(CallDeltas)
  BY DEF CallDeltas, Gathered
<1>3. Gathered(b, fs)
  <2>1. Gathered(a, fs)
    BY GatheredClose DEF CloseReasoning, TextKinds
  <2> HIDE DEF a
  <2> QED BY <2>1, GatheredClose DEF CloseMessage, TextKinds
<1> HIDE DEF a, b
<1>4. /\ IsState(b) /\ IsSeq(b.calls) /\ IsSeq(b.output) /\ Gathering(b.calls, fs)
      /\ TextsOnly(b.output)
  BY <1>3 DEF Gathered
<1>5. IsState(grown) /\ grown.calls = Grow(b.calls, i) /\ grown.output = b.output
  BY <1>4 DEF IsState, StateFields
<1> HIDE DEF grown
<1>6. /\ IsSeq(grown.calls) /\ i \in 1..Len(grown.calls)
      /\ \A m \in Nat : CallAt(grown.calls, m) = CallAt(b.calls, m)
  BY <1>2, <1>4, <1>5, GrowCalls
<1>7. Gathering(grown.calls, fs) /\ Len(grown.calls) \in Nat
  BY <1>4, <1>6, SeqFacts DEF Gathering
<1>8. Gathers(grown.calls[i], id, name, arguments)
  <2>1. n < Len(grown.calls)
    BY <1>2, <1>6, <1>7
  <2> QED BY <1>2, <1>7, <2>1 DEF Gathering, CallAt
<1>9. PICK d1 : Puts(grown, reserved, i, d1) /\ Gathers(d1, id, name, arguments)
  <2> HIDE DEF i, id, name, arguments
  <2> QED BY <1>5, <1>6, <1>8, ReserveGathers
<1> HIDE DEF i, id, name, arguments, reserved
<1>10. /\ IsState(reserved) /\ IsSeq(reserved.calls) /\ Len(reserved.calls) = Len(grown.calls)
       /\ reserved.calls[i] = d1
  BY <1>9 DEF Puts
<1> DEFINE d2 == Identify(d1, f)
<1>11. IsState(identified) /\ identified.output = reserved.output
       /\ identified.calls = [reserved.calls EXCEPT ![i] = d2]
  BY <1>10 DEF IsState, StateFields
<1>12. id \in Seq(Chars) /\ newId \in Seq(Chars)
  BY <1>2, FirstsFacts DEF id
<1>13. Prepared(d2, newId, newName, arguments)
  BY <1>9, <1>12, IdentifyGathers
<1> HIDE DEF identified, d2, newId, newName
<1>14. Puts(reserved, identified, i, d2)
  BY <1>6, <1>10, <1>11, PutCall
<1>15. /\ IsSeq(identified.calls) /\ Len(identified.calls) = Len(grown.calls)
       /\ identified.calls[i] = d2
  BY <1>10, <1>14 DEF Puts
<1>16. PICK d3 : Puts(identified, announced, i, d3) /\ Gathers(d3, newId, newName, arguments)
  BY <1>6, <1>11, <1>12, <1>13, <1>15, AnnounceGathers
<1> HIDE DEF announced
<1>17. /\ IsState(announced) /\ IsSeq(announced.calls) /\ Len(announced.calls) = Len(grown.calls)
       /\ announced.calls[i] = d3
  BY <1>15, <1>16 DEF Puts
<1>18. IsSeq(f.arguments)
  BY DEF CallDeltas, IsSeq
<1>19. PICK d4 : Puts(announced, t, i, d4) /\ Gathers(d4, newId, newName, arguments \o f.arguments)
  BY <1>6, <1>16, <1>17, <1>18, ArgumentsGathers
<1> HIDE DEF t
<1>20. Puts(grown, t, i, d4)
  <2>1. Puts(grown, identified, i, d2)
    BY <1>9, <1>14, PutTwice
  <2>2. Puts(grown, announced, i, d3)
    BY <1>16, <2>1, PutTwice
  <2> QED BY <1>19, <2>2, PutTwice
<1>21. ASSUME NEW m \in Nat
       PROVE  Gathers(CallAt(t.calls, m), FirstId(gs, m), FirstName(gs, m), ArgumentsIn(gs, m))
  <2>1. Len(t.calls) = Len(grown.calls)
    BY <1>20 DEF Puts
  <2>2. CASE m = n
    <3>1. FirstId(gs, m) = newId /\ FirstName(gs, m) = newName
      BY <1>2, <2>2, FirstsAppend DEF newId, newName, id, name
    <3>2. ArgumentsIn(gs, m) = arguments \o f.arguments
      BY <1>2, <2>2, ArgumentsAppend DEF arguments
    <3>3. CallAt(t.calls, m) = d4
      BY <1>2, <1>6, <1>7, <1>20, <2>1, <2>2 DEF CallAt, Puts, i
    <3> QED BY <1>19, <3>1, <3>2, <3>3
  <2>3. CASE m # n
    <3>1. FirstId(gs, m) = FirstId(fs, m) /\ FirstName(gs, m) = FirstName(fs, m)
      BY <1>2, <2>3, FirstsAppend
    <3>2. ArgumentsIn(gs, m) = ArgumentsIn(fs, m)
      <4>1. ArgumentsIn(gs, m) = ArgumentsIn(fs, m) \o <<>>
        BY <1>2, <2>3, ArgumentsAppend
      <4>2. IsSeq(ArgumentsIn(fs, m))
        BY <1>7 DEF Gathering, Gathers
      <4> QED BY <4>1, <4>2, EmptyFacts
    <3>3. CallAt(t.calls, m) = CallAt(grown.calls, m)
      <4>1. CASE m < Len(grown.calls)
        <5>1. m + 1 \in 1..Len(grown.calls) /\ m + 1 # i
          BY <1>2, <1>7, <2>3, <4>1 DEF i
        <5>2. t.calls[m + 1] = grown.calls[m + 1]
          BY <1>20, <5>1 DEF Puts
        <5> QED BY <2>1, <4>1, <5>2 DEF CallAt
      <4>2. CASE ~(m < Len(grown.calls))
        BY <2>1, <4>2 DEF CallAt
      <4> QED BY <4>1, <4>2
    <3> QED BY <1>7, <3>1, <3>2, <3>3 DEF Gathering
  <2> QED BY <2>2, <2>3
<1>22. gs \in Seq(CallDeltas)
  BY <1>2
<1> HIDE DEF gs
<1>23. IsState(t) /\ IsSeq(t.calls) /\ t.output = b.output
  BY <1>5, <1>20 DEF Puts
<1>24. Gathered(t, gs)
  BY <1>4, <1>21, <1>22, <1>23 DEF Gathered, Gathering
<1> QED BY <1>1, <1>24 DEF gs

(* The fragments of a chunk, one after the other.                          *)
LEMMA PushRun ==
  ASSUME NEW s, NEW calls \in Seq(CallDeltas)
  PROVE  \E pushed : /\ pushed[0] = s /\ PushToolCalls(s, calls) = pushed[Len(calls)]
                     /\ \A m \in Nat : m + 1 <= Len(calls) =>
                          pushed[m + 1] = PushToolCall(pushed[m], calls[m + 1])
<1> DEFINE IsRun(g, m) == g = [n \in 0..m |-> IF n = 0 THEN s ELSE PushToolCall(g[n - 1], calls[n])]
           pushed == CHOOSE g : IsRun(g, Len(calls))
           E == {m \in Nat : \E g : IsRun(g, m)}
<1>1. 0 \in E
  <2> DEFINE g == [n \in 0..0 |-> s]
  <2>1. g = [n \in 0..0 |-> IF n = 0 THEN s ELSE PushToolCall(g[n - 1], calls[n])]
    OBVIOUS
  <2> QED BY <2>1
<1>2. ASSUME NEW m \in Nat, m \in E PROVE m + 1 \in E
  <2>1. PICK g : IsRun(g, m)
    BY <1>2
  <2> DEFINE w == [n \in 0..(m + 1) |-> IF n <= m THEN g[n] ELSE PushToolCall(g[m], calls[m + 1])]
  <2>2. \A n \in 0..(m + 1) : w[n] = IF n = 0 THEN s ELSE PushToolCall(w[n - 1], calls[n])
    BY <2>1
  <2>3. w = [n \in 0..(m + 1) |-> IF n = 0 THEN s ELSE PushToolCall(w[n - 1], calls[n])]
    BY <2>2
  <2>4. IsRun(w, m + 1) /\ m + 1 \in Nat
    BY <2>3
  <2> HIDE DEF w, IsRun
  <2> QED BY <2>4
<1>3. Len(calls) \in E
  <2> HIDE DEF E
  <2>1. Nat \subseteq E
    BY <1>1, <1>2, SetInduction
  <2> QED BY <2>1
<1>4. IsRun(pushed, Len(calls))
  BY <1>3
<1>5. PushToolCalls(s, calls) = pushed[Len(calls)]
  BY DEF PushToolCalls
<1> HIDE DEF pushed
<1>6. pushed[0] = s /\ \A m \in Nat : m + 1 <= Len(calls) =>
        pushed[m + 1] = PushToolCall(pushed[m], calls[m + 1])
  BY <1>4
<1> QED BY <1>5, <1>6

(* They are given to their calls.                                          *)
LEMMA GatheredPushToolCalls ==
  ASSUME NEW s, NEW fs, Gathered(s, fs), NEW calls \in Seq(CallDeltas)
  PROVE  Gathered(PushToolCalls(s, calls), fs \o calls)
<1>1. PICK pushed : /\ pushed[0] = s /\ PushToolCalls(s, calls) = pushed[Len(calls)]
                    /\ \A m \in Nat : m + 1 <= Len(calls) =>
                         pushed[m + 1] = PushToolCall(pushed[m], calls[m + 1])
  BY PushRun
<1> DEFINE Sofar(m) == fs \o SubSeq(calls, 1, m)
           S == {m \in Nat : m <= Len(calls) => Gathered(pushed[m], Sofar(m))}
<1>2. fs \in Seq(CallDeltas)
  BY DEF Gathered
<1>3. 0 \in S
  <2>1. Sofar(0) = fs
    BY <1>2
  <2> HIDE DEF Sofar
  <2> QED BY <1>1, <2>1
<1>4. ASSUME NEW m \in Nat, m \in S PROVE m + 1 \in S
  <2> SUFFICES ASSUME m + 1 <= Len(calls) PROVE Gathered(pushed[m + 1], Sofar(m + 1))
    OBVIOUS
  <2>1. Gathered(pushed[m], Sofar(m)) /\ calls[m + 1] \in CallDeltas
    BY <1>4
  <2>2. Gathered(PushToolCall(pushed[m], calls[m + 1]), Append(Sofar(m), calls[m + 1]))
    <3> HIDE DEF Sofar
    <3> QED BY <2>1, GatheredPushToolCall
  <2>3. Sofar(m + 1) = Append(Sofar(m), calls[m + 1])
    BY <1>2
  <2> HIDE DEF Sofar
  <2> QED BY <1>1, <2>2, <2>3
<1>5. Nat \subseteq S
  <2> HIDE DEF S
  <2> QED BY <1>3, <1>4, SetInduction
<1>6. Gathered(pushed[Len(calls)], Sofar(Len(calls)))
  <2>1. Len(calls) \in S
    BY <1>5
  <2> QED BY <2>1
<1>7. Sofar(Len(calls)) = fs \o calls
  BY <1>2
<1> QED BY <1>1, <1>6, <1>7
-----------------------------------------------------------------------------
(* A call that has gathered what it was given is owed when it is announced, *)
(* and becomes the item it must become.                                    *)
LEMMA CallDelivered ==
  ASSUME NEW fs \in Seq(CallDeltas), NEW n, NEW c,
         Gathers(c, FirstId(fs, n), FirstName(fs, n), ArgumentsIn(fs, n))
  PROVE  /\ c.announced <=> n \in Owed(fs)
         /\ c.announced => Delivered(fs, n, CallItem(c, CallPayload(c)))
         /\ CallItem(c, CallPayload(c)).type \notin TextKinds
<1> DEFINE item == CallItem(c, CallPayload(c))
<1>1. /\ FirstId(fs, n) # <<>> <=> WithId(fs, n) # {}
      /\ FirstName(fs, n) # <<>> <=> WithName(fs, n) # {}
  BY FirstsFacts
<1>2. n \in Owed(fs) <=> WithId(fs, n) # {} /\ WithName(fs, n) # {}
  BY DEF Owed, WithId
<1>3. c.announced <=> n \in Owed(fs)
  BY <1>1, <1>2 DEF Gathers
<1>4. /\ item.type = (IF c.freeform THEN "custom_tool_call" ELSE "function_call")
      /\ item.callId = c.callId /\ item.name = c.name /\ item.payload = CallPayload(c)
  BY DEF CallItem
<1> HIDE DEF item
<1>5. ASSUME c.announced PROVE Delivered(fs, n, item)
  <2> DEFINE name == fs[Min(WithName(fs, n))].name
  <2>1. FirstId(fs, n) = fs[Min(WithId(fs, n))].id /\ FirstName(fs, n) = name
    BY <1>2, <1>3, <1>5 DEF FirstId, FirstName
  <2>2. FirstId(fs, n) # <<>> /\ name # <<>>
    BY <1>1, <1>2, <1>3, <1>5, <2>1
  <2> HIDE DEF name
  <2>3. /\ c.callId = SanitizeIdentifier(fs[Min(WithId(fs, n))].id) /\ c.name = Decode(Tools, name)
        /\ c.freeform = IsFreeform(name) /\ c.arguments = ArgumentsIn(fs, n)
    BY <2>1, <2>2 DEF Gathers
  <2>4. c.freeform <=> IsFreeform(name)
    BY <2>3
  <2>5. item.type = IF IsFreeform(name) THEN "custom_tool_call" ELSE "function_call"
    BY <1>4, <2>4
  <2>6. item.payload = IF IsFreeform(name) THEN FreeformInput(ArgumentsIn(fs, n))
                       ELSE IF ArgumentsIn(fs, n) = <<>> THEN EmptyObject ELSE ArgumentsIn(fs, n)
    BY <1>4, <2>3, <2>4 DEF CallPayload
  <2> QED BY <1>4, <2>3, <2>5, <2>6 DEF Delivered, name
<1>6. item.type \notin TextKinds
  BY <1>4 DEF TextKinds
<1> QED BY <1>3, <1>5, <1>6 DEF item

(* Closing a call adds its item to the output.                             *)
LEMMA CloseAppends ==
  ASSUME NEW s, IsState(s), NEW c
  PROVE  /\ IsState(CloseCall(s, c))
         /\ CloseCall(s, c).output = Append(s.output, CallItem(c, CallPayload(c)))
<1> DEFINE item == CallItem(c, CallPayload(c))
           es == IF c.freeform
                 THEN <<Event("input.delta", c.index, CallPayload(c)),
                        Event("input.done", c.index, CallPayload(c)),
                        Event("item.done", c.index, item)>>
                 ELSE <<Event("arguments.done", c.index, CallPayload(c)),
                        Event("item.done", c.index, item)>>
           u == EmitAll(s, es)
           t == [u EXCEPT !.output = Append(@, item)]
<1>1. CloseCall(s, c) = t
  BY DEF CloseCall, CallPayload
<1> HIDE DEF es
<1>2. IsState(u) /\ Same(s, u, {"pending", "sequence"})
  BY EmitKeeps
<1> HIDE DEF u, item
<1>3. IsState(t) /\ t.output = Append(u.output, item)
  BY <1>2 DEF IsState, StateFields
<1>4. u.output = s.output
  BY <1>2 DEF Same, StateFields
<1> QED BY <1>1, <1>3, <1>4 DEF item

(* The calls before the m-th are in the output, each once and in order.    *)
Owns(owner, output, fs, m) ==
  /\ owner \in [CallItems(output) -> Nat]
  /\ \A p \in CallItems(output) :
       owner[p] < m /\ owner[p] \in Owed(fs) /\ Delivered(fs, owner[p], output[p])
  /\ \A p, q \in CallItems(output) : p < q => owner[p] < owner[q]
  /\ \A n \in Owed(fs) : n < m => \E p \in CallItems(output) : owner[p] = n

(* One call more.                                                          *)
LEMMA OwnsNext ==
  ASSUME NEW output, IsSeq(output), NEW fs, NEW m \in Nat, NEW owner, Owns(owner, output, fs, m),
         NEW item, item.type \notin TextKinds, m \in Owed(fs), Delivered(fs, m, item),
         Owed(fs) \subseteq Nat
  PROVE  \E w : Owns(w, Append(output, item), fs, m + 1)
<1> DEFINE more == Append(output, item)
           l == Len(output)
           w == [p \in CallItems(more) |-> IF p = l + 1 THEN m ELSE owner[p]]
<1>1. /\ IsSeq(more) /\ l \in Nat /\ Len(more) = l + 1
      /\ \A p \in 1..l : more[p] = output[p]
      /\ more[l + 1] = item
  BY AppendFacts
<1> HIDE DEF more, l
<1>2. CallItems(output) \subseteq 1..l
  BY DEF CallItems, l
<1>3. CallItems(more) = CallItems(output) \cup {l + 1}
  <2>1. \A p \in 1..(l + 1) : p \in 1..l \/ p = l + 1
    BY <1>1
  <2> QED BY <1>1, <2>1 DEF CallItems, l
<1>4. l + 1 \notin CallItems(output) /\ \A p \in CallItems(output) : p < l + 1 /\ ~(l + 1 < p)
  BY <1>1, <1>2
<1>5. /\ w[l + 1] = m /\ \A p \in CallItems(output) : w[p] = owner[p] /\ more[p] = output[p]
  BY <1>1, <1>2, <1>3, <1>4
<1>6. \A p \in CallItems(output) :
        /\ owner[p] \in Nat /\ owner[p] < m
        /\ owner[p] \in Owed(fs) /\ Delivered(fs, owner[p], output[p])
  BY DEF Owns
<1>7. w \in [CallItems(more) -> Nat]
  BY <1>3, <1>4, <1>6
<1> HIDE DEF w
<1>8. ASSUME NEW p \in CallItems(more)
      PROVE  w[p] < m + 1 /\ w[p] \in Owed(fs) /\ Delivered(fs, w[p], more[p])
  <2>1. CASE p = l + 1
    BY <1>1, <1>5, <2>1
  <2>2. CASE p \in CallItems(output)
    BY <1>5, <1>6, <2>2
  <2> QED BY <1>3, <2>1, <2>2
<1>9. ASSUME NEW p \in CallItems(more), NEW q \in CallItems(more), p < q
      PROVE  w[p] < w[q]
  <2>1. p \in CallItems(output)
    BY <1>1, <1>2, <1>3, <1>4, <1>9
  <2>2. CASE q = l + 1
    BY <1>5, <1>6, <2>1, <2>2
  <2>3. CASE q \in CallItems(output)
    <3>1. owner[p] < owner[q]
      BY <1>9, <2>1, <2>3 DEF Owns
    <3> QED BY <1>5, <2>1, <2>3, <3>1
  <2> QED BY <1>3, <2>2, <2>3
<1>10. ASSUME NEW n \in Owed(fs), n < m + 1 PROVE \E p \in CallItems(more) : w[p] = n
  <2>1. CASE n = m
    BY <1>3, <1>5, <2>1
  <2>2. CASE n # m
    <3>1. n < m
      BY <1>10, <2>2
    <3>2. PICK p \in CallItems(output) : owner[p] = n
      BY <3>1 DEF Owns
    <3> QED BY <1>3, <1>5, <3>2
  <2> QED BY <2>1, <2>2
<1>11. Owns(w, more, fs, m + 1)
  BY <1>7, <1>8, <1>9, <1>10 DEF Owns
<1> QED BY <1>11 DEF more

(* close_tool_calls, call by call.                                         *)
LEMMA CloseRun ==
  ASSUME NEW s, IsSeq(s.calls)
  PROVE  \E closed :
           /\ closed[0] = [s EXCEPT !.calls = <<>>] /\ CloseToolCalls(s) = closed[Len(s.calls)]
           /\ \A m \in Nat : m + 1 <= Len(s.calls) =>
                closed[m + 1] = IF s.calls[m + 1].announced
                                THEN CloseCall(closed[m], s.calls[m + 1]) ELSE closed[m]
<1> DEFINE cs == s.calls
           first == [s EXCEPT !.calls = <<>>]
           Step(g, n) == IF cs[n].announced THEN CloseCall(g[n - 1], cs[n]) ELSE g[n - 1]
           IsRun(g, m) == g = [n \in 0..m |-> IF n = 0 THEN first ELSE Step(g, n)]
           closed == CHOOSE g : IsRun(g, Len(cs))
           E == {m \in Nat : \E g : IsRun(g, m)}
<1>1. 0 \in E
  <2> DEFINE g == [n \in 0..0 |-> first]
  <2>1. g = [n \in 0..0 |-> IF n = 0 THEN first ELSE Step(g, n)]
    <3> HIDE DEF first, Step
    <3> QED OBVIOUS
  <2>2. IsRun(g, 0)
    BY <2>1
  <2> HIDE DEF g, IsRun
  <2> QED BY <2>2
<1>2. ASSUME NEW m \in Nat, m \in E PROVE m + 1 \in E
  <2>1. PICK g : IsRun(g, m)
    BY <1>2
  <2> HIDE DEF first, cs
  <2> DEFINE w == [n \in 0..(m + 1) |-> IF n <= m THEN g[n] ELSE Step(g, m + 1)]
  <2>2. \A n \in 0..(m + 1) : w[n] = IF n = 0 THEN first ELSE Step(w, n)
    <3>0. w[0] = first
      <4> HIDE DEF Step
      <4> QED BY <2>1
    <3> SUFFICES ASSUME NEW n \in 0..(m + 1), n # 0 PROVE w[n] = Step(w, n)
      <4> HIDE DEF Step, w
      <4> QED BY <3>0
    <3>1. w[n - 1] = g[n - 1]
      OBVIOUS
    <3>2. Step(w, n) = Step(g, n)
      BY <3>1
    <3>3. w[n] = Step(g, n)
      <4> HIDE DEF Step
      <4> QED BY <2>1
    <3> QED BY <3>2, <3>3
  <2>3. w = [n \in 0..(m + 1) |-> IF n = 0 THEN first ELSE Step(w, n)]
    <3> HIDE DEF Step
    <3> QED BY <2>2
  <2>4. IsRun(w, m + 1) /\ m + 1 \in Nat
    BY <2>3
  <2> HIDE DEF w, IsRun
  <2> QED BY <2>4
<1>3. Len(cs) \in Nat
  BY SeqFacts
<1>4. Len(cs) \in E
  <2> HIDE DEF E
  <2>1. Nat \subseteq E
    BY <1>1, <1>2, SetInduction
  <2> QED BY <1>3, <2>1
<1>5. IsRun(closed, Len(cs))
  BY <1>4
<1>6. CloseToolCalls(s) = closed[Len(cs)]
  BY DEF CloseToolCalls
<1> HIDE DEF closed, first, cs
<1>7. closed[0] = first
  <2> HIDE DEF Step
  <2> QED BY <1>3, <1>5
<1>8. ASSUME NEW m \in Nat, m + 1 <= Len(cs)
      PROVE  closed[m + 1] = IF cs[m + 1].announced THEN CloseCall(closed[m], cs[m + 1])
                             ELSE closed[m]
  <2>1. closed[m + 1] = Step(closed, m + 1) /\ (m + 1) - 1 = m
    <3> HIDE DEF Step
    <3> QED BY <1>3, <1>5, <1>8
  <2> QED BY <2>1
<1> QED BY <1>6, <1>7, <1>8 DEF first, cs

(* So the output has the calls that are owed.                              *)
LEMMA CloseDelivers ==
  ASSUME NEW s, NEW fs, Gathered(s, fs)
  PROVE  IsState(CloseToolCalls(s)) /\ Delivers(CloseToolCalls(s).output, fs)
<1> DEFINE cs == s.calls
<1>1. /\ IsState(s) /\ IsSeq(cs) /\ IsSeq(s.output) /\ fs \in Seq(CallDeltas)
      /\ Gathering(cs, fs) /\ TextsOnly(s.output) /\ Len(cs) \in Nat
  BY SeqFacts DEF Gathered
<1>2. PICK closed :
        /\ closed[0] = [s EXCEPT !.calls = <<>>] /\ CloseToolCalls(s) = closed[Len(cs)]
        /\ \A m \in Nat : m + 1 <= Len(cs) =>
             closed[m + 1] = IF cs[m + 1].announced
                             THEN CloseCall(closed[m], cs[m + 1]) ELSE closed[m]
  BY <1>1, CloseRun
<1>3. Owed(fs) \subseteq Nat
  <2>1. \A p \in 1..Len(fs) : fs[p] \in CallDeltas
    BY <1>1
  <2>2. \A p \in 1..Len(fs) : fs[p].index \in Nat
    BY <2>1 DEF CallDeltas
  <2> QED BY <2>2 DEF Owed
<1> DEFINE Partial(m) == /\ IsState(closed[m]) /\ IsSeq(closed[m].output)
                       /\ \E owner : Owns(owner, closed[m].output, fs, m)
           S == {m \in Nat : m <= Len(cs) => Partial(m)}
<1>4. 0 \in S
  <2>1. IsState(closed[0]) /\ closed[0].output = s.output
    BY <1>1, <1>2 DEF IsState, StateFields
  <2>2. CallItems(s.output) = {}
    BY <1>1 DEF CallItems, TextsOnly
  <2>3. \A n \in Owed(fs) : ~(n < 0)
    BY <1>3
  <2> DEFINE owner == [p \in {} |-> 0]
  <2>4. owner \in [{} -> Nat]
    OBVIOUS
  <2> HIDE DEF owner
  <2>5. Owns(owner, s.output, fs, 0)
    BY <2>2, <2>3, <2>4 DEF Owns
  <2> QED BY <1>1, <2>1, <2>5
<1>5. ASSUME NEW m \in Nat, m \in S PROVE m + 1 \in S
  <2> SUFFICES ASSUME m + 1 <= Len(cs) PROVE Partial(m + 1)
    OBVIOUS
  <2>1. IsState(closed[m]) /\ IsSeq(closed[m].output)
    BY <1>1, <1>5
  <2>2. PICK owner : Owns(owner, closed[m].output, fs, m)
    BY <1>1, <1>5
  <2> DEFINE c == cs[m + 1]
             item == CallItem(c, CallPayload(c))
  <2>3. Gathers(c, FirstId(fs, m), FirstName(fs, m), ArgumentsIn(fs, m))
    <3>1. CallAt(cs, m) = c
      BY <1>1 DEF CallAt
    <3> HIDE DEF c, cs
    <3> QED BY <1>1, <3>1 DEF Gathering
  <2>4. closed[m + 1] = IF c.announced THEN CloseCall(closed[m], c) ELSE closed[m]
    BY <1>2
  <2> HIDE DEF c
  <2>5. /\ c.announced <=> m \in Owed(fs)
        /\ c.announced => Delivered(fs, m, item)
        /\ item.type \notin TextKinds
    BY <1>1, <2>3, CallDelivered
  <2>6. CASE c.announced
    <3>1. IsState(closed[m + 1]) /\ closed[m + 1].output = Append(closed[m].output, item)
      BY <2>1, <2>4, <2>6, CloseAppends
    <3> HIDE DEF item
    <3>2. \E w : Owns(w, Append(closed[m].output, item), fs, m + 1)
      BY <1>3, <2>1, <2>2, <2>5, <2>6, OwnsNext
    <3>3. IsSeq(Append(closed[m].output, item))
      BY <2>1, AppendFacts
    <3> QED BY <3>1, <3>2, <3>3
  <2>7. CASE ~c.announced
    <3>1. closed[m + 1] = closed[m]
      BY <2>4, <2>7
    <3>2. \A n \in Owed(fs) : n < m + 1 => n < m
      BY <1>3, <2>5, <2>7
    <3>3. \A p \in CallItems(closed[m].output) : owner[p] < m + 1
      BY <2>2 DEF Owns
    <3>4. Owns(owner, closed[m].output, fs, m + 1)
      BY <2>2, <3>2, <3>3 DEF Owns
    <3> QED BY <2>1, <3>1, <3>4
  <2> QED BY <2>6, <2>7
<1>6. Partial(Len(cs))
  <2>1. Nat \subseteq S
    <3> HIDE DEF S
    <3> QED BY <1>4, <1>5, SetInduction
  <2>2. Len(cs) \in S
    BY <1>1, <2>1
  <2> QED BY <1>1, <2>2
<1> DEFINE output == closed[Len(cs)].output
<1>7. PICK owner : Owns(owner, output, fs, Len(cs))
  BY <1>6
<1>8. \A n \in Owed(fs) : n < Len(cs)
  <2> SUFFICES ASSUME NEW n \in Owed(fs), ~(n < Len(cs)) PROVE FALSE
    OBVIOUS
  <2>1. CallAt(cs, n) = DefaultCall /\ n \in Nat
    BY <1>3 DEF CallAt
  <2>2. Gathers(DefaultCall, FirstId(fs, n), FirstName(fs, n), ArgumentsIn(fs, n))
    BY <1>1, <2>1 DEF Gathering
  <2>3. DefaultCall.announced
    BY <1>1, <2>2, CallDelivered
  <2> QED BY <2>3 DEF DefaultCall
<1> HIDE DEF output
<1>9. owner \in [CallItems(output) -> Owed(fs)]
  BY <1>7 DEF Owns
<1>10. Delivers(output, fs)
  BY <1>7, <1>8, <1>9 DEF Delivers, Owns
<1> QED BY <1>2, <1>6, <1>10 DEF output

(* complete.                                                               *)
LEMMA CompleteDelivers ==
  ASSUME NEW s, NEW fs, Gathered(s, fs), s.terminated = FALSE, s.started = TRUE, NEW reason
  PROVE  Delivers(Complete(s, reason).output, fs)
<1> DEFINE a == CloseReasoning(s)
           b == CloseMessage(a)
           c == CloseToolCalls(b)
           status == IF reason = "length" THEN "incomplete" ELSE "completed"
           es == <<Event(status, None, ResponseEnvelope(c, status, c.output))>>
           u == EmitAll(c, es)
           t == [u EXCEPT !.terminated = TRUE, !.finished = TRUE]
<1>1. Complete(s, reason) = t
  BY DEF Complete, Emit
<1>2. Gathered(a, fs)
  BY GatheredClose DEF CloseReasoning, TextKinds
<1> HIDE DEF a
<1>3. Gathered(b, fs)
  BY <1>2, GatheredClose DEF CloseMessage, TextKinds
<1> HIDE DEF b
<1>4. IsState(c) /\ Delivers(c.output, fs)
  BY <1>3, CloseDelivers
<1> HIDE DEF c, es
<1>5. IsState(u) /\ Same(c, u, {"pending", "sequence"})
  BY <1>4, EmitKeeps
<1> HIDE DEF u
<1>6. u.output = c.output /\ t.output = u.output
  BY <1>5 DEF IsState, Same, StateFields
<1> QED BY <1>1, <1>4, <1>6

(* The delta of a chunk.                                                   *)
LEMMA GatheredHandleDelta ==
  ASSUME NEW s, NEW fs, Gathered(s, fs), NEW f, f.calls \in Seq(CallDeltas)
  PROVE  Gathered(HandleDelta(s, f), fs \o f.calls)
<1> DEFINE a == IF f.reasoning = <<>> THEN s ELSE PushReasoning(s, f.reasoning)
           b == IF f.content = <<>> THEN a ELSE PushText(a, f.content)
<1>1. HandleDelta(s, f) = PushToolCalls(b, f.calls)
  BY DEF HandleDelta
<1>2. ASSUME NEW t, Gathered(t, fs), NEW j \in TextKinds, NEW k \in TextKinds, NEW delta
      PROVE  Gathered(AppendText(OpenText(CloseText(t, j), k), k, delta), fs)
  <2>1. Gathered(CloseText(t, j), fs)
    BY <1>2, GatheredClose
  <2>2. Gathered(OpenText(CloseText(t, j), k), fs)
    BY <2>1, GatheredSay
  <2> QED BY <2>2, GatheredSay
<1>3. "reasoning" \in TextKinds /\ "message" \in TextKinds
  BY DEF TextKinds
<1>4. Gathered(a, fs)
  <2>1. Gathered(PushReasoning(s, f.reasoning), fs)
    BY <1>2, <1>3 DEF PushReasoning, CloseMessage
  <2> QED BY <2>1
<1> HIDE DEF a
<1>5. Gathered(b, fs)
  <2>1. Gathered(PushText(a, f.content), fs)
    BY <1>2, <1>3, <1>4 DEF PushText, CloseReasoning
  <2> QED BY <1>4, <2>1
<1> HIDE DEF b
<1> QED BY <1>1, <1>5, GatheredPushToolCalls

(* Nothing but the identity of the response changes when it starts.        *)
LEMMA GatheredStart ==
  ASSUME NEW s, NEW fs, Gathered(s, fs), NEW f
  PROVE  Gathered(Start(s, f), fs)
<1>1. CASE s.started
  BY <1>1 DEF Start
<1>2. CASE ~s.started
  <2> DEFINE stem == SanitizeIdentifier(IF f.id # <<>> THEN f.id ELSE RequestKey)
             named == [s EXCEPT !.started = TRUE, !.stem = stem, !.responseId = <<"resp", stem>>,
                                !.model = IF f.model # None THEN f.model ELSE @]
             response == ResponseEnvelope(named, "in_progress", <<>>)
             es == <<Event("created", None, response), Event("in_progress", None, response)>>
             t == EmitAll(named, es)
  <2>1. Start(s, f) = t
    BY <1>2 DEF Start
  <2> HIDE DEF stem
  <2>2. IsState(s)
    BY DEF Gathered
  <2>3. IsState(named) /\ named.calls = s.calls /\ named.output = s.output
    BY <2>2 DEF IsState, StateFields
  <2> HIDE DEF named, es
  <2>4. IsState(t) /\ Same(named, t, {"pending", "sequence"})
    BY <2>3, EmitKeeps
  <2> HIDE DEF t
  <2>5. t.calls = s.calls /\ t.output = s.output
    BY <2>3, <2>4 DEF Same, StateFields
  <2>6. Gathered(t, fs)
    BY <2>4, <2>5 DEF Gathered
  <2> QED BY <2>1, <2>6
<1> QED BY <1>1, <1>2

(* What a frame leaves: a response that goes on with all its calls were    *)
(* given, one that completed with the calls it owes, or one that failed.   *)
Served(o, s, fs) ==
  \/ Gathered(s, fs) /\ s.terminated = FALSE
  \/ s.terminated = TRUE /\ (Delivers(s.output, fs) \/ Failed(o, s))

(* handle_frame.                                                           *)
LEMMA FrameServed ==
  ASSUME NEW o, NEW s, NEW h, Going(o, s, h), NEW fs, Gathered(s, fs), NEW f \in Frames,
         NEW g, Hears(g, h, f)
  PROVE  Served(o, HandleFrame(s, f), fs \o CallsBy(f))
<1> DEFINE gs == fs \o CallsBy(f)
<1>1. IsState(s) /\ s.terminated = FALSE /\ s.started \in BOOLEAN /\ fs \in Seq(CallDeltas)
  BY DEF Going, Work, Base, Running, Told, Gathered
<1>2. \A u, d : Over(o, u, d) => IsState(u) /\ u.terminated = TRUE /\ u.finished = TRUE
  BY DEF Over, Told
<1>3. CASE f.kind = "chunk"
  <2> DEFINE started == Start(s, f)
             usage == IF f.usage = None THEN started.usage ELSE MapUsage(f.usage)
             counted == [started EXCEPT !.usage = usage]
             said == HandleDelta(counted, f)
  <2>1. /\ f.calls \in Seq(CallDeltas) /\ f.id \in Seq(Chars)
        /\ f.reasoning \in Seq(Words) /\ f.content \in Seq(Words)
    BY <1>3, ConstantsAssumption DEF WellFormed
  <2>2. HandleFrame(s, f) = IF ~f.choice THEN counted
                            ELSE IF f.finish = None THEN said ELSE Complete(said, f.finish)
    BY <1>3 DEF HandleFrame, HandleChunk
  <2>3. Gathered(started, fs) /\ Steady(o, started, h)
    BY <2>1, GatheredStart, StartRuns DEF Going
  <2> HIDE DEF started, usage
  <2>4. Steady(o, counted, h)
    BY <2>3, SteadyUsage
  <2>5. Gathered(counted, fs)
    <3>1. IsState(started)
      BY <2>3 DEF Gathered
    <3>2. IsState(counted) /\ counted.calls = started.calls /\ counted.output = started.output
      BY <3>1 DEF IsState, StateFields
    <3> HIDE DEF counted
    <3> QED BY <2>3, <3>2 DEF Gathered
  <2> HIDE DEF counted
  <2>6. CASE f.choice
    <3>1. HasDelta(f) /\ gs = fs \o f.calls
      BY <1>3, <2>6 DEF HasDelta, CallsBy
    <3>2. Steady(o, said, g)
      BY <2>1, <2>4, <3>1, SteadyHandleDelta
    <3>3. Gathered(said, gs)
      BY <2>1, <2>5, <3>1, GatheredHandleDelta
    <3> HIDE DEF said, gs
    <3>4. said.terminated = FALSE /\ said.started = TRUE
      BY <3>2 DEF Steady, Work, Base, Running
    <3>5. Over(o, Complete(said, f.finish), g)
      BY <3>2, CompleteEnds
    <3>6. Delivers(Complete(said, f.finish).output, gs)
      BY <3>3, <3>4, CompleteDelivers
    <3>7. Served(o, said, gs) /\ Served(o, Complete(said, f.finish), gs)
      BY <1>2, <3>3, <3>4, <3>5, <3>6 DEF Served
    <3> QED BY <2>2, <2>6, <3>7 DEF gs
  <2>7. CASE ~f.choice
    <3>1. gs = fs
      BY <1>1, <2>7 DEF HasDelta, CallsBy
    <3>2. counted.terminated = FALSE
      BY <2>4 DEF Steady, Work, Base, Running
    <3> QED BY <2>2, <2>5, <2>7, <3>1, <3>2 DEF Served
  <2> QED BY <2>6, <2>7
<1>4. CASE f.kind # "chunk"
  <2>1. gs = fs
    BY <1>1, <1>4 DEF HasDelta, CallsBy
  <2>2. ASSUME NEW message PROVE Over(o, Fail(s, message), h) /\ Failed(o, Fail(s, message))
    BY FailEnds DEF Going
  <2>3. \A message : Served(o, Fail(s, message), fs)
    BY <1>2, <2>2 DEF Served
  <2>4. CASE f.kind \in {"error", "malformed"}
    BY <2>1, <2>3, <2>4 DEF HandleFrame
  <2>5. CASE f.kind = "done"
    <3> DEFINE t == IF s.started THEN Complete(s, None) ELSE Fail(s, OwnMessage)
    <3>1. Over(o, t, h) /\ Served(o, t, fs)
      <4>1. CASE s.started
        <5>1. Steady(o, s, h)
          BY <1>1, <4>1 DEF Going, Steady
        <5>2. Over(o, Complete(s, None), h)
          BY <5>1, CompleteEnds
        <5>3. Delivers(Complete(s, None).output, fs)
          BY <1>1, <4>1, CompleteDelivers
        <5> QED BY <1>2, <4>1, <5>2, <5>3 DEF Served
      <4>2. CASE ~s.started
        BY <2>2, <2>3, <4>2
      <4> QED BY <4>1, <4>2
    <3>2. HandleFrame(s, f) = [t EXCEPT !.finished = TRUE]
      BY <2>5 DEF HandleFrame
    <3> HIDE DEF t
    <3>3. IsState(t) /\ t.finished = TRUE
      BY <1>2, <3>1
    <3>4. [t EXCEPT !.finished = TRUE] = t
      BY <3>3 DEF IsState, StateFields
    <3> QED BY <2>1, <3>1, <3>2, <3>4
  <2>6. CASE f.kind \notin {"error", "malformed", "done"}
    BY <1>1, <1>4, <2>1, <2>6 DEF HandleFrame, Served
  <2> QED BY <2>4, <2>5, <2>6
<1> QED BY <1>3, <1>4
-----------------------------------------------------------------------------
(* The inductive invariant of the calls, beside that of the stream.        *)
CallInv == Served(sent, state, CallsIn(taken))

(* No call was given anything at first.                                    *)
LEMMA InitCalls == Init => CallInv
<1> SUFFICES ASSUME Init PROVE CallInv
  OBVIOUS
<1>1. /\ IsState(state) /\ state.calls = <<>> /\ state.terminated = FALSE
      /\ taken = <<>> /\ state.output = <<>>
  BY DEF Init, IsState, StateFields
<1>2. IsSeq(<<>>) /\ Len(<<>>) = 0 /\ \A p \in 1..0 : FALSE
  BY EmptyFacts
<1>3. FlattenSeq(<<>>) = <<>>
  BY <1>2 DEF FlattenSeq
<1>4. CallsIn(<<>>) = <<>>
  <2>1. [i \in 1..Len(<<>>) |-> CallsBy(<<>>[i])] = <<>>
    BY <1>2
  <2> QED BY <1>3, <2>1 DEF CallsIn
<1>5. ASSUME NEW n PROVE ArgumentsIn(<<>>, n) = <<>>
  <2>1. [i \in 1..Len(<<>>) |-> IF <<>>[i].index = n THEN <<>>[i].arguments ELSE <<>>] = <<>>
    BY <1>2
  <2> QED BY <1>3, <2>1 DEF ArgumentsIn
<1>6. \A n : FirstId(<<>>, n) = <<>> /\ FirstName(<<>>, n) = <<>>
  BY <1>2 DEF FirstId, FirstName, WithId, WithName
<1>7. Gathers(DefaultCall, <<>>, <<>>, <<>>)
  BY <1>2 DEF Gathers, DefaultCall, CallFields
<1>8. Gathering(<<>>, <<>>)
  BY <1>2, <1>5, <1>6, <1>7 DEF Gathering, CallAt
<1>9. TextsOnly(<<>>)
  BY <1>2 DEF TextsOnly
<1>10. <<>> \in Seq(CallDeltas)
  OBVIOUS
<1> QED BY <1>1, <1>2, <1>4, <1>8, <1>9, <1>10 DEF CallInv, Served, Gathered

(* Every step keeps it.                                                    *)
LEMMA NextCalls ==
  ASSUME IInv, CallInv, [Next]_vars
  PROVE  CallInv'
<1> DEFINE fs == CallsIn(taken)
<1>1. TurnInv /\ IsSeq(taken) /\ Told(sent, state)
  BY TurnFacts DEF IInv
<1>2. ASSUME NEW o, NEW t, IsState(t), taken' = taken, sent' = o, state' = t,
             t.calls = state.calls, t.output = state.output, t.terminated = state.terminated,
             o \o t.pending = sent \o state.pending
      PROVE  CallInv'
  <2>1. Served(sent, state, fs)
    BY DEF CallInv
  <2> HIDE DEF fs
  <2>2. Gathered(state, fs) => Gathered(t, fs)
    BY <1>2 DEF Gathered
  <2>3. Failed(sent, state) => Failed(o, t)
    BY <1>2 DEF Failed
  <2>4. Served(o, t, fs)
    BY <1>2, <2>1, <2>2, <2>3 DEF Served
  <2> QED BY <1>2, <2>4 DEF CallInv, fs
<1>3. ASSUME Yield PROVE CallInv'
  <2> DEFINE d == Append(sent, Head(state.pending))
             t == [state EXCEPT !.pending = Tail(@)]
  <2>1. Told(d, t) /\ Same(state, t, {"pending"}) /\ d \o t.pending = sent \o state.pending
    BY <1>1, <1>3, Deliver DEF Yield
  <2>2. sent' = d /\ state' = t /\ taken' = taken
    BY <1>3 DEF Yield
  <2> HIDE DEF d, t
  <2>3. /\ IsState(t) /\ t.calls = state.calls /\ t.output = state.output
        /\ t.terminated = state.terminated
    BY <2>1 DEF Told, Same, StateFields
  <2> QED BY <1>2, <2>1, <2>2, <2>3
<1>4. ASSUME NEW c \in Chunks, Receive(c) PROVE CallInv'
  <2> DEFINE t == [state EXCEPT !.buffer = @ \o c]
  <2>1. sent' = sent /\ state' = t /\ taken' = taken
    BY <1>4 DEF Receive
  <2>2. IsState(state)
    BY <1>1 DEF Told
  <2>3. /\ IsState(t) /\ t.calls = state.calls /\ t.output = state.output
        /\ t.terminated = state.terminated /\ t.pending = state.pending
    BY <2>2 DEF IsState, StateFields
  <2> HIDE DEF t
  <2> QED BY <1>2, <2>1, <2>3
<1>5. ASSUME \/ End \/ Await \/ Drained \/ Cancel \/ Stopped \/ UNCHANGED vars PROVE CallInv'
  <2>1. sent' = sent /\ state' = state /\ taken' = taken
    BY <1>5 DEF End, Await, Drained, Cancel, Stopped, vars
  <2> QED BY <2>1 DEF CallInv
<1>6. ASSUME \/ \E c \in Chunks : Overflow(c)
             \/ BodyError \/ BodyEnd
      PROVE  CallInv'
  <2> DEFINE t == Fail(state, OwnMessage)
  <2>1. Going(sent, state, Said)
    BY <1>6 DEF Overflow, BodyError, BodyEnd, IInv, AwaitInv
  <2>2. Over(sent, t, Said) /\ Failed(sent, t)
    BY <2>1, FailEnds DEF Going
  <2>3. /\ sent' = sent /\ taken' = taken /\ (state' = t \/ state' = [t EXCEPT !.finished = TRUE])
    BY <1>6 DEF Overflow, BodyError, BodyEnd
  <2> HIDE DEF t
  <2>4. IsState(t) /\ t.finished = TRUE /\ t.terminated = TRUE
    BY <2>2 DEF Over, Told
  <2>5. [t EXCEPT !.finished = TRUE] = t
    BY <2>4 DEF IsState, StateFields
  <2> QED BY <2>2, <2>3, <2>4, <2>5 DEF CallInv, Served
<1>7. ASSUME HandleNext PROVE CallInv'
  <2>1. PICK rest \in Seq(Frames), frame \in Frames :
          /\ Going(sent, [state EXCEPT !.buffer = rest], Said) /\ HearsFrom(Said, taken, frame)
          /\ state' = HandleFrame([state EXCEPT !.buffer = rest], frame)
          /\ taken' = Append(taken, frame) /\ sent' = sent /\ pc' = pc /\ pc = "drain"
    BY <1>7, NextFrame
  <2> DEFINE g == [k \in TextKinds |-> SaidIn(Append(taken, frame), k)]
             t == [state EXCEPT !.buffer = rest]
  <2>2. Hears(g, Said, frame)
    BY <2>1 DEF HearsFrom
  <2> HIDE DEF g
  <2>3. IsState(state) /\ state.terminated = FALSE
    BY <1>1, <1>7 DEF Told, HandleNext, FrameReady, TurnInv, Going, Work, Base, Running, Over
  <2>4. Gathered(state, fs)
    BY <2>3 DEF CallInv, Served
  <2>5. IsState(t) /\ t.calls = state.calls /\ t.output = state.output
    BY <2>3 DEF IsState, StateFields
  <2> HIDE DEF t, fs
  <2>6. Gathered(t, fs)
    BY <2>4, <2>5 DEF Gathered
  <2>7. Served(sent, HandleFrame(t, frame), fs \o CallsBy(frame))
    BY <2>1, <2>2, <2>6, FrameServed DEF t
  <2>8. IsSeq(CallsBy(frame))
    <3>1. frame.kind = "chunk" => frame.calls \in Seq(CallDeltas)
      BY ConstantsAssumption DEF WellFormed
    <3> QED BY <3>1, EmptyFacts DEF CallsBy, HasDelta, IsSeq
  <2>9. CallsIn(taken') = fs \o CallsBy(frame)
    BY <1>1, <2>1, <2>8, CallsAppend DEF fs
  <2> QED BY <2>1, <2>7, <2>9 DEF CallInv, t
<1> QED BY <1>3, <1>4, <1>5, <1>6, <1>7 DEF Next

(* Every tool call that was given an identifier and a name, in one fragment *)
(* or in several and however the fragments of several calls interleave, is *)
(* in the response that completes exactly once, with all of its arguments  *)
(* and in the upstream's order, and nothing else is there as a call.       *)
THEOREM StreamCallsDelivered == Spec => []CallsDelivered
<1>1. IInv /\ CallInv => CallsDelivered
  <2> SUFFICES ASSUME IInv, CallInv, Succeeded
               PROVE  Delivers(Last(Out).body.output, CallsIn(taken))
    BY DEF CallsDelivered
  <2>1. IsSeq(Out) /\ Len(Out) \in Nat /\ TurnInv
    BY OutFacts DEF IInv
  <2>2. Len(Out) \in 1..Len(Out) /\ Out[Len(Out)].type \in {"completed", "incomplete"}
    BY <2>1, SeqFacts DEF Succeeded, Last
  <2>3. IsTerminal(Out[Len(Out)]) /\ Out[Len(Out)].type # "error"
    BY <2>2 DEF IsTerminal, TerminalTypes
  <2>4. ~Going(sent, state, Said)
    BY <2>2, <2>3 DEF Going, Work, Base, Running, Out
  <2>5. Over(sent, state, Said)
    BY <2>1, <2>4 DEF TurnInv
  <2>6. state.terminated = TRUE /\ Last(Out).body.output = state.output
    BY <2>3, <2>5 DEF Over, Final, Out, Last
  <2>7. ~Failed(sent, state)
    BY <2>3 DEF Failed, Out
  <2> QED BY <2>6, <2>7 DEF CallInv, Served
<1>2. Spec => []CallInv
  <2>1. IInv /\ CallInv /\ [Next]_vars => CallInv'
    BY NextCalls
  <2> QED BY InitCalls, Invariance, <2>1, PTL DEF Spec
<1> QED BY Invariance, <1>1, <1>2, PTL
=============================================================================
