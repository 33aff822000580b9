--------------------------- MODULE GatewayProofs ----------------------------
(***************************************************************************)
(* Proofs about the web gateway: for any number of browsers and of events, *)
(* no answer is dropped, answers are mixed up only by engines that use an  *)
(* id at the same time, and only users end the process.                    *)
(***************************************************************************)
EXTENDS Gateway, FiniteSetTheorems, FunctionTheorems, SequenceTheorems, TLAPS

-----------------------------------------------------------------------------
(***************************************************************************)
(* Counting the elements of a sequence that are in a set G.                *)
(***************************************************************************)
Hits(s, G) == {i \in DOMAIN s : s[i] \in G}

Number(s, G) == Cardinality(Hits(s, G))

One(x, G) == IF x \in G THEN 1 ELSE 0

LEMMA NumberTyped ==
  ASSUME NEW S, NEW s \in Seq(S), NEW G
  PROVE  IsFiniteSet(Hits(s, G)) /\ Number(s, G) \in Nat
<1>1. Len(s) \in Nat /\ Hits(s, G) \in SUBSET (1 .. Len(s))
  BY DEF Hits
<1>2. IsFiniteSet(1 .. Len(s))
  BY <1>1, FS_Interval
<1>3. IsFiniteSet(Hits(s, G))
  BY <1>1, <1>2, FS_Subset
<1> QED
  BY <1>3, FS_CardinalityType DEF Number

LEMMA NumberConcat ==
  ASSUME NEW S, NEW s \in Seq(S), NEW t \in Seq(S), NEW G
  PROVE  Number(s \o t, G) = Number(s, G) + Number(t, G)
<1> DEFINE n == Len(s)
           H == Hits(t, G)
           T == {n + i : i \in H}
           f == [i \in H |-> n + i]
<1>1. /\ n \in Nat /\ Len(t) \in Nat
      /\ DOMAIN s = 1 .. n /\ DOMAIN t = 1 .. Len(t)
      /\ DOMAIN (s \o t) = 1 .. n + Len(t)
      /\ \A i \in 1 .. n : (s \o t)[i] = s[i]
      /\ \A i \in 1 .. Len(t) : (s \o t)[n + i] = t[i]
  OBVIOUS
<1>2. H \subseteq 1 .. Len(t) /\ Hits(s, G) \subseteq 1 .. n
  BY <1>1 DEF Hits
<1>3. Hits(s \o t, G) = Hits(s, G) \cup T
  <2>1. ASSUME NEW i \in Hits(s \o t, G)
        PROVE  i \in Hits(s, G) \cup T
    <3>1. i \in 1 .. n + Len(t) /\ (s \o t)[i] \in G
      BY <1>1, <2>1 DEF Hits
    <3>2. CASE i \in 1 .. n
      BY <1>1, <3>1, <3>2 DEF Hits
    <3>3. CASE i \notin 1 .. n
      <4>1. PICK j \in 1 .. Len(t) : i = n + j
        <5>1. i - n \in 1 .. Len(t) /\ i = n + (i - n)
          BY <1>1, <3>1, <3>3
        <5> QED
          BY <5>1
      <4>2. j \in H
        BY <1>1, <3>1, <4>1 DEF Hits
      <4> QED
        BY <4>1, <4>2
    <3> QED
      BY <3>2, <3>3
  <2>2. ASSUME NEW i \in Hits(s, G)
        PROVE  i \in Hits(s \o t, G)
    BY <1>1 DEF Hits
  <2>3. ASSUME NEW j \in H
        PROVE  n + j \in Hits(s \o t, G)
    BY <1>1 DEF Hits
  <2> QED
    BY <2>1, <2>2, <2>3
<1>4. Hits(s, G) \cap T = {}
  BY <1>1, <1>2
<1>5. f \in Bijection(H, T)
  <2>1. f \in [H -> T] /\ \A y \in T : \E x \in H : f[x] = y
    OBVIOUS
  <2>2. \A x, y \in H : f[x] = f[y] => x = y
    BY <1>1, <1>2
  <2> QED
    BY <2>1, <2>2, Fun_IsBij
<1>6. IsFiniteSet(T) /\ Cardinality(T) = Number(t, G)
  <2>1. IsFiniteSet(H) /\ ExistsBijection(H, T)
    BY <1>5, NumberTyped DEF ExistsBijection
  <2> QED
    BY <2>1, FS_Bijection DEF Number
<1>7. IsFiniteSet(Hits(s, G)) /\ Number(s, G) \in Nat /\ Number(t, G) \in Nat
  BY NumberTyped
<1>8. Cardinality(Hits(s, G) \cup T) = Number(s, G) + Number(t, G)
  <2> HIDE DEF T
  <2>1. Cardinality(Hits(s, G) \cup T) =
          Cardinality(Hits(s, G)) + Cardinality(T) - Cardinality({})
    BY <1>4, <1>6, <1>7, FS_Union
  <2> QED
    BY <1>6, <1>7, <2>1, FS_EmptySet DEF Number
<1> QED
  BY <1>3, <1>8 DEF Number

LEMMA NumberEmpty ==
  ASSUME NEW G
  PROVE  Number(<<>>, G) = 0
<1>1. Hits(<<>>, G) = {}
  BY DEF Hits
<1> QED
  BY <1>1, FS_EmptySet DEF Number

LEMMA NumberOne ==
  ASSUME NEW x, NEW G
  PROVE  Number(<<x>>, G) = One(x, G)
<1>1. CASE x \in G
  <2>1. Hits(<<x>>, G) = {1}
    BY <1>1 DEF Hits
  <2> QED
    BY <1>1, <2>1, FS_Singleton DEF Number, One
<1>2. CASE x \notin G
  <2>1. Hits(<<x>>, G) = {}
    BY <1>2 DEF Hits
  <2> QED
    BY <1>2, <2>1, FS_EmptySet DEF Number, One
<1> QED
  BY <1>1, <1>2

LEMMA NumberTail ==
  ASSUME NEW S, NEW s \in Seq(S), s # <<>>, NEW G
  PROVE  Number(s, G) = One(Head(s), G) + Number(Tail(s), G)
<1>1. s = <<Head(s)>> \o Tail(s) /\ <<Head(s)>> \in Seq(S) /\ Tail(s) \in Seq(S)
  OBVIOUS
<1>2. Number(<<Head(s)>> \o Tail(s), G) = Number(<<Head(s)>>, G) + Number(Tail(s), G)
  BY <1>1, NumberConcat
<1> QED
  BY <1>1, <1>2, NumberOne

LEMMA NumberSplit ==
  ASSUME NEW S, NEW s \in Seq(S), NEW k \in 0 .. Len(s), NEW G
  PROVE  /\ SubSeq(s, 1, k) \in Seq(S) /\ SubSeq(s, k + 1, Len(s)) \in Seq(S)
         /\ Number(s, G) = Number(SubSeq(s, 1, k), G) + Number(SubSeq(s, k + 1, Len(s)), G)
<1>1. /\ Len(s) \in Nat /\ k \in Nat
      /\ \A i \in 1 .. Len(s) : s[i] \in S
  OBVIOUS
<1>2. SubSeq(s, 1, k) \in Seq(S) /\ SubSeq(s, k + 1, Len(s)) \in Seq(S)
  BY <1>1
<1>3. SubSeq(s, 1, k) \o SubSeq(s, k + 1, Len(s)) = s
  <2>1. 1 \in 1 .. Len(s) + 1 /\ k \in 1 - 1 .. Len(s) /\ Len(s) \in k .. Len(s)
    BY <1>1
  <2>2. SubSeq(s, 1, k) \o SubSeq(s, k + 1, Len(s)) = SubSeq(s, 1, Len(s))
    BY <2>1, ConcatAdjacentSubSeq
  <2> QED
    BY <2>2, SubSeqFull
<1>4. Number(SubSeq(s, 1, k) \o SubSeq(s, k + 1, Len(s)), G)
        = Number(SubSeq(s, 1, k), G) + Number(SubSeq(s, k + 1, Len(s)), G)
  BY <1>2, NumberConcat
<1> QED
  BY <1>2, <1>3, <1>4

LEMMA NumberRemove ==
  ASSUME NEW S, NEW s \in Seq(S), NEW i \in DOMAIN s, NEW G
  PROVE  /\ RemoveAt(s, i) \in Seq(S)
         /\ Number(s, G) = One(s[i], G) + Number(RemoveAt(s, i), G)
<1> DEFINE a == SubSeq(s, 1, i - 1)
           b == SubSeq(s, i, Len(s))
           c == SubSeq(s, i + 1, Len(s))
<1>1. Len(s) \in Nat /\ i \in 1 .. Len(s) /\ s[i] \in S
  OBVIOUS
<1>2. i - 1 \in 0 .. Len(s) /\ (i - 1) + 1 = i /\ i \in 0 .. Len(s)
  BY <1>1
<1>3. a \in Seq(S) /\ b \in Seq(S) /\ Number(s, G) = Number(a, G) + Number(b, G)
  BY <1>2, NumberSplit
<1>4. c \in Seq(S)
  BY <1>2, NumberSplit
<1>5. b = <<s[i]>> \o c
  <2>1. Len(s) \in i .. Len(s)
    BY <1>1
  <2>2. SubSeq(s, i, Len(s)) = <<s[i]>> \o SubSeq(s, i + 1, Len(s))
    BY <1>1, <2>1, SubSeqRecursiveFirst
  <2> QED
    BY <2>2
<1> HIDE DEF a, b, c
<1>6. Number(b, G) = One(s[i], G) + Number(c, G)
  <2>1. <<s[i]>> \in Seq(S)
    BY <1>1
  <2>2. Number(<<s[i]>> \o c, G) = Number(<<s[i]>>, G) + Number(c, G)
    BY <1>4, <2>1, NumberConcat
  <2>3. Number(<<s[i]>>, G) = One(s[i], G)
    BY NumberOne
  <2> QED
    BY <1>5, <2>2, <2>3
<1>7. a \o c \in Seq(S) /\ Number(a \o c, G) = Number(a, G) + Number(c, G)
  BY <1>3, <1>4, NumberConcat
<1>8. Number(a, G) \in Nat /\ Number(c, G) \in Nat /\ One(s[i], G) \in Nat
  BY <1>3, <1>4, NumberTyped DEF One
<1>9. RemoveAt(s, i) = a \o c
  BY DEF RemoveAt, a, c
<1> QED
  BY <1>3, <1>6, <1>7, <1>8, <1>9

-----------------------------------------------------------------------------
\* What pipes p hold of G, and what changes if one pipe does.
Held(p, G) == UNION {{b} \X Hits(p[b], G) : b \in Browsers}

\* From p to q one sequence, s, took the place of another, r.
Exchanged(p, q, r, s, G) ==
  Cardinality(Held(q, G)) + Number(r, G) = Cardinality(Held(p, G)) + Number(s, G)

LEMMA HeldInOne ==
  ASSUME NEW M, NEW p \in [Browsers -> Seq(M)], NEW b \in Browsers,
         NEW s \in Seq(M), NEW q, q = [p EXCEPT ![b] = s],
         NEW G, IsFiniteSet(Held(p, G))
  PROVE  /\ q \in [Browsers -> Seq(M)]
         /\ IsFiniteSet(Held(q, G))
         /\ Exchanged(p, q, p[b], s, G)
<1> DEFINE Others == UNION {{c} \X Hits(p[c], G) : c \in Browsers \ {b}}
<1>1. q \in [Browsers -> Seq(M)] /\ q[b] = s /\ \A c \in Browsers \ {b} : q[c] = p[c]
  OBVIOUS
<1>2. Held(p, G) = Others \cup ({b} \X Hits(p[b], G))
  BY DEF Held
<1>3. Held(q, G) = Others \cup ({b} \X Hits(s, G))
  BY <1>1 DEF Held
<1>4. IsFiniteSet(Others)
  BY <1>2, FS_Subset
<1>5. ASSUME NEW H, IsFiniteSet(H)
      PROVE  /\ IsFiniteSet(Others \cup ({b} \X H))
             /\ Cardinality(Others \cup ({b} \X H)) = Cardinality(Others) + Cardinality(H)
  <2> DEFINE f == [i \in H |-> <<b, i>>]
  <2>1. f \in Bijection(H, {b} \X H)
    <3>1. f \in [H -> {b} \X H] /\ \A y \in {b} \X H : \E x \in H : f[x] = y
      OBVIOUS
    <3>2. \A x, y \in H : f[x] = f[y] => x = y
      OBVIOUS
    <3> QED
      BY <3>1, <3>2, Fun_IsBij
  <2>2. IsFiniteSet({b} \X H) /\ Cardinality({b} \X H) = Cardinality(H)
    <3>1. ExistsBijection(H, {b} \X H)
      BY <2>1 DEF ExistsBijection
    <3> QED
      BY <1>5, <3>1, FS_Bijection
  <2>3. Others \cap ({b} \X H) = {}
    <3>1. \A y \in Others : y[1] # b
      OBVIOUS
    <3>2. \A y \in {b} \X H : y[1] = b
      OBVIOUS
    <3> HIDE DEF Others
    <3> QED
      BY <3>1, <3>2
  <2>4. Cardinality(Others) \in Nat /\ Cardinality(H) \in Nat
    BY <1>4, <1>5, FS_CardinalityType
  <2> HIDE DEF Others
  <2>5. PICK T : T = {b} \X H
    OBVIOUS
  <2>6. /\ IsFiniteSet(Others \cup T)
        /\ Cardinality(Others \cup T) =
             Cardinality(Others) + Cardinality(T) - Cardinality(Others \cap T)
    BY <1>4, <2>2, <2>5, FS_Union
  <2>7. Cardinality(Others \cap T) = 0
    BY <2>3, <2>5, FS_EmptySet
  <2> QED
    BY <2>2, <2>4, <2>5, <2>6, <2>7
<1>6. IsFiniteSet(Hits(p[b], G)) /\ IsFiniteSet(Hits(s, G))
  BY NumberTyped
<1>7. Cardinality(Others) \in Nat /\ Number(p[b], G) \in Nat /\ Number(s, G) \in Nat
  BY <1>4, NumberTyped, FS_CardinalityType
<1> HIDE DEF Others
<1>8. Cardinality(Held(p, G)) = Cardinality(Others) + Number(p[b], G)
  BY <1>2, <1>5, <1>6 DEF Number
<1>9. /\ IsFiniteSet(Held(q, G))
      /\ Cardinality(Held(q, G)) = Cardinality(Others) + Number(s, G)
  BY <1>3, <1>5, <1>6 DEF Number
<1> QED
  BY <1>1, <1>7, <1>8, <1>9 DEF Exchanged

\* Erasing an element keeps the others, in their order.
LEMMA RemoveAtProperties ==
  ASSUME NEW S, NEW q \in Seq(S), NEW i \in 1 .. Len(q)
  PROVE  /\ RemoveAt(q, i) \in Seq(S)
         /\ Len(RemoveAt(q, i)) = Len(q) - 1
         /\ \A j \in 1 .. Len(q) - 1 :
              RemoveAt(q, i)[j] = IF j < i THEN q[j] ELSE q[j + 1]
<1>1. /\ SubSeq(q, 1, i-1) \in Seq(S)
      /\ Len(SubSeq(q, 1, i-1)) = i - 1
      /\ \A j \in 1 .. i-1 : SubSeq(q, 1, i-1)[j] = q[j]
  OBVIOUS
<1>2. /\ SubSeq(q, i+1, Len(q)) \in Seq(S)
      /\ Len(SubSeq(q, i+1, Len(q))) = Len(q) - i
      /\ \A j \in 1 .. Len(q) - i : SubSeq(q, i+1, Len(q))[j] = q[i + j]
  OBVIOUS
<1> DEFINE front == SubSeq(q, 1, i-1)
           back  == SubSeq(q, i+1, Len(q))
<1>3. RemoveAt(q, i) = front \o back
  BY DEF RemoveAt
<1> HIDE DEF front, back
<1>4. front \in Seq(S) /\ back \in Seq(S)
  BY <1>1, <1>2 DEF front, back
<1>5. Len(front) = i - 1 /\ Len(back) = Len(q) - i
  BY <1>1, <1>2 DEF front, back
<1>6. Len(q) \in Nat
  OBVIOUS
<1>7. ASSUME NEW j \in 1 .. Len(q) - 1
      PROVE  (front \o back)[j] = IF j < i THEN q[j] ELSE q[j + 1]
  <2>1. CASE j < i
    <3>1. j \in 1 .. Len(front)
      BY <1>5, <2>1
    <3>2. (front \o back)[j] = front[j]
      BY <1>4, <3>1
    <3>3. front[j] = q[j]
      BY <1>1, <2>1 DEF front
    <3> QED
      BY <2>1, <3>2, <3>3
  <2>2. CASE ~ (j < i)
    <3>1. j - (i - 1) \in 1 .. Len(back)
      BY <1>5, <1>6, <2>2
    <3>2. (front \o back)[j] = back[j - (i - 1)]
      BY <1>4, <1>5, <1>6, <2>2
    <3>3. back[j - (i - 1)] = q[i + (j - (i - 1))]
      BY <1>2, <1>5, <3>1 DEF back
    <3>4. i + (j - (i - 1)) = j + 1
      BY <1>6
    <3> QED
      BY <2>2, <3>2, <3>3, <3>4
  <2> QED
    BY <2>1, <2>2
<1>8. front \o back \in Seq(S) /\ Len(front \o back) = Len(q) - 1
  BY <1>4, <1>5, <1>6
<1> QED
  BY <1>3, <1>7, <1>8

\* Each element of the rest is one of the sequence.
LEMMA RestOfSequence ==
  ASSUME NEW S, NEW s \in Seq(S), NEW i \in DOMAIN s
  PROVE  \A j \in DOMAIN RemoveAt(s, i) : \E k \in DOMAIN s : RemoveAt(s, i)[j] = s[k]
<1>1. Len(s) \in Nat /\ DOMAIN s = 1 .. Len(s) /\ i \in 1 .. Len(s)
  OBVIOUS
<1>2. DOMAIN RemoveAt(s, i) = 1 .. Len(s) - 1
  BY <1>1, RemoveAtProperties
<1>3. \A j \in 1 .. Len(s) - 1 : RemoveAt(s, i)[j] = IF j < i THEN s[j] ELSE s[j + 1]
  BY <1>1, RemoveAtProperties
<1> QED
  BY <1>1, <1>2, <1>3

LEMMA NumberAppend ==
  ASSUME NEW S, NEW s \in Seq(S), NEW x \in S, NEW G
  PROVE  Number(Append(s, x), G) = Number(s, G) + One(x, G)
<1>1. <<x>> \in Seq(S) /\ Append(s, x) = s \o <<x>>
  BY AppendIsConcat
<1>2. Number(s \o <<x>>, G) = Number(s, G) + Number(<<x>>, G)
  BY <1>1, NumberConcat
<1> QED
  BY <1>1, <1>2, NumberOne

LEMMA NumberTwo ==
  ASSUME NEW S, NEW x \in S, NEW y \in S, NEW G
  PROVE  Number(<<x, y>>, G) = One(x, G) + One(y, G)
<1>1. <<x>> \in Seq(S)
  OBVIOUS
<1>2. <<x, y>> = Append(<<x>>, y)
  OBVIOUS
<1>3. Number(Append(<<x>>, y), G) = Number(<<x>>, G) + One(y, G)
  BY <1>1, NumberAppend
<1> QED
  BY <1>2, <1>3, NumberOne

LEMMA NumberThree ==
  ASSUME NEW S, NEW x \in S, NEW y \in S, NEW z \in S, NEW G
  PROVE  Number(<<x, y, z>>, G) = One(x, G) + One(y, G) + One(z, G)
<1>1. <<x, y>> \in Seq(S)
  OBVIOUS
<1>2. <<x, y, z>> = Append(<<x, y>>, z)
  OBVIOUS
<1>3. Number(Append(<<x, y>>, z), G) = Number(<<x, y>>, G) + One(z, G)
  BY <1>1, NumberAppend
<1> QED
  BY <1>2, <1>3, NumberTwo

-----------------------------------------------------------------------------
(***************************************************************************)
(* The inductive invariant.                                                *)
(***************************************************************************)
\* The calls and the answers with id of the engines in A.
OfCall(id, A) == {Entry(a, id) : a \in A}
OfAnswer(id, A) == {Result(id, a) : a \in A}

\* There are as many calls of A in list c as answers to A in pipes p.
Enough(p, c, id, A) ==
  /\ IsFiniteSet(Held(p, OfAnswer(id, A)))
  /\ Cardinality(Held(p, OfAnswer(id, A))) <= Number(c, OfCall(id, A))

Suffices(id, A) == Enough(pipe, calls, id, A)

\* For all engines together, and for each of them as long as none shares id.
CallsSuffice ==
  \A id \in Ids :
    /\ Suffices(id, Browsers)
    /\ id \notin shared => \A a \in Browsers : Suffices(id, {a})

OneOwner ==
  \A id \in Ids : id \notin shared => \A o, p \in Owners(calls, id) : o = p

\* An engine is made when its browser has sent the client key.
NoEngineBefore == \A b \in Browsers : sock[b] \in {"new", "asked"} => ws[b] = "none"

\* What the server tells b about a project, the user of b asked for, or one
\* whose answers were redirected.
Acted(b) == events[b] > 0 \/ \E o \in orphans : events[o] > 0

OpenedByUser ==
  \A b \in Browsers : \A i \in DOMAIN pipe[b] :
    pipe[b][i].kind = "projectOpened" => Acted(b)

GatewayInv ==
  /\ GatewayTypeOK
  /\ NoEngineBefore
  /\ CallsSuffice
  /\ OneOwner
  /\ OpenedByUser
  /\ OnlySharedIdsMix
  /\ OnlyUsersEnd

-----------------------------------------------------------------------------
(***************************************************************************)
(* Messages and calls.                                                     *)
(***************************************************************************)
LEMMA MessageTyped ==
  ASSUME NEW m \in Messages
  PROVE  /\ m.kind = "result" =>
              m.id \in Ids /\ m.by \in Browsers /\ m = Result(m.id, m.by)
         /\ m.kind # "result" => \A id, A : m \notin OfAnswer(id, A)
  BY DEF Messages, Result, OfAnswer

LEMMA NoticeTyped ==
  ASSUME NEW method \in {"frame", "projectOpened", "clientKey"}
  PROVE  /\ Notice(method) \in Messages /\ Notice(method).kind = method
         /\ \A id, A : One(Notice(method), OfAnswer(id, A)) = 0
  BY DEF Messages, Notice, Result, OfAnswer, One

LEMMA CallTyped ==
  ASSUME NEW b \in Browsers, NEW x \in Ids
  PROVE  /\ Entry(b, x) \in Entries /\ Entry(b, x).id = x /\ Entry(b, x).owner = b
         /\ Result(x, b) \in Messages /\ Result(x, b).kind = "result"
  BY DEF Entries, Entry, Messages, Result

\* A call counts where its answer does.
LEMMA CallCounts ==
  ASSUME NEW b \in Browsers, NEW x \in Ids, NEW id \in Ids, NEW A \in SUBSET Browsers
  PROVE  One(Result(x, b), OfAnswer(id, A)) = One(Entry(b, x), OfCall(id, A))
<1>1. Result(x, b) \in OfAnswer(id, A) <=> x = id /\ b \in A
  BY DEF Result, OfAnswer
<1>2. Entry(b, x) \in OfCall(id, A) <=> x = id /\ b \in A
  BY DEF Entry, OfCall
<1> QED
  BY <1>1, <1>2 DEF One

LEMMA EntryTyped ==
  ASSUME NEW e \in Entries
  PROVE  e = Entry(e.owner, e.id) /\ e.id \in Ids /\ e.owner \in Browsers
  BY DEF Entries, Entry

\* The calls two of the handlers make.
LEMMA OneCall ==
  ASSUME NEW b \in Browsers, NEW x \in Ids, Call(b, <<x>>)
  PROVE  calls' = calls \o <<Entry(b, x)>>
<1>1. [i \in DOMAIN <<x>> |-> Entry(b, <<x>>[i])] = <<Entry(b, x)>>
  OBVIOUS
<1> QED
  BY <1>1 DEF Call

LEMMA TwoCalls ==
  ASSUME NEW b \in Browsers, NEW x \in Ids, NEW y \in Ids, Call(b, <<x, y>>)
  PROVE  calls' = calls \o <<Entry(b, x), Entry(b, y)>>
<1>1. [i \in DOMAIN <<x, y>> |-> Entry(b, <<x, y>>[i])] = <<Entry(b, x), Entry(b, y)>>
  OBVIOUS
<1> QED
  BY <1>1 DEF Call

\* One pipe and the list change, and the answers do not outgrow the calls.
LEMMA OnePipeSuffices ==
  ASSUME NEW p \in [Browsers -> Seq(Messages)], NEW c \in Seq(Entries),
         NEW id, NEW A, Enough(p, c, id, A),
         NEW b \in Browsers, NEW s \in Seq(Messages), NEW q, q = [p EXCEPT ![b] = s],
         NEW d \in Seq(Entries),
         Number(s, OfAnswer(id, A)) + Number(c, OfCall(id, A))
           <= Number(p[b], OfAnswer(id, A)) + Number(d, OfCall(id, A))
  PROVE  Enough(q, d, id, A)
<1>1. PICK G, C : G = OfAnswer(id, A) /\ C = OfCall(id, A)
  OBVIOUS
<1>2. IsFiniteSet(Held(p, G)) /\ Cardinality(Held(p, G)) <= Number(c, C)
  BY <1>1 DEF Enough
<1>3. /\ IsFiniteSet(Held(q, G))
      /\ Cardinality(Held(q, G)) + Number(p[b], G) = Cardinality(Held(p, G)) + Number(s, G)
  <2>1. IsFiniteSet(Held(q, G)) /\ Exchanged(p, q, p[b], s, G)
    <3>1. IsFiniteSet(Held(p, G))
      BY <1>2
    <3> QED
      BY <3>1, HeldInOne, Zenon
  <2> QED
    BY <2>1 DEF Exchanged
<1>4. /\ Cardinality(Held(p, G)) \in Nat /\ Cardinality(Held(q, G)) \in Nat
      /\ Number(p[b], G) \in Nat /\ Number(s, G) \in Nat
      /\ Number(c, C) \in Nat /\ Number(d, C) \in Nat
  <2>1. p[b] \in Seq(Messages)
    OBVIOUS
  <2> QED
    BY <1>2, <1>3, <2>1, NumberTyped, FS_CardinalityType
<1>5. Number(s, G) + Number(c, C) <= Number(p[b], G) + Number(d, C)
  BY <1>1
<1>6. Cardinality(Held(q, G)) <= Number(d, C)
  BY <1>2, <1>3, <1>4, <1>5
<1> QED
  BY <1>1, <1>3, <1>6 DEF Enough

\* Nothing is dropped: an answer at the head of a pipe has a call.
LEMMA AnswerHasCall ==
  ASSUME NEW p \in [Browsers -> Seq(Messages)], NEW c \in Seq(Entries),
         NEW b \in Browsers, p[b] # <<>>, NEW id, NEW A, Enough(p, c, id, A),
         Head(p[b]) \in OfAnswer(id, A)
  PROVE  \E i \in DOMAIN c : c[i] \in OfCall(id, A)
<1> DEFINE G == OfAnswer(id, A)
           C == OfCall(id, A)
<1>1. 1 \in Hits(p[b], G)
  BY DEF Hits
<1>2. <<b, 1>> \in Held(p, G)
  BY <1>1 DEF Held
<1>3. Cardinality(Held(p, G)) # 0
  BY <1>2, FS_EmptySet DEF Enough
<1>4. Cardinality(Held(p, G)) \in Nat /\ Number(c, C) \in Nat
  BY NumberTyped, FS_CardinalityType DEF Enough
<1>5. Number(c, C) # 0
  <2>1. Cardinality(Held(p, G)) <= Number(c, C)
    BY DEF Enough
  <2> HIDE DEF G, C
  <2> QED
    BY <1>3, <1>4, <2>1
<1>6. Hits(c, C) # {}
  BY <1>5, FS_EmptySet DEF Number
<1> QED
  BY <1>6 DEF Hits

-----------------------------------------------------------------------------
(***************************************************************************)
(* The answers and the calls, step by step.  All engines together, or one  *)
(* of them, are A in what follows.                                         *)
(***************************************************************************)
\* A message that is no answer comes at the head of a pipe.
LEMMA NoticeFirst ==
  ASSUME NEW method \in {"frame", "projectOpened", "clientKey"},
         NEW s \in Seq(Messages), NEW id, NEW A
  PROVE  /\ <<Notice(method)>> \o s \in Seq(Messages)
         /\ Number(<<Notice(method)>> \o s, OfAnswer(id, A)) = Number(s, OfAnswer(id, A))
<1>1. Notice(method) \in Messages /\ One(Notice(method), OfAnswer(id, A)) = 0
  BY NoticeTyped
<1>2. <<Notice(method)>> \in Seq(Messages)
  BY <1>1
<1>3. Number(<<Notice(method)>> \o s, OfAnswer(id, A))
        = Number(<<Notice(method)>>, OfAnswer(id, A)) + Number(s, OfAnswer(id, A))
  BY <1>2, NumberConcat
<1>4. Number(<<Notice(method)>>, OfAnswer(id, A)) = 0
  BY <1>1, NumberOne
<1>5. Number(s, OfAnswer(id, A)) \in Nat
  BY NumberTyped
<1> QED
  BY <1>2, <1>3, <1>4, <1>5

\* A message that is no answer leaves the head of a pipe.
LEMMA NoticeGone ==
  ASSUME NEW s \in Seq(Messages), s # <<>>, Head(s).kind # "result", NEW id, NEW A
  PROVE  /\ Tail(s) \in Seq(Messages)
         /\ Number(Tail(s), OfAnswer(id, A)) = Number(s, OfAnswer(id, A))
<1>1. Tail(s) \in Seq(Messages) /\ Head(s) \in Messages
  OBVIOUS
<1>2. Number(s, OfAnswer(id, A)) = One(Head(s), OfAnswer(id, A)) + Number(Tail(s), OfAnswer(id, A))
  BY NumberTail
<1>3. One(Head(s), OfAnswer(id, A)) = 0
  BY <1>1, MessageTyped DEF One
<1>4. Number(Tail(s), OfAnswer(id, A)) \in Nat
  BY <1>1, NumberTyped
<1> QED
  BY <1>1, <1>2, <1>3, <1>4

\* A handler sends the calls cs, and the server will answer with as; old is
\* what the pipe of b keeps.
LEMMA AskSuffices ==
  ASSUME NEW p \in [Browsers -> Seq(Messages)], NEW c \in Seq(Entries),
         NEW id, NEW A, Enough(p, c, id, A),
         NEW b \in Browsers, NEW old \in Seq(Messages), NEW answers \in Seq(Messages),
         NEW cs \in Seq(Entries),
         Number(old, OfAnswer(id, A)) = Number(p[b], OfAnswer(id, A)),
         Number(answers, OfAnswer(id, A)) <= Number(cs, OfCall(id, A))
  PROVE  Enough([p EXCEPT ![b] = old \o answers], c \o cs, id, A)
<1>1. PICK G, C : G = OfAnswer(id, A) /\ C = OfCall(id, A)
  OBVIOUS
<1>2. PICK s : s = old \o answers
  OBVIOUS
<1>3. PICK d : d = c \o cs
  OBVIOUS
<1>4. s \in Seq(Messages) /\ d \in Seq(Entries)
  BY <1>2, <1>3, ConcatProperties
<1>5. Number(s, G) = Number(old, G) + Number(answers, G)
  BY <1>2, NumberConcat
<1>6. Number(d, C) = Number(c, C) + Number(cs, C)
  BY <1>3, NumberConcat
<1>7. /\ Number(old, G) \in Nat /\ Number(answers, G) \in Nat
      /\ Number(c, C) \in Nat /\ Number(cs, C) \in Nat
  BY NumberTyped
<1>8. Number(s, G) + Number(c, C) <= Number(p[b], G) + Number(d, C)
  <2>1. Number(old, G) = Number(p[b], G)
    BY <1>1
  <2>2. Number(answers, G) <= Number(cs, C)
    BY <1>1
  <2> QED
    BY <1>5, <1>6, <1>7, <2>1, <2>2
<1>9. PICK q : q = [p EXCEPT ![b] = s]
  OBVIOUS
<1>10. Enough(q, d, id, A)
  BY <1>1, <1>4, <1>8, <1>9, OnePipeSuffices
<1> QED
  BY <1>2, <1>3, <1>9, <1>10

\* An answer is taken from a pipe and a call from the list.
LEMMA TakeSuffices ==
  ASSUME NEW p \in [Browsers -> Seq(Messages)], NEW c \in Seq(Entries),
         NEW id, NEW A, Enough(p, c, id, A),
         NEW b \in Browsers, p[b] # <<>>, NEW i \in DOMAIN c,
         c[i] \in OfCall(id, A) => Head(p[b]) \in OfAnswer(id, A)
  PROVE  Enough([p EXCEPT ![b] = Tail(p[b])], RemoveAt(c, i), id, A)
<1>1. PICK G, C : G = OfAnswer(id, A) /\ C = OfCall(id, A)
  OBVIOUS
<1>2. PICK s : s = Tail(p[b])
  OBVIOUS
<1>3. PICK d : d = RemoveAt(c, i)
  OBVIOUS
<1>4. p[b] \in Seq(Messages) /\ s \in Seq(Messages)
  BY <1>2
<1>5. Number(p[b], G) = One(Head(p[b]), G) + Number(s, G)
  BY <1>2, <1>4, NumberTail
<1>6. d \in Seq(Entries) /\ Number(c, C) = One(c[i], C) + Number(d, C)
  BY <1>3, NumberRemove
<1>7. /\ One(c[i], C) <= One(Head(p[b]), G)
      /\ One(c[i], C) \in Nat /\ One(Head(p[b]), G) \in Nat
  BY <1>1 DEF One
<1>8. Number(s, G) \in Nat /\ Number(d, C) \in Nat
  BY <1>4, <1>6, NumberTyped
<1>9. Number(s, G) + Number(c, C) <= Number(p[b], G) + Number(d, C)
  BY <1>5, <1>6, <1>7, <1>8
<1>10. PICK q : q = [p EXCEPT ![b] = s]
  OBVIOUS
<1>11. Enough(q, d, id, A)
  BY <1>1, <1>4, <1>6, <1>9, <1>10, OnePipeSuffices
<1> QED
  BY <1>2, <1>3, <1>10, <1>11

\* Nothing of interest is taken from a pipe.
LEMMA DropSuffices ==
  ASSUME NEW p \in [Browsers -> Seq(Messages)], NEW c \in Seq(Entries),
         NEW id, NEW A, Enough(p, c, id, A),
         NEW b \in Browsers, NEW s \in Seq(Messages),
         Number(s, OfAnswer(id, A)) = Number(p[b], OfAnswer(id, A))
  PROVE  Enough([p EXCEPT ![b] = s], c, id, A)
<1>1. PICK q : q = [p EXCEPT ![b] = s]
  OBVIOUS
<1>2. Number(s, OfAnswer(id, A)) \in Nat /\ Number(c, OfCall(id, A)) \in Nat
  BY NumberTyped
<1>3. Number(s, OfAnswer(id, A)) + Number(c, OfCall(id, A))
        <= Number(p[b], OfAnswer(id, A)) + Number(c, OfCall(id, A))
  BY <1>2
<1> QED
  BY <1>1, <1>3, OnePipeSuffices

\* Two pipes change, and together they owe what they did.
LEMMA TwoPipesSuffice ==
  ASSUME NEW p \in [Browsers -> Seq(Messages)], NEW c \in Seq(Entries),
         NEW id, NEW A, Enough(p, c, id, A),
         NEW b \in Browsers, NEW o \in Browsers, o # b,
         NEW r \in Seq(Messages), NEW f \in Seq(Messages),
         Number(r, OfAnswer(id, A)) + Number(f, OfAnswer(id, A))
           = Number(p[b], OfAnswer(id, A)) + Number(p[o], OfAnswer(id, A))
  PROVE  Enough([p EXCEPT ![b] = r, ![o] = f], c, id, A)
<1>1. PICK G, C : G = OfAnswer(id, A) /\ C = OfCall(id, A)
  OBVIOUS
<1>2. IsFiniteSet(Held(p, G)) /\ Cardinality(Held(p, G)) <= Number(c, C)
  BY <1>1 DEF Enough
<1>3. PICK q : q = [p EXCEPT ![b] = r]
  OBVIOUS
<1>4. q \in [Browsers -> Seq(Messages)] /\ q[o] = p[o]
  BY <1>3
<1>5. IsFiniteSet(Held(q, G)) /\ Exchanged(p, q, p[b], r, G)
  <2>1. IsFiniteSet(Held(p, G))
    BY <1>2
  <2> QED
    BY <1>3, <2>1, HeldInOne, Zenon
<1>6. PICK u : u = [q EXCEPT ![o] = f]
  OBVIOUS
<1>7. IsFiniteSet(Held(u, G)) /\ Exchanged(q, u, q[o], f, G)
  <2>1. IsFiniteSet(Held(q, G)) /\ q \in [Browsers -> Seq(Messages)]
    BY <1>4, <1>5
  <2> QED
    BY <1>6, <2>1, HeldInOne, Zenon
<1>8. Cardinality(Held(u, G)) <= Number(c, C)
  <2>1. PICK x, y, z, v, w, e, h, n :
          /\ x = Cardinality(Held(p, G)) /\ y = Cardinality(Held(q, G))
          /\ z = Cardinality(Held(u, G)) /\ v = Number(p[b], G) /\ w = Number(p[o], G)
          /\ e = Number(f, G) /\ h = Number(r, G) /\ n = Number(c, C)
    OBVIOUS
  <2>2. /\ x \in Nat /\ y \in Nat /\ z \in Nat /\ v \in Nat /\ w \in Nat
        /\ e \in Nat /\ h \in Nat /\ n \in Nat
    <3>1. p[b] \in Seq(Messages) /\ p[o] \in Seq(Messages)
      OBVIOUS
    <3>2. IsFiniteSet(Held(p, G)) /\ IsFiniteSet(Held(q, G)) /\ IsFiniteSet(Held(u, G))
      BY <1>2, <1>5, <1>7
    <3>3. x \in Nat /\ y \in Nat /\ z \in Nat
      BY <2>1, <3>2, FS_CardinalityType
    <3> QED
      BY <2>1, <3>1, <3>3, NumberTyped
  <2>3. y + v = x + h /\ z + w = y + e
    BY <1>4, <1>5, <1>7, <2>1 DEF Exchanged
  <2>4. h + e = v + w
    BY <1>1, <2>1
  <2>5. x <= n
    BY <1>2, <2>1
  <2>6. z <= n
    BY <2>2, <2>3, <2>4, <2>5
  <2> QED
    BY <2>1, <2>6
<1>9. u = [p EXCEPT ![b] = r, ![o] = f]
  BY <1>3, <1>6
<1>10. Enough(u, c, id, A)
  BY <1>1, <1>7, <1>8 DEF Enough
<1> QED
  BY <1>9, <1>10

\* The server redirects what is left of the pipe of o, all but its first k
\* messages, to b.
LEMMA RedirectSuffices ==
  ASSUME NEW p \in [Browsers -> Seq(Messages)], NEW c \in Seq(Entries),
         NEW id, NEW A, Enough(p, c, id, A),
         NEW b \in Browsers, NEW o \in Browsers, o # b, NEW k \in 0 .. Len(p[o])
  PROVE  Enough([p EXCEPT ![b] = SubSeq(p[o], k + 1, Len(p[o])) \o p[b],
                          ![o] = SubSeq(p[o], 1, k)], c, id, A)
<1>1. PICK G : G = OfAnswer(id, A)
  OBVIOUS
<1>2. PICK t, f : t = SubSeq(p[o], k + 1, Len(p[o])) /\ f = SubSeq(p[o], 1, k)
  OBVIOUS
<1>3. p[o] \in Seq(Messages) /\ p[b] \in Seq(Messages)
  OBVIOUS
<1>4. /\ f \in Seq(Messages) /\ t \in Seq(Messages)
      /\ Number(p[o], G) = Number(f, G) + Number(t, G)
  BY <1>2, <1>3, NumberSplit
<1>5. PICK r : r = t \o p[b]
  OBVIOUS
<1>6. r \in Seq(Messages)
  BY <1>3, <1>4, <1>5, ConcatProperties
<1>7. Number(r, G) = Number(t, G) + Number(p[b], G)
  <2>1. Number(t \o p[b], G) = Number(t, G) + Number(p[b], G)
    BY <1>3, <1>4, NumberConcat
  <2> QED
    BY <1>5, <2>1
<1>8. Number(r, G) + Number(f, G) = Number(p[b], G) + Number(p[o], G)
  <2>1. /\ Number(t, G) \in Nat /\ Number(f, G) \in Nat
        /\ Number(p[b], G) \in Nat /\ Number(p[o], G) \in Nat
    BY <1>3, <1>4, NumberTyped
  <2> QED
    BY <1>4, <1>7, <2>1
<1>9. Enough([p EXCEPT ![b] = r, ![o] = f], c, id, A)
  BY <1>1, <1>4, <1>6, <1>8, TwoPipesSuffice
<1> QED
  BY <1>2, <1>5, <1>9

-----------------------------------------------------------------------------
(***************************************************************************)
(* The pipes and the list, handler by handler.                             *)
(***************************************************************************)
Typed == pipe \in [Browsers -> Seq(Messages)] /\ calls \in Seq(Entries)

\* A handler that touches neither.
LEMMA QuietStep ==
  ASSUME Typed, UNCHANGED <<pipe, calls>>
  PROVE  Typed' /\ \A id, A : Suffices(id, A) => Suffices(id, A)'
BY DEF Typed, Suffices

\* What the server answers one call and two calls with counts as they do.
LEMMA AnswersCount ==
  ASSUME NEW b \in Browsers, NEW id \in Ids, NEW A \in SUBSET Browsers
  PROVE  /\ Number(<<Notice("frame")>>, OfAnswer(id, A)) = 0
         /\ Number(<<Result(Scene, b), Notice("frame")>>, OfAnswer(id, A))
              = Number(<<Entry(b, Scene)>>, OfCall(id, A))
         /\ Number(<<Notice("projectOpened"), Result(Scene, b), Notice("frame")>>, OfAnswer(id, A))
              = Number(<<Entry(b, Scene)>>, OfCall(id, A))
         /\ Number(<<Result(Database, b), Result(Scene, b), Notice("frame")>>, OfAnswer(id, A))
              = Number(<<Entry(b, Database), Entry(b, Scene)>>, OfCall(id, A))
<1>1. PICK G, C : G = OfAnswer(id, A) /\ C = OfCall(id, A)
  OBVIOUS
<1>2. PICK n, o : n = Notice("frame") /\ o = Notice("projectOpened")
  OBVIOUS
<1>3. n \in Messages /\ o \in Messages /\ One(n, G) = 0 /\ One(o, G) = 0
  BY <1>1, <1>2, NoticeTyped
<1>4. PICK rs, rd : rs = Result(Scene, b) /\ rd = Result(Database, b)
  OBVIOUS
<1>5. PICK es, ed : es = Entry(b, Scene) /\ ed = Entry(b, Database)
  OBVIOUS
<1>6. Scene \in Ids /\ Database \in Ids
  BY DEF Ids
<1>7. rs \in Messages /\ rd \in Messages /\ es \in Entries /\ ed \in Entries
  BY <1>4, <1>5, <1>6, CallTyped
<1>8. One(rs, G) = One(es, C) /\ One(rd, G) = One(ed, C)
  BY <1>1, <1>4, <1>5, <1>6, CallCounts
<1>9. One(es, C) \in Nat /\ One(ed, C) \in Nat
  BY DEF One
<1>10. Number(<<n>>, G) = 0
  BY <1>3, NumberOne
<1>11. Number(<<rs, n>>, G) = Number(<<es>>, C)
  <2>1. Number(<<rs, n>>, G) = One(rs, G) + One(n, G)
    BY <1>3, <1>7, NumberTwo
  <2>2. Number(<<es>>, C) = One(es, C)
    BY NumberOne
  <2> QED
    BY <1>3, <1>8, <1>9, <2>1, <2>2
<1>12. Number(<<o, rs, n>>, G) = Number(<<es>>, C)
  <2>1. Number(<<o, rs, n>>, G) = One(o, G) + One(rs, G) + One(n, G)
    BY <1>3, <1>7, NumberThree
  <2>2. Number(<<es>>, C) = One(es, C)
    BY NumberOne
  <2> QED
    BY <1>3, <1>8, <1>9, <2>1, <2>2
<1>13. Number(<<rd, rs, n>>, G) = Number(<<ed, es>>, C)
  <2>1. Number(<<rd, rs, n>>, G) = One(rd, G) + One(rs, G) + One(n, G)
    BY <1>3, <1>7, NumberThree
  <2>2. Number(<<ed, es>>, C) = One(ed, C) + One(es, C)
    BY <1>7, NumberTwo
  <2> QED
    BY <1>3, <1>8, <1>9, <2>1, <2>2
<1> QED
  BY <1>1, <1>2, <1>4, <1>5, <1>10, <1>11, <1>12, <1>13

\* What Send appends is matched by the calls made with it; a connection whose
\* key the server has taken is sent nothing, which leaves calls over.
LEMMA SendSuffices ==
  ASSUME Typed, NEW id, NEW A, Suffices(id, A),
         NEW b \in Browsers, NEW s \in Seq(Messages), NEW cs \in Seq(Entries),
         Number(s, OfAnswer(id, A)) = Number(cs, OfCall(id, A)),
         Send(b, s), calls' = calls \o cs
  PROVE  Suffices(id, A)'
<1>1. pipe \in [Browsers -> Seq(Messages)] /\ calls \in Seq(Entries) /\ pipe[b] \in Seq(Messages)
  BY DEF Typed
<1>2. Enough(pipe, calls, id, A)
  BY DEF Suffices
<1>3. Number(cs, OfCall(id, A)) \in Nat
  BY NumberTyped
<1>4. CASE b \in orphans
  <2>1. PICK e : e = <<>>
    OBVIOUS
  <2>2. e \in Seq(Messages)
    BY <2>1
  <2>3. Number(e, OfAnswer(id, A)) <= Number(cs, OfCall(id, A))
    <3>1. Number(e, OfAnswer(id, A)) = 0
      BY <2>1, NumberEmpty
    <3> QED
      BY <1>3, <3>1
  <2>4. Enough([pipe EXCEPT ![b] = pipe[b] \o e], calls \o cs, id, A)
    BY <1>1, <1>2, <2>2, <2>3, AskSuffices
  <2>5. [pipe EXCEPT ![b] = pipe[b] \o e] = pipe
    <3>1. pipe[b] \o e = pipe[b]
      BY <1>1, <2>1
    <3> QED
      BY <1>1, <3>1
  <2>6. pipe' = pipe
    BY <1>4 DEF Send
  <2> QED
    BY <2>4, <2>5, <2>6 DEF Suffices
<1>5. CASE b \notin orphans
  <2>1. Number(s, OfAnswer(id, A)) <= Number(cs, OfCall(id, A))
    BY <1>3
  <2>2. Enough([pipe EXCEPT ![b] = pipe[b] \o s], calls \o cs, id, A)
    BY <1>1, <1>2, <2>1, AskSuffices
  <2>3. pipe' = [pipe EXCEPT ![b] = pipe[b] \o s]
    BY <1>5 DEF Send
  <2> QED
    BY <2>2, <2>3 DEF Suffices
<1> QED
  BY <1>4, <1>5

LEMMA SelectDataSuffices ==
  ASSUME Typed, NEW b \in Browsers, SelectData(b),
         NEW id \in Ids, NEW A \in SUBSET Browsers, Suffices(id, A)
  PROVE  Suffices(id, A)'
<1>1. CASE UNCHANGED <<pipe, calls>>
  BY <1>1, QuietStep
<1>2. CASE /\ Call(b, <<Scene>>)
           /\ Send(b, <<Notice("projectOpened"), Result(Scene, b), Notice("frame")>>)
  <2>1. Scene \in Ids
    BY DEF Ids
  <2>2. PICK s, cs : /\ s = <<Notice("projectOpened"), Result(Scene, b), Notice("frame")>>
                     /\ cs = <<Entry(b, Scene)>>
    OBVIOUS
  <2>3. s \in Seq(Messages) /\ cs \in Seq(Entries)
    BY <2>1, <2>2, NoticeTyped, CallTyped
  <2>4. Number(s, OfAnswer(id, A)) = Number(cs, OfCall(id, A))
    BY <2>2, AnswersCount
  <2>5. Send(b, s) /\ calls' = calls \o cs
    BY <1>2, <2>1, <2>2, OneCall
  <2> QED
    BY <2>3, <2>4, <2>5, SendSuffices
<1> QED
  BY <1>1, <1>2 DEF SelectData

LEMMA RequestFrameSuffices ==
  ASSUME Typed, NEW b \in Browsers, RequestFrame(b),
         NEW id \in Ids, NEW A \in SUBSET Browsers, Suffices(id, A)
  PROVE  Suffices(id, A)'
<1>1. CASE UNCHANGED <<pipe, calls>>
  BY <1>1, QuietStep
<1>2. CASE Send(b, <<Notice("frame")>>) /\ UNCHANGED calls
  <2>1. PICK s, cs : s = <<Notice("frame")>> /\ cs = <<>>
    OBVIOUS
  <2>2. s \in Seq(Messages) /\ cs \in Seq(Entries)
    BY <2>1, NoticeTyped
  <2>3. Number(s, OfAnswer(id, A)) = Number(cs, OfCall(id, A))
    BY <2>1, AnswersCount, NumberEmpty
  <2>4. calls' = calls \o cs
    BY <1>2, <2>1 DEF Typed
  <2> QED
    BY <1>2, <2>1, <2>2, <2>3, <2>4, SendSuffices
<1> QED
  BY <1>1, <1>2 DEF RequestFrame

LEMMA OnOpenSuffices ==
  ASSUME Typed, NEW b \in Browsers, OnOpen(b),
         NEW id \in Ids, NEW A \in SUBSET Browsers, Suffices(id, A)
  PROVE  Suffices(id, A)'
<1>1. Scene \in Ids /\ Database \in Ids
  BY DEF Ids
<1>2. PICK s, cs : /\ s = <<Result(Database, b), Result(Scene, b), Notice("frame")>>
                   /\ cs = <<Entry(b, Database), Entry(b, Scene)>>
  OBVIOUS
<1>3. s \in Seq(Messages) /\ cs \in Seq(Entries)
  BY <1>1, <1>2, NoticeTyped, CallTyped
<1>4. Number(s, OfAnswer(id, A)) = Number(cs, OfCall(id, A))
  BY <1>2, AnswersCount
<1>5. Send(b, s) /\ calls' = calls \o cs
  BY <1>1, <1>2, TwoCalls DEF OnOpen
<1> QED
  BY <1>3, <1>4, <1>5, SendSuffices

LEMMA ServerLearnsKeySuffices ==
  ASSUME Typed, keyed \subseteq Browsers, NEW b \in Browsers, ServerLearnsKey(b),
         NEW id \in Ids, NEW A \in SUBSET Browsers, Suffices(id, A)
  PROVE  Suffices(id, A)'
<1>1. pipe \in [Browsers -> Seq(Messages)] /\ calls \in Seq(Entries) /\ pipe[b] \in Seq(Messages)
  BY DEF Typed
<1>2. Enough(pipe, calls, id, A) /\ calls' = calls
  BY DEF Suffices, ServerLearnsKey
<1>3. CASE pipe' = [pipe EXCEPT ![b] = <<Notice("clientKey")>> \o @]
  <2>1. PICK s : s = <<Notice("clientKey")>> \o pipe[b]
    OBVIOUS
  <2>2. s \in Seq(Messages) /\ Number(s, OfAnswer(id, A)) = Number(pipe[b], OfAnswer(id, A))
    BY <1>1, <2>1, NoticeFirst
  <2>3. Enough([pipe EXCEPT ![b] = s], calls, id, A)
    BY <1>1, <1>2, <2>2, DropSuffices
  <2>4. pipe' = [pipe EXCEPT ![b] = s]
    BY <1>3, <2>1
  <2> QED
    BY <1>2, <2>3, <2>4 DEF Suffices
<1>4. CASE \E o \in keyed \ (orphans \cup {b}) : o \in Browsers /\ \E k \in 0 .. Len(pipe[o]) :
             pipe' = [pipe EXCEPT ![b] = SubSeq(pipe[o], k + 1, Len(pipe[o])) \o @,
                                  ![o] = SubSeq(@, 1, k)]
  <2>0. PICK o \in Browsers \ {b} : \E k \in 0 .. Len(pipe[o]) :
          pipe' = [pipe EXCEPT ![b] = SubSeq(pipe[o], k + 1, Len(pipe[o])) \o @,
                               ![o] = SubSeq(@, 1, k)]
    BY <1>4
  <2>1. PICK k \in 0 .. Len(pipe[o]) :
          pipe' = [pipe EXCEPT ![b] = SubSeq(pipe[o], k + 1, Len(pipe[o])) \o @,
                               ![o] = SubSeq(@, 1, k)]
    BY <2>0
  <2>2. pipe' = [pipe EXCEPT ![b] = SubSeq(pipe[o], k + 1, Len(pipe[o])) \o pipe[b],
                             ![o] = SubSeq(pipe[o], 1, k)]
    BY <1>1, <2>1
  <2>3. o \in Browsers /\ o # b
    BY <2>1
  <2>4. Enough([pipe EXCEPT ![b] = SubSeq(pipe[o], k + 1, Len(pipe[o])) \o pipe[b],
                            ![o] = SubSeq(pipe[o], 1, k)], calls, id, A)
    BY <1>1, <1>2, <2>1, <2>3, RedirectSuffices
  <2> QED
    BY <1>2, <2>2, <2>4 DEF Suffices
<1> QED
  BY <1>3, <1>4 DEF ServerLearnsKey

\* As long as no two engines share its id, the call an answer finds was made
\* by the engine that is answered.
LEMMA OwnCallFound ==
  ASSUME Typed, CallsSuffice, OneOwner,
         NEW b \in Browsers, pipe[b] # <<>>, NEW m, m = Head(pipe[b]),
         m.kind = "result", m.id \notin shared,
         NEW i \in DOMAIN calls, calls[i].id = m.id
  PROVE  calls[i].owner = m.by
<1>1. pipe \in [Browsers -> Seq(Messages)] /\ calls \in Seq(Entries) /\ m \in Messages
  <2>1. pipe[b] \in Seq(Messages)
    BY DEF Typed
  <2> QED
    BY <2>1 DEF Typed
<1>2. m.id \in Ids /\ m.by \in Browsers /\ m = Result(m.id, m.by)
  BY <1>1, MessageTyped
<1>3. Enough(pipe, calls, m.id, {m.by})
  BY <1>2 DEF CallsSuffice, Suffices
<1>4. Head(pipe[b]) \in OfAnswer(m.id, {m.by})
  BY <1>2 DEF OfAnswer
<1>5. PICK j \in DOMAIN calls : calls[j] \in OfCall(m.id, {m.by})
  BY <1>1, <1>3, <1>4, AnswerHasCall
<1>6. calls[j].id = m.id /\ calls[j].owner = m.by
  BY <1>5 DEF OfCall, Entry
<1>7. calls[i].owner \in Owners(calls, m.id) /\ m.by \in Owners(calls, m.id)
  BY <1>6 DEF Owners
<1> QED
  BY <1>2, <1>7 DEF OneOwner

\* An answer finds a call, whoever made it.
LEMMA SomeCallFound ==
  ASSUME Typed, CallsSuffice,
         NEW b \in Browsers, pipe[b] # <<>>, NEW m, m = Head(pipe[b]), m.kind = "result"
  PROVE  /\ m \in Messages /\ m.id \in Ids /\ m.by \in Browsers
         /\ \E i \in DOMAIN calls : calls[i].id = m.id
<1>1. pipe \in [Browsers -> Seq(Messages)] /\ calls \in Seq(Entries) /\ m \in Messages
  <2>1. pipe[b] \in Seq(Messages)
    BY DEF Typed
  <2> QED
    BY <2>1 DEF Typed
<1>2. m.id \in Ids /\ m.by \in Browsers /\ m = Result(m.id, m.by)
  BY <1>1, MessageTyped
<1>3. Enough(pipe, calls, m.id, Browsers)
  BY <1>2 DEF CallsSuffice, Suffices
<1>4. Head(pipe[b]) \in OfAnswer(m.id, Browsers)
  BY <1>2 DEF OfAnswer
<1>5. PICK j \in DOMAIN calls : calls[j] \in OfCall(m.id, Browsers)
  BY <1>1, <1>3, <1>4, AnswerHasCall
<1>6. calls[j].id = m.id
  BY <1>5 DEF OfCall, Entry
<1> QED
  BY <1>1, <1>2, <1>6

\* The handler of an answer: a call of the id is taken off the list, and its
\* owner is given the answer.
LEMMA AnswerStep ==
  ASSUME Typed, CallsSuffice,
         NEW b \in Browsers, pipe[b] # <<>>, NEW m, m = Head(pipe[b]), m.kind = "result",
         CallCheck(m)
  PROVE  \E i \in DOMAIN calls :
           /\ calls[i].id = m.id
           /\ calls' = RemoveAt(calls, i)
           /\ given' = [given EXCEPT ![calls[i].owner] = @ \cup {[id |-> m.id, by |-> m.by]}]
<1>1. \E i \in DOMAIN calls : calls[i].id = m.id
  BY SomeCallFound
<1> QED
  BY <1>1 DEF CallCheck

LEMMA AnswerSuffices ==
  ASSUME Typed, CallsSuffice, OneOwner,
         NEW b \in Browsers, pipe[b] # <<>>, NEW m, m = Head(pipe[b]), m.kind = "result",
         CallCheck(m), pipe' = [pipe EXCEPT ![b] = Tail(@)],
         NEW id \in Ids, NEW A \in SUBSET Browsers, Suffices(id, A),
         A = Browsers \/ id \notin shared
  PROVE  Suffices(id, A)'
<1>1. pipe \in [Browsers -> Seq(Messages)] /\ calls \in Seq(Entries) /\ pipe[b] \in Seq(Messages)
  BY DEF Typed
<1>2. m \in Messages /\ m.id \in Ids /\ m.by \in Browsers
  BY SomeCallFound
<1>3. PICK i \in DOMAIN calls : calls[i].id = m.id /\ calls' = RemoveAt(calls, i)
  BY AnswerStep
<1>4. ASSUME calls[i] \in OfCall(id, A)
      PROVE  Head(pipe[b]) \in OfAnswer(id, A)
  <2>1. PICK a \in A : calls[i] = Entry(a, id)
    BY <1>4 DEF OfCall
  <2>2. m.id = id /\ calls[i].owner = a
    BY <1>3, <2>1 DEF Entry
  <2>3. m.by \in A
    <3>1. CASE A = Browsers
      BY <1>2, <3>1
    <3>2. CASE id \notin shared
      BY <1>3, <2>2, <3>2, OwnCallFound
    <3> QED
      BY <3>1, <3>2
  <2>4. m = Result(id, m.by)
    BY <1>2, <2>2, MessageTyped
  <2> QED
    BY <2>3, <2>4 DEF OfAnswer
<1>5. Enough(pipe, calls, id, A)
  BY DEF Suffices
<1>6. Enough([pipe EXCEPT ![b] = Tail(pipe[b])], RemoveAt(calls, i), id, A)
  BY <1>1, <1>4, <1>5, TakeSuffices
<1>7. pipe' = [pipe EXCEPT ![b] = Tail(pipe[b])]
  OBVIOUS
<1> QED
  BY <1>3, <1>6, <1>7 DEF Suffices

LEMMA NoticeSuffices ==
  ASSUME Typed, NEW b \in Browsers, pipe[b] # <<>>, Head(pipe[b]).kind # "result",
         NEW s \in Seq(Messages), NEW cs \in Seq(Entries),
         NEW id, NEW A, Suffices(id, A),
         Number(s, OfAnswer(id, A)) <= Number(cs, OfCall(id, A)),
         pipe' = [pipe EXCEPT ![b] = Tail(@) \o s], calls' = calls \o cs
  PROVE  Suffices(id, A)'
<1>1. pipe \in [Browsers -> Seq(Messages)] /\ calls \in Seq(Entries) /\ pipe[b] \in Seq(Messages)
  BY DEF Typed
<1>2. PICK t, old : t = Tail(old) /\ old = pipe[b]
  OBVIOUS
<1>3. t \in Seq(Messages) /\ Number(t, OfAnswer(id, A)) = Number(pipe[b], OfAnswer(id, A))
  <2>1. old \in Seq(Messages) /\ old # <<>> /\ Head(old).kind # "result"
    BY <1>1, <1>2
  <2>2. Tail(old) \in Seq(Messages)
    BY <2>1
  <2>3. Number(Tail(old), OfAnswer(id, A)) = Number(old, OfAnswer(id, A))
    BY <2>1, NoticeGone
  <2> QED
    BY <1>2, <2>2, <2>3
<1>4. Enough(pipe, calls, id, A)
  BY DEF Suffices
<1>5. Enough([pipe EXCEPT ![b] = t \o s], calls \o cs, id, A)
  BY <1>1, <1>3, <1>4, AskSuffices
<1>6. pipe' = [pipe EXCEPT ![b] = t \o s]
  BY <1>2
<1> QED
  BY <1>5, <1>6 DEF Suffices

LEMMA OnMessageSuffices ==
  ASSUME Typed, CallsSuffice, OneOwner, NEW b \in Browsers, OnMessage(b),
         NEW id \in Ids, NEW A \in SUBSET Browsers, Suffices(id, A),
         A = Browsers \/ id \notin shared
  PROVE  Suffices(id, A)'
<1>1. PICK m : m = Head(pipe[b])
  OBVIOUS
<1>2. pipe[b] # <<>> /\ pipe[b] \in Seq(Messages) /\ calls \in Seq(Entries)
  BY DEF OnMessage, Typed
<1>3. Tail(pipe[b]) \in Seq(Messages) /\ Tail(pipe[b]) \o <<>> = Tail(pipe[b])
      /\ calls \o <<>> = calls
  BY <1>2
<1>4. CASE m.kind = "result" /\ CallCheck(m) /\ pipe' = [pipe EXCEPT ![b] = Tail(@)]
  BY <1>1, <1>2, <1>4, AnswerSuffices
<1>5. CASE /\ m.kind \in {"frame", "clientKey"}
           /\ pipe' = [pipe EXCEPT ![b] = Tail(@)]
           /\ calls' = calls
  <2>1. PICK s, cs : s = <<>> /\ cs = <<>>
    OBVIOUS
  <2>2. s \in Seq(Messages) /\ cs \in Seq(Entries)
    BY <2>1
  <2>3. Number(s, OfAnswer(id, A)) <= Number(cs, OfCall(id, A))
    BY <2>1, NumberEmpty
  <2>4. pipe' = [pipe EXCEPT ![b] = Tail(@) \o s] /\ calls' = calls \o cs
    BY <1>3, <1>5, <2>1
  <2>5. Head(pipe[b]).kind # "result"
    BY <1>1, <1>5
  <2> QED
    BY <1>2, <2>2, <2>3, <2>4, <2>5, NoticeSuffices
<1>6. CASE /\ m.kind = "projectOpened"
           /\ Call(b, <<Scene>>)
           /\ \/ pipe' = [pipe EXCEPT ![b] = Tail(@) \o
                            (IF b \in orphans THEN <<>>
                             ELSE <<Result(Scene, b), Notice("frame")>>)]
              \/ pipe' = [pipe EXCEPT ![b] = Tail(@)]
  <2>1. Scene \in Ids
    BY DEF Ids
  <2>2. PICK cs : cs = <<Entry(b, Scene)>>
    OBVIOUS
  <2>3. cs \in Seq(Entries) /\ calls' = calls \o cs
    BY <1>6, <2>1, <2>2, CallTyped, OneCall
  <2>4. Number(cs, OfCall(id, A)) \in Nat
    BY <2>3, NumberTyped
  <2>5. Head(pipe[b]).kind # "result"
    BY <1>1, <1>6
  <2>6. CASE pipe' = [pipe EXCEPT ![b] = Tail(@)] \/
             pipe' = [pipe EXCEPT ![b] = Tail(@) \o <<>>]
    <3>1. PICK s : s = <<>>
      OBVIOUS
    <3>2. s \in Seq(Messages) /\ pipe' = [pipe EXCEPT ![b] = Tail(@) \o s]
      BY <1>3, <2>6, <3>1
    <3>3. Number(s, OfAnswer(id, A)) <= Number(cs, OfCall(id, A))
      BY <2>4, <3>1, NumberEmpty
    <3> QED
      BY <1>2, <2>3, <2>5, <3>2, <3>3, NoticeSuffices
  <2>7. CASE pipe' = [pipe EXCEPT ![b] = Tail(@) \o <<Result(Scene, b), Notice("frame")>>]
    <3>1. PICK s : s = <<Result(Scene, b), Notice("frame")>>
      OBVIOUS
    <3>2. s \in Seq(Messages)
      BY <2>1, <3>1, NoticeTyped, CallTyped
    <3>3. Number(s, OfAnswer(id, A)) <= Number(cs, OfCall(id, A))
      <4>1. Number(s, OfAnswer(id, A)) = Number(cs, OfCall(id, A))
        BY <2>2, <3>1, AnswersCount
      <4> QED
        BY <2>4, <4>1
    <3>4. pipe' = [pipe EXCEPT ![b] = Tail(@) \o s]
      BY <2>7, <3>1
    <3> QED
      BY <1>2, <2>3, <2>5, <3>2, <3>3, <3>4, NoticeSuffices
  <2> QED
    BY <1>6, <2>6, <2>7
<1> QED
  BY <1>1, <1>4, <1>5, <1>6 DEF OnMessage

\* The handlers that neither send, receive nor redirect.
Quiet(b) == Connection(b) \/ ClientKey(b) \/ Disconnect(b) \/ OnClose(b)

LEMMA QuietSuffices ==
  ASSUME Typed, NEW b \in Browsers, Quiet(b), NEW id, NEW A, Suffices(id, A)
  PROVE  Suffices(id, A)'
<1>1. UNCHANGED <<pipe, calls>>
  BY DEF Quiet, Connection, ClientKey, Disconnect, OnClose
<1> QED
  BY <1>1, QuietStep

LEMMA StepSuffices ==
  ASSUME Typed, keyed \subseteq Browsers, CallsSuffice, OneOwner,
         GatewayNext \/ UNCHANGED gatewayVars,
         NEW id \in Ids, NEW A \in SUBSET Browsers, Suffices(id, A),
         A = Browsers \/ id \notin shared
  PROVE  Suffices(id, A)'
<1>1. CASE UNCHANGED gatewayVars
  BY <1>1, QuietStep DEF gatewayVars
<1>2. ASSUME NEW b \in Browsers, Quiet(b)
      PROVE  Suffices(id, A)'
  BY <1>2, QuietSuffices
<1>3. ASSUME NEW b \in Browsers, SelectData(b)
      PROVE  Suffices(id, A)'
  BY <1>3, SelectDataSuffices
<1>4. ASSUME NEW b \in Browsers, RequestFrame(b)
      PROVE  Suffices(id, A)'
  BY <1>4, RequestFrameSuffices
<1>5. ASSUME NEW b \in Browsers, OnOpen(b)
      PROVE  Suffices(id, A)'
  BY <1>5, OnOpenSuffices
<1>6. ASSUME NEW b \in Browsers, ServerLearnsKey(b)
      PROVE  Suffices(id, A)'
  BY <1>6, ServerLearnsKeySuffices
<1>7. ASSUME NEW b \in Browsers, OnMessage(b)
      PROVE  Suffices(id, A)'
  BY <1>7, OnMessageSuffices
<1> QED
  BY <1>1, <1>2, <1>3, <1>4, <1>5, <1>6, <1>7 DEF GatewayNext, Quiet

LEMMA StepCallsSuffice ==
  ASSUME Typed, keyed \subseteq Browsers, CallsSuffice, OneOwner,
         GatewayNext \/ UNCHANGED gatewayVars, shared \subseteq shared'
  PROVE  CallsSuffice'
<1>1. ASSUME NEW id \in Ids
      PROVE  Suffices(id, Browsers)'
  BY StepSuffices DEF CallsSuffice
<1>2. ASSUME NEW id \in Ids, id \notin shared', NEW a \in Browsers
      PROVE  Suffices(id, {a})'
  <2>1. Suffices(id, {a}) /\ id \notin shared
    BY <1>2 DEF CallsSuffice
  <2> QED
    BY <2>1, StepSuffices
<1> QED
  BY <1>1, <1>2 DEF CallsSuffice

-----------------------------------------------------------------------------
(***************************************************************************)
(* Types, and what only grows.                                             *)
(***************************************************************************)
\* What Call does to the list and to the ids that are shared.
LEMMA CallStep ==
  ASSUME calls \in Seq(Entries), shared \subseteq Ids, NEW b \in Browsers,
         Call(b, <<Scene>>) \/ Call(b, <<Database, Scene>>)
  PROVE  /\ calls' \in Seq(Entries)
         /\ shared' \subseteq Ids /\ shared \subseteq shared'
         /\ OneOwner'
<1>1. Scene \in Ids /\ Database \in Ids
  BY DEF Ids
<1>2. calls' \in Seq(Entries)
  <2>1. CASE Call(b, <<Scene>>)
    <3>1. PICK cs : cs = <<Entry(b, Scene)>>
      OBVIOUS
    <3>2. cs \in Seq(Entries) /\ calls' = calls \o cs
      BY <1>1, <2>1, <3>1, CallTyped, OneCall
    <3> QED
      BY <3>2, ConcatProperties
  <2>2. CASE Call(b, <<Database, Scene>>)
    <3>1. PICK cs : cs = <<Entry(b, Database), Entry(b, Scene)>>
      OBVIOUS
    <3>2. cs \in Seq(Entries) /\ calls' = calls \o cs
      BY <1>1, <2>2, <3>1, CallTyped, TwoCalls
    <3> QED
      BY <3>2, ConcatProperties
  <2> QED
    BY <2>1, <2>2
<1>3. shared' = shared \cup {id \in Ids : \E o, p \in Owners(calls', id) : o # p}
  BY DEF Call
<1>4. OneOwner'
  <2>1. ASSUME NEW id \in Ids, id \notin shared', NEW o \in Owners(calls', id),
               NEW p \in Owners(calls', id)
        PROVE  o = p
    BY <1>3, <2>1
  <2> QED
    BY <2>1 DEF OneOwner
<1> QED
  BY <1>2, <1>3, <1>4

LEMMA SendTyped ==
  ASSUME pipe \in [Browsers -> Seq(Messages)], NEW b \in Browsers,
         NEW s \in Seq(Messages), Send(b, s)
  PROVE  pipe' \in [Browsers -> Seq(Messages)]
<1>1. pipe[b] \o s \in Seq(Messages)
  BY ConcatProperties
<1> QED
  BY <1>1 DEF Send

\* The state of the sockets and of the connections.
SocketsOK ==
  /\ sock \in [Browsers -> {"new", "asked", "ready", "gone"}]
  /\ ws \in [Browsers -> {"none", "connecting", "open", "closing", "closed"}]
  /\ \A b \in Browsers :
       /\ sock[b] = "ready" => ws[b] # "none"
       /\ sock[b] = "gone" => ws[b] \in {"none", "closing", "closed"}
  /\ NoEngineBefore

LEMMA SocketsStep ==
  ASSUME SocketsOK, GatewayNext \/ UNCHANGED gatewayVars
  PROVE  SocketsOK'
<1> USE DEF SocketsOK, NoEngineBefore
<1>1. CASE UNCHANGED <<sock, ws>>
  BY <1>1
<1>2. ASSUME NEW b \in Browsers, Connection(b)
      PROVE  SocketsOK'
  BY <1>2 DEF Connection
<1>3. ASSUME NEW b \in Browsers, ClientKey(b)
      PROVE  SocketsOK'
  BY <1>3 DEF ClientKey
<1>4. ASSUME NEW b \in Browsers, Disconnect(b)
      PROVE  SocketsOK'
  <2>1. CASE sock[b] = "asked" /\ UNCHANGED ws /\ sock' = [sock EXCEPT ![b] = "gone"]
    BY <2>1
  <2>2. CASE /\ sock[b] = "ready"
             /\ ws' = [ws EXCEPT ![b] = IF @ = "open" THEN "closing" ELSE "closed"]
             /\ sock' = [sock EXCEPT ![b] = "gone"]
    BY <2>2
  <2> QED
    BY <1>4, <2>1, <2>2 DEF Disconnect
<1>5. ASSUME NEW b \in Browsers, OnOpen(b)
      PROVE  SocketsOK'
  BY <1>5 DEF OnOpen
<1>6. ASSUME NEW b \in Browsers, OnClose(b)
      PROVE  SocketsOK'
  BY <1>6 DEF OnClose
<1>7. ASSUME NEW b \in Browsers,
             SelectData(b) \/ RequestFrame(b) \/ ServerLearnsKey(b) \/ OnMessage(b)
      PROVE  UNCHANGED <<sock, ws>>
  BY <1>7 DEF SelectData, RequestFrame, ServerLearnsKey, OnMessage
<1> QED
  BY <1>1, <1>2, <1>3, <1>4, <1>5, <1>6, <1>7 DEF GatewayNext, gatewayVars

\* The pipes, the list and what the browsers were given.
DataOK ==
  /\ Typed
  /\ given \in [Browsers -> SUBSET [id : Ids, by : Browsers]]
  /\ running \in BOOLEAN
  /\ events \in [Browsers -> 0 .. MaxEvents]
  /\ orphans \subseteq keyed /\ keyed \subseteq Browsers
  /\ shared \subseteq Ids

\* Nothing is forgotten that the invariant speaks of.
Grown ==
  /\ \A b \in Browsers : events[b] > 0 => events'[b] > 0
  /\ orphans \subseteq orphans'
  /\ shared \subseteq shared'

LEMMA GatewayTypeParts ==
  GatewayTypeOK /\ NoEngineBefore <=> SocketsOK /\ DataOK
BY Zenon DEF GatewayTypeOK, SocketsOK, DataOK, Typed

LEMMA EventTyped ==
  ASSUME events \in [Browsers -> 0 .. MaxEvents], NEW b \in Browsers, Event(b)
  PROVE  /\ events' \in [Browsers -> 0 .. MaxEvents]
         /\ \A c \in Browsers : events[c] > 0 => events'[c] > 0
         /\ events'[b] > 0
<1>1. events[b] \in 0 .. MaxEvents /\ events[b] < MaxEvents
  BY DEF Event
<1>2. events[b] + 1 \in 0 .. MaxEvents /\ events[b] + 1 > 0
  BY <1>1, GatewayAssumption
<1> QED
  BY <1>2 DEF Event

LEMMA AnswerTyped ==
  ASSUME DataOK, CallsSuffice, OneOwner,
         NEW b \in Browsers, pipe[b] # <<>>, NEW m, m = Head(pipe[b]), m.kind = "result",
         CallCheck(m), UNCHANGED shared
  PROVE  /\ calls' \in Seq(Entries) /\ OneOwner'
         /\ given' \in [Browsers -> SUBSET [id : Ids, by : Browsers]]
<1>1. calls \in Seq(Entries) /\ Typed
  BY DEF DataOK, Typed
<1>2. m.id \in Ids /\ m.by \in Browsers
  BY <1>1, SomeCallFound
<1>3. PICK i \in DOMAIN calls :
        /\ calls[i].id = m.id
        /\ calls' = RemoveAt(calls, i)
        /\ given' = [given EXCEPT ![calls[i].owner] = @ \cup {[id |-> m.id, by |-> m.by]}]
  BY <1>1, AnswerStep
<1>4. calls[i].owner \in Browsers
  <2>1. calls[i] \in Entries
    BY <1>1
  <2> QED
    BY <2>1 DEF Entries
<1>5. given' \in [Browsers -> SUBSET [id : Ids, by : Browsers]]
  BY <1>2, <1>3, <1>4 DEF DataOK
<1>6. calls' \in Seq(Entries)
  BY <1>1, <1>3, NumberRemove
<1>7. OneOwner'
  <2>1. \A j \in DOMAIN calls' : \E k \in DOMAIN calls : calls'[j] = calls[k]
    BY <1>1, <1>3, RestOfSequence
  <2>2. \A id : Owners(calls', id) \subseteq Owners(calls, id)
    BY <2>1 DEF Owners
  <2> QED
    BY <2>2 DEF OneOwner
<1> QED
  BY <1>5, <1>6, <1>7

\* What a handler of the server's messages does to pipes, list and ids.
LEMMA OnMessageTyped ==
  ASSUME DataOK, CallsSuffice, OneOwner, NEW b \in Browsers, OnMessage(b)
  PROVE  DataOK' /\ Grown /\ OneOwner'
<1>1. /\ calls \in Seq(Entries) /\ pipe \in [Browsers -> Seq(Messages)]
      /\ pipe[b] # <<>> /\ shared \subseteq Ids
  BY DEF DataOK, Typed, OnMessage
<1>2. PICK m : m = Head(pipe[b])
  OBVIOUS
<1>3. Tail(pipe[b]) \in Seq(Messages)
  BY <1>1
<1>4. UNCHANGED <<events, keyed, orphans>>
  BY DEF OnMessage
<1>5. CASE /\ m.kind = "result" /\ CallCheck(m)
           /\ pipe' = [pipe EXCEPT ![b] = Tail(@)] /\ UNCHANGED <<running, shared>>
  <2>1. /\ calls' \in Seq(Entries) /\ OneOwner'
        /\ given' \in [Browsers -> SUBSET [id : Ids, by : Browsers]]
    BY <1>1, <1>2, <1>5, AnswerTyped
  <2>2. pipe' \in [Browsers -> Seq(Messages)]
    BY <1>1, <1>3, <1>5
  <2> QED
    BY <1>4, <1>5, <2>1, <2>2 DEF DataOK, Typed, Grown
<1>6. CASE /\ m.kind \in {"frame", "clientKey"}
           /\ pipe' = [pipe EXCEPT ![b] = Tail(@)]
           /\ UNCHANGED <<calls, given, running, shared>>
  <2>1. pipe' \in [Browsers -> Seq(Messages)]
    BY <1>1, <1>3, <1>6
  <2> QED
    BY <1>4, <1>6, <2>1 DEF DataOK, Typed, Grown, OneOwner
<1>7. CASE /\ Call(b, <<Scene>>) /\ UNCHANGED given
           /\ running' \in BOOLEAN
           /\ \/ pipe' = [pipe EXCEPT ![b] = Tail(@) \o
                            (IF b \in orphans THEN <<>>
                             ELSE <<Result(Scene, b), Notice("frame")>>)]
              \/ pipe' = [pipe EXCEPT ![b] = Tail(@)]
  <2>1. calls' \in Seq(Entries) /\ shared' \subseteq Ids /\ shared \subseteq shared' /\ OneOwner'
    BY <1>1, <1>7, CallStep
  <2>2. pipe' \in [Browsers -> Seq(Messages)]
    <3>1. PICK s : s = (IF b \in orphans THEN <<>> ELSE <<Result(Scene, b), Notice("frame")>>)
      OBVIOUS
    <3>2. s \in Seq(Messages)
      <4>1. Result(Scene, b) \in Messages /\ Notice("frame") \in Messages
        BY CallTyped, NoticeTyped DEF Ids
      <4> QED
        BY <3>1, <4>1
    <3>3. Tail(pipe[b]) \o s \in Seq(Messages)
      BY <1>3, <3>2, ConcatProperties
    <3>4. \/ pipe' = [pipe EXCEPT ![b] = Tail(pipe[b]) \o s]
          \/ pipe' = [pipe EXCEPT ![b] = Tail(pipe[b])]
      BY <1>7, <3>1
    <3> QED
      BY <1>1, <1>3, <3>3, <3>4
  <2> QED
    BY <1>4, <1>7, <2>1, <2>2 DEF DataOK, Typed, Grown
<1> QED
  BY <1>2, <1>5, <1>6, <1>7 DEF OnMessage, Throws, DataOK

LEMMA DataStep ==
  ASSUME DataOK, CallsSuffice, OneOwner, GatewayNext \/ UNCHANGED gatewayVars
  PROVE  DataOK' /\ Grown /\ OneOwner'
<1>1. /\ calls \in Seq(Entries) /\ pipe \in [Browsers -> Seq(Messages)]
      /\ shared \subseteq Ids
  BY DEF DataOK, Typed
<1>2. CASE UNCHANGED gatewayVars
  BY <1>2 DEF gatewayVars, DataOK, Typed, Grown, OneOwner
<1>3. ASSUME NEW b \in Browsers, Quiet(b)
      PROVE  DataOK' /\ Grown /\ OneOwner'
  <2>1. UNCHANGED <<calls, pipe, given, running, events, keyed, orphans, shared>>
    BY <1>3 DEF Quiet, Connection, ClientKey, Disconnect, OnClose
  <2> QED
    BY <2>1 DEF DataOK, Typed, Grown, OneOwner
<1>4. ASSUME NEW b \in Browsers, SelectData(b)
      PROVE  DataOK' /\ Grown /\ OneOwner'
  <2>1. /\ events' \in [Browsers -> 0 .. MaxEvents]
        /\ \A c \in Browsers : events[c] > 0 => events'[c] > 0
    BY <1>4, EventTyped DEF SelectData, DataOK
  <2>2. UNCHANGED <<given, keyed, orphans>>
    BY <1>4 DEF SelectData
  <2>3. CASE /\ Call(b, <<Scene>>) /\ UNCHANGED running
             /\ Send(b, <<Notice("projectOpened"), Result(Scene, b), Notice("frame")>>)
    <3>1. calls' \in Seq(Entries) /\ shared' \subseteq Ids /\ shared \subseteq shared' /\ OneOwner'
      BY <1>1, <2>3, CallStep
    <3>2. pipe' \in [Browsers -> Seq(Messages)]
      <4>1. PICK s : s = <<Notice("projectOpened"), Result(Scene, b), Notice("frame")>>
        OBVIOUS
      <4>2. s \in Seq(Messages)
        BY <4>1, CallTyped, NoticeTyped DEF Ids
      <4> QED
        BY <1>1, <2>3, <4>1, <4>2, SendTyped
    <3> QED
      BY <2>1, <2>2, <2>3, <3>1, <3>2 DEF DataOK, Typed, Grown
  <2>4. CASE running' = FALSE /\ UNCHANGED <<calls, pipe, shared>>
    BY <2>1, <2>2, <2>4 DEF DataOK, Typed, Grown, OneOwner
  <2> QED
    BY <1>4, <2>3, <2>4 DEF SelectData, Throws
<1>5. ASSUME NEW b \in Browsers, RequestFrame(b)
      PROVE  DataOK' /\ Grown /\ OneOwner'
  <2>1. /\ events' \in [Browsers -> 0 .. MaxEvents]
        /\ \A c \in Browsers : events[c] > 0 => events'[c] > 0
    BY <1>5, EventTyped DEF RequestFrame, DataOK
  <2>2. UNCHANGED <<calls, given, keyed, orphans, shared>>
    BY <1>5 DEF RequestFrame
  <2>3. running' \in BOOLEAN
    BY <1>5 DEF RequestFrame, Throws, DataOK
  <2>4. pipe' \in [Browsers -> Seq(Messages)]
    <3>1. PICK s : s = <<Notice("frame")>>
      OBVIOUS
    <3>2. s \in Seq(Messages)
      BY <3>1, NoticeTyped
    <3>3. CASE Send(b, s)
      BY <1>1, <3>2, <3>3, SendTyped
    <3> QED
      BY <1>1, <1>5, <3>1, <3>3 DEF RequestFrame
  <2> QED
    BY <2>1, <2>2, <2>3, <2>4 DEF DataOK, Typed, Grown, OneOwner
<1>6. ASSUME NEW b \in Browsers, OnOpen(b)
      PROVE  DataOK' /\ Grown /\ OneOwner'
  <2>1. calls' \in Seq(Entries) /\ shared' \subseteq Ids /\ shared \subseteq shared' /\ OneOwner'
    BY <1>1, <1>6, CallStep DEF OnOpen
  <2>2. UNCHANGED <<given, running, events, keyed, orphans>>
    BY <1>6 DEF OnOpen
  <2>3. pipe' \in [Browsers -> Seq(Messages)]
    <3>1. PICK s : s = <<Result(Database, b), Result(Scene, b), Notice("frame")>>
      OBVIOUS
    <3>2. s \in Seq(Messages)
      BY <3>1, CallTyped, NoticeTyped DEF Ids
    <3>3. Send(b, s)
      BY <1>6, <3>1 DEF OnOpen
    <3> QED
      BY <1>1, <3>2, <3>3, SendTyped
  <2> QED
    BY <2>1, <2>2, <2>3 DEF DataOK, Typed, Grown
<1>7. ASSUME NEW b \in Browsers, ServerLearnsKey(b)
      PROVE  DataOK' /\ Grown /\ OneOwner'
  <2>1. UNCHANGED <<calls, given, running, events, shared>>
    BY <1>7 DEF ServerLearnsKey
  <2>2. keyed \subseteq Browsers /\ keyed' = keyed \cup {b} /\ orphans \subseteq keyed
    BY <1>7 DEF ServerLearnsKey, DataOK
  <2>3. CASE pipe' = [pipe EXCEPT ![b] = <<Notice("clientKey")>> \o @] /\ UNCHANGED orphans
    <3>1. <<Notice("clientKey")>> \o pipe[b] \in Seq(Messages)
      BY <1>1, NoticeFirst
    <3>2. pipe' \in [Browsers -> Seq(Messages)]
      BY <1>1, <2>3, <3>1
    <3> QED
      BY <2>1, <2>2, <2>3, <3>2 DEF DataOK, Typed, Grown, OneOwner
  <2>4. CASE \E o \in keyed \ (orphans \cup {b}) :
               /\ \E k \in 0 .. Len(pipe[o]) :
                    pipe' = [pipe EXCEPT ![b] = SubSeq(pipe[o], k + 1, Len(pipe[o])) \o @,
                                         ![o] = SubSeq(@, 1, k)]
               /\ orphans' = orphans \cup {o}
    <3>1. PICK o \in keyed \ (orphans \cup {b}) :
            /\ \E k \in 0 .. Len(pipe[o]) :
                 pipe' = [pipe EXCEPT ![b] = SubSeq(pipe[o], k + 1, Len(pipe[o])) \o @,
                                      ![o] = SubSeq(@, 1, k)]
            /\ orphans' = orphans \cup {o}
      BY <2>4
    <3>2. PICK k \in 0 .. Len(pipe[o]) :
            pipe' = [pipe EXCEPT ![b] = SubSeq(pipe[o], k + 1, Len(pipe[o])) \o @,
                                 ![o] = SubSeq(@, 1, k)]
      BY <3>1
    <3>3. pipe[o] \in Seq(Messages) /\ pipe[b] \in Seq(Messages) /\ o # b
      BY <1>1, <2>2, <3>1
    <3>4. PICK r, f : r = SubSeq(pipe[o], k + 1, Len(pipe[o])) \o pipe[b] /\ f = SubSeq(pipe[o], 1, k)
      OBVIOUS
    <3>5. r \in Seq(Messages) /\ f \in Seq(Messages)
      BY <3>3, <3>4, NumberSplit, ConcatProperties
    <3>6. pipe' = [pipe EXCEPT ![b] = r, ![o] = f]
      BY <1>1, <3>2, <3>3, <3>4
    <3>7. pipe' \in [Browsers -> Seq(Messages)]
      BY <1>1, <3>5, <3>6
    <3> QED
      BY <2>1, <2>2, <3>1, <3>7 DEF DataOK, Typed, Grown, OneOwner
  <2> QED
    BY <1>7, <2>3, <2>4 DEF ServerLearnsKey
<1>8. ASSUME NEW b \in Browsers, OnMessage(b)
      PROVE  DataOK' /\ Grown /\ OneOwner'
  BY <1>8, OnMessageTyped
<1> QED
  BY <1>2, <1>3, <1>4, <1>5, <1>6, <1>7, <1>8 DEF GatewayNext, Quiet

-----------------------------------------------------------------------------
(***************************************************************************)
(* Projects, answers and the end.                                          *)
(***************************************************************************)
\* b is told of a project only if its user, or one whose connection was taken
\* over, has acted.
TellsOfProject(s) == \E i \in DOMAIN s : s[i].kind = "projectOpened"

LEMMA OpenedAsTold ==
  OpenedByUser <=> \A b \in Browsers : TellsOfProject(pipe[b]) => Acted(b)
BY DEF OpenedByUser, TellsOfProject

LEMMA ToldInParts ==
  ASSUME NEW s \in Seq(Messages), NEW t \in Seq(Messages)
  PROVE  TellsOfProject(s \o t) => TellsOfProject(s) \/ TellsOfProject(t)
<1>1. /\ Len(s) \in Nat /\ Len(t) \in Nat /\ DOMAIN (s \o t) = 1 .. Len(s) + Len(t)
      /\ DOMAIN s = 1 .. Len(s) /\ DOMAIN t = 1 .. Len(t)
      /\ \A i \in 1 .. Len(s) : (s \o t)[i] = s[i]
      /\ \A i \in 1 .. Len(t) : (s \o t)[Len(s) + i] = t[i]
  OBVIOUS
<1>2. ASSUME NEW i \in DOMAIN (s \o t), (s \o t)[i].kind = "projectOpened"
      PROVE  TellsOfProject(s) \/ TellsOfProject(t)
  <2>1. CASE i \in 1 .. Len(s)
    BY <1>1, <1>2, <2>1 DEF TellsOfProject
  <2>2. CASE i \notin 1 .. Len(s)
    <3>1. i - Len(s) \in 1 .. Len(t) /\ i = Len(s) + (i - Len(s))
      BY <1>1, <1>2, <2>2
    <3>2. t[i - Len(s)].kind = "projectOpened"
      BY <1>1, <1>2, <3>1
    <3> QED
      BY <1>1, <3>1, <3>2 DEF TellsOfProject
  <2> QED
    BY <2>1, <2>2
<1> QED
  BY <1>2 DEF TellsOfProject

LEMMA ToldInTail ==
  ASSUME NEW s \in Seq(Messages), s # <<>>
  PROVE  TellsOfProject(Tail(s)) => TellsOfProject(s)
<1>1. /\ Len(s) \in Nat /\ DOMAIN s = 1 .. Len(s) /\ DOMAIN Tail(s) = 1 .. Len(s) - 1
      /\ \A i \in 1 .. Len(s) - 1 : Tail(s)[i] = s[i + 1] /\ i + 1 \in 1 .. Len(s)
  OBVIOUS
<1> QED
  BY <1>1 DEF TellsOfProject

LEMMA ToldInSub ==
  ASSUME NEW s \in Seq(Messages), NEW k \in 0 .. Len(s)
  PROVE  /\ TellsOfProject(SubSeq(s, 1, k)) => TellsOfProject(s)
         /\ TellsOfProject(SubSeq(s, k + 1, Len(s))) => TellsOfProject(s)
<1>1. Len(s) \in Nat /\ DOMAIN s = 1 .. Len(s)
  OBVIOUS
<1>2. /\ DOMAIN SubSeq(s, 1, k) = 1 .. k
      /\ \A i \in 1 .. k : SubSeq(s, 1, k)[i] = s[i] /\ i \in 1 .. Len(s)
  BY <1>1
<1>3. /\ DOMAIN SubSeq(s, k + 1, Len(s)) = 1 .. Len(s) - k
      /\ \A i \in 1 .. Len(s) - k :
           SubSeq(s, k + 1, Len(s))[i] = s[i + k] /\ i + k \in 1 .. Len(s)
  BY <1>1
<1>4. TellsOfProject(SubSeq(s, 1, k)) => TellsOfProject(s)
  BY <1>1, <1>2 DEF TellsOfProject
<1>5. TellsOfProject(SubSeq(s, k + 1, Len(s))) => TellsOfProject(s)
  BY <1>1, <1>3 DEF TellsOfProject
<1> QED
  BY <1>4, <1>5

\* What the server sends of its own accord tells of no project.
LEMMA AnswersTell ==
  ASSUME NEW b \in Browsers
  PROVE  /\ ~ TellsOfProject(<<>>)
         /\ ~ TellsOfProject(<<Notice("frame")>>)
         /\ ~ TellsOfProject(<<Notice("clientKey")>>)
         /\ ~ TellsOfProject(<<Result(Scene, b), Notice("frame")>>)
         /\ ~ TellsOfProject(<<Result(Database, b), Result(Scene, b), Notice("frame")>>)
<1>1. /\ Notice("frame").kind # "projectOpened" /\ Notice("clientKey").kind # "projectOpened"
      /\ Result(Scene, b).kind # "projectOpened" /\ Result(Database, b).kind # "projectOpened"
  BY DEF Notice, Result
<1>2. PICK n, k, rs, rd : /\ n = Notice("frame") /\ k = Notice("clientKey")
                          /\ rs = Result(Scene, b) /\ rd = Result(Database, b)
  OBVIOUS
<1>3. ~ TellsOfProject(<<n>>) /\ ~ TellsOfProject(<<k>>)
  BY <1>1, <1>2 DEF TellsOfProject
<1>4. ~ TellsOfProject(<<rs, n>>)
  BY <1>1, <1>2 DEF TellsOfProject
<1>5. ~ TellsOfProject(<<rd, rs, n>>)
  BY <1>1, <1>2 DEF TellsOfProject
<1>6. ~ TellsOfProject(<<>>)
  BY DEF TellsOfProject
<1> QED
  BY <1>2, <1>3, <1>4, <1>5, <1>6

LEMMA StillActed ==
  ASSUME DataOK, Grown, NEW b \in Browsers, Acted(b)
  PROVE  Acted(b)'
<1>1. \A o \in orphans : o \in Browsers /\ o \in orphans'
  BY DEF DataOK, Grown
<1> QED
  BY <1>1 DEF Acted, Grown

\* One pipe changes, by nothing that tells of a project without cause.
LEMMA OnePipeTold ==
  ASSUME DataOK, Grown, OpenedByUser, NEW b \in Browsers, NEW s,
         pipe' = [pipe EXCEPT ![b] = s],
         TellsOfProject(s) => TellsOfProject(pipe[b]) \/ Acted(b)'
  PROVE  OpenedByUser'
<1>1. ASSUME NEW c \in Browsers, TellsOfProject(pipe'[c])
      PROVE  Acted(c)'
  <2>1. CASE c = b
    <3>1. pipe'[c] = s
      BY <2>1 DEF DataOK, Typed
    <3> QED
      BY <1>1, <2>1, <3>1, OpenedAsTold, StillActed
  <2>2. CASE c # b
    <3>1. pipe'[c] = pipe[c]
      BY <2>2 DEF DataOK, Typed
    <3> QED
      BY <1>1, <3>1, OpenedAsTold, StillActed
  <2> QED
    BY <2>1, <2>2
<1> QED
  BY <1>1 DEF OpenedByUser, TellsOfProject

LEMMA SendTold ==
  ASSUME DataOK, Grown, OpenedByUser, NEW b \in Browsers, NEW s \in Seq(Messages),
         Send(b, s) \/ UNCHANGED pipe, TellsOfProject(s) => Acted(b)'
  PROVE  OpenedByUser'
<1>1. pipe \in [Browsers -> Seq(Messages)] /\ pipe[b] \in Seq(Messages)
  BY DEF DataOK, Typed
<1>2. CASE pipe' = pipe
  <2>1. pipe' = [pipe EXCEPT ![b] = pipe[b]]
    BY <1>1, <1>2
  <2> QED
    BY <2>1, OnePipeTold
<1>3. CASE pipe' = [pipe EXCEPT ![b] = @ \o s]
  <2>1. PICK r : r = pipe[b] \o s
    OBVIOUS
  <2>2. TellsOfProject(r) => TellsOfProject(pipe[b]) \/ TellsOfProject(s)
    BY <1>1, <2>1, ToldInParts
  <2>3. pipe' = [pipe EXCEPT ![b] = r]
    BY <1>3, <2>1
  <2> QED
    BY <2>2, <2>3, OnePipeTold
<1> QED
  BY <1>2, <1>3 DEF Send

LEMMA StepTold ==
  ASSUME DataOK, Grown, OpenedByUser, GatewayNext \/ UNCHANGED gatewayVars
  PROVE  OpenedByUser'
<1>1. /\ calls \in Seq(Entries) /\ pipe \in [Browsers -> Seq(Messages)]
      /\ Scene \in Ids /\ Database \in Ids
  BY DEF DataOK, Typed, Ids
<1>2. CASE UNCHANGED <<pipe, events, orphans>>
  BY <1>2 DEF OpenedByUser, Acted
<1>3. ASSUME NEW b \in Browsers, Quiet(b)
      PROVE  UNCHANGED <<pipe, events, orphans>>
  BY <1>3 DEF Quiet, Connection, ClientKey, Disconnect, OnClose
<1>4. ASSUME NEW b \in Browsers, SelectData(b)
      PROVE  OpenedByUser'
  <2>1. PICK s : s = <<Notice("projectOpened"), Result(Scene, b), Notice("frame")>>
    OBVIOUS
  <2>2. s \in Seq(Messages)
    BY <1>1, <2>1, CallTyped, NoticeTyped
  <2>3. Acted(b)'
    BY <1>4, EventTyped DEF SelectData, Acted, DataOK
  <2>4. Send(b, s) \/ UNCHANGED pipe
    BY <1>4, <2>1 DEF SelectData
  <2> QED
    BY <2>2, <2>3, <2>4, SendTold
<1>5. ASSUME NEW b \in Browsers, RequestFrame(b)
      PROVE  OpenedByUser'
  <2>1. PICK s : s = <<Notice("frame")>>
    OBVIOUS
  <2>2. s \in Seq(Messages) /\ ~ TellsOfProject(s)
    <3>1. s \in Seq(Messages)
      BY <2>1, NoticeTyped
    <3>2. ~ TellsOfProject(s)
      BY <2>1, AnswersTell
    <3> QED
      BY <3>1, <3>2
  <2>3. Send(b, s) \/ UNCHANGED pipe
    BY <1>5, <2>1 DEF RequestFrame
  <2> QED
    BY <2>2, <2>3, SendTold
<1>6. ASSUME NEW b \in Browsers, OnOpen(b)
      PROVE  OpenedByUser'
  <2>1. PICK s : s = <<Result(Database, b), Result(Scene, b), Notice("frame")>>
    OBVIOUS
  <2>2. s \in Seq(Messages) /\ ~ TellsOfProject(s)
    <3>1. s \in Seq(Messages)
      BY <1>1, <2>1, CallTyped, NoticeTyped
    <3>2. ~ TellsOfProject(s)
      BY <2>1, AnswersTell
    <3> QED
      BY <3>1, <3>2
  <2>3. Send(b, s)
    BY <1>6, <2>1 DEF OnOpen
  <2> QED
    BY <2>2, <2>3, SendTold
<1>7. ASSUME NEW b \in Browsers, ServerLearnsKey(b)
      PROVE  OpenedByUser'
  <2>1. pipe[b] \in Seq(Messages) /\ keyed \subseteq Browsers
    BY <1>1 DEF DataOK
  <2>2. CASE pipe' = [pipe EXCEPT ![b] = <<Notice("clientKey")>> \o @]
    <3>1. PICK s, r : s = <<Notice("clientKey")>> /\ r = s \o pipe[b]
      OBVIOUS
    <3>2. s \in Seq(Messages) /\ ~ TellsOfProject(s)
      <4>1. s \in Seq(Messages)
        BY <3>1, NoticeTyped
      <4>2. ~ TellsOfProject(s)
        BY <3>1, AnswersTell
      <4> QED
        BY <4>1, <4>2
    <3>3. TellsOfProject(r) => TellsOfProject(pipe[b])
      BY <2>1, <3>1, <3>2, ToldInParts
    <3>4. pipe' = [pipe EXCEPT ![b] = r]
      BY <2>2, <3>1
    <3> QED
      BY <3>3, <3>4, OnePipeTold
  <2>3. CASE \E o \in keyed \ (orphans \cup {b}) :
               /\ \E k \in 0 .. Len(pipe[o]) :
                    pipe' = [pipe EXCEPT ![b] = SubSeq(pipe[o], k + 1, Len(pipe[o])) \o @,
                                         ![o] = SubSeq(@, 1, k)]
               /\ orphans' = orphans \cup {o}
    <3>1. PICK o \in keyed \ (orphans \cup {b}) :
            /\ \E k \in 0 .. Len(pipe[o]) :
                 pipe' = [pipe EXCEPT ![b] = SubSeq(pipe[o], k + 1, Len(pipe[o])) \o @,
                                      ![o] = SubSeq(@, 1, k)]
            /\ orphans' = orphans \cup {o}
      BY <2>3
    <3>2. PICK k \in 0 .. Len(pipe[o]) :
            pipe' = [pipe EXCEPT ![b] = SubSeq(pipe[o], k + 1, Len(pipe[o])) \o @,
                                 ![o] = SubSeq(@, 1, k)]
      BY <3>1
    <3>3. pipe[o] \in Seq(Messages) /\ o \in Browsers /\ o # b
      BY <1>1, <2>1, <3>1
    <3>4. PICK t, f : t = SubSeq(pipe[o], k + 1, Len(pipe[o])) /\ f = SubSeq(pipe[o], 1, k)
      OBVIOUS
    <3>5. t \in Seq(Messages)
      BY <3>3, <3>4, NumberSplit
    <3>6. /\ TellsOfProject(t) => TellsOfProject(pipe[o])
          /\ TellsOfProject(f) => TellsOfProject(pipe[o])
      BY <3>3, <3>4, ToldInSub
    <3>7. TellsOfProject(t \o pipe[b]) => TellsOfProject(t) \/ TellsOfProject(pipe[b])
      BY <2>1, <3>5, ToldInParts
    <3>8. UNCHANGED events
      BY <1>7 DEF ServerLearnsKey
    \* Who took over a connection has what its user asked for.
    <3>9. Acted(o) => Acted(b)' /\ Acted(o)'
      <4>1. ASSUME events[o] > 0
            PROVE  Acted(b)' /\ Acted(o)'
        BY <3>1, <3>8, <4>1 DEF Acted
      <4>2. ASSUME \E e \in orphans : events[e] > 0
            PROVE  Acted(b)' /\ Acted(o)'
        BY <3>1, <3>8, <4>2 DEF Acted
      <4> QED
        BY <4>1, <4>2 DEF Acted
    <3>10. ASSUME NEW c \in Browsers, TellsOfProject(pipe'[c])
           PROVE  Acted(c)'
      <4>1. CASE c = b
        <5>1. pipe'[c] = t \o pipe[b]
          BY <1>1, <3>2, <3>3, <3>4, <4>1
        <5>2. TellsOfProject(pipe[o]) \/ TellsOfProject(pipe[b])
          BY <3>6, <3>7, <3>10, <5>1
        <5> QED
          BY <3>3, <3>9, <4>1, <5>2, OpenedAsTold, StillActed
      <4>2. CASE c = o
        <5>1. pipe'[c] = f
          BY <1>1, <3>2, <3>3, <3>4, <4>2
        <5> QED
          BY <3>3, <3>6, <3>9, <3>10, <4>2, <5>1, OpenedAsTold
      <4>3. CASE c # b /\ c # o
        <5>1. pipe'[c] = pipe[c]
          BY <1>1, <3>2, <4>3
        <5> QED
          BY <3>10, <5>1, OpenedAsTold, StillActed
      <4> QED
        BY <4>1, <4>2, <4>3
    <3> QED
      BY <3>10 DEF OpenedByUser, TellsOfProject
  <2> QED
    BY <1>7, <2>2, <2>3 DEF ServerLearnsKey
<1>8. ASSUME NEW b \in Browsers, OnMessage(b)
      PROVE  OpenedByUser'
  <2>1. pipe[b] \in Seq(Messages) /\ pipe[b] # <<>>
    BY <1>1, <1>8 DEF OnMessage
  <2>2. PICK t, s : /\ t = Tail(pipe[b])
                    /\ s = (IF b \in orphans THEN <<>>
                            ELSE <<Result(Scene, b), Notice("frame")>>)
    OBVIOUS
  <2>3. /\ t \in Seq(Messages) /\ s \in Seq(Messages)
        /\ ~ TellsOfProject(s) /\ (TellsOfProject(t) => TellsOfProject(pipe[b]))
    <3>1. Result(Scene, b) \in Messages /\ Notice("frame") \in Messages
      BY <1>1, CallTyped, NoticeTyped
    <3>2. t \in Seq(Messages) /\ s \in Seq(Messages)
      BY <2>1, <2>2, <3>1
    <3> QED
      BY <2>1, <2>2, <3>2, AnswersTell, ToldInTail
  <2>4. CASE pipe' = [pipe EXCEPT ![b] = Tail(@)]
    <3>1. pipe' = [pipe EXCEPT ![b] = t]
      BY <2>2, <2>4
    <3> QED
      BY <2>3, <3>1, OnePipeTold
  <2>5. CASE pipe' = [pipe EXCEPT ![b] = Tail(@) \o
                        (IF b \in orphans THEN <<>>
                         ELSE <<Result(Scene, b), Notice("frame")>>)]
    <3>1. PICK r : r = t \o s
      OBVIOUS
    <3>2. TellsOfProject(r) => TellsOfProject(pipe[b])
      BY <2>3, <3>1, ToldInParts
    <3>3. pipe' = [pipe EXCEPT ![b] = r]
      BY <2>2, <2>5, <3>1
    <3> QED
      BY <3>2, <3>3, OnePipeTold
  <2> QED
    BY <1>8, <2>4, <2>5 DEF OnMessage
<1> QED
  BY <1>2, <1>3, <1>4, <1>5, <1>6, <1>7, <1>8 DEF GatewayNext, Quiet, gatewayVars

LEMMA StepMixes ==
  ASSUME DataOK, Grown, CallsSuffice, OneOwner, OnlySharedIdsMix,
         GatewayNext \/ UNCHANGED gatewayVars
  PROVE  OnlySharedIdsMix'
<1>1. CASE UNCHANGED given
  BY <1>1 DEF OnlySharedIdsMix, Grown
<1>2. ASSUME NEW b \in Browsers, OnMessage(b), Head(pipe[b]).kind = "result",
             CallCheck(Head(pipe[b]))
      PROVE  OnlySharedIdsMix'
  <2>1. PICK m : m = Head(pipe[b])
    OBVIOUS
  <2>2. Typed /\ calls \in Seq(Entries) /\ pipe[b] # <<>>
    BY <1>2 DEF DataOK, Typed, OnMessage
  <2>3. PICK i \in DOMAIN calls :
          /\ calls[i].id = m.id
          /\ given' = [given EXCEPT ![calls[i].owner] = @ \cup {[id |-> m.id, by |-> m.by]}]
    BY <1>2, <2>1, <2>2, AnswerStep
  <2>4. m.id \notin shared => calls[i].owner = m.by
    BY <1>2, <2>1, <2>2, <2>3, OwnCallFound
  <2>5. ASSUME NEW c \in Browsers, NEW g \in given'[c], g.id \notin shared'
        PROVE  g.by = c
    <3>1. g.id \notin shared
      BY <2>5 DEF Grown
    <3>2. CASE g \in given[c]
      BY <3>1, <3>2 DEF OnlySharedIdsMix
    <3>3. CASE c = calls[i].owner /\ g = [id |-> m.id, by |-> m.by]
      BY <2>4, <3>1, <3>3
    <3> QED
      BY <2>3, <2>5, <3>2, <3>3 DEF DataOK
  <2> QED
    BY <2>5 DEF OnlySharedIdsMix
<1>3. ASSUME NEW b \in Browsers, OnMessage(b)
      PROVE  \/ UNCHANGED given
             \/ Head(pipe[b]).kind = "result" /\ CallCheck(Head(pipe[b]))
  BY <1>3 DEF OnMessage
<1>4. ASSUME NEW b \in Browsers,
             Quiet(b) \/ SelectData(b) \/ RequestFrame(b) \/ OnOpen(b) \/ ServerLearnsKey(b)
      PROVE  UNCHANGED given
  BY <1>4 DEF Quiet, Connection, ClientKey, Disconnect, OnClose, SelectData, RequestFrame,
              OnOpen, ServerLearnsKey
<1> QED
  BY <1>1, <1>2, <1>3, <1>4 DEF GatewayNext, Quiet, gatewayVars

LEMMA StepEnds ==
  ASSUME SocketsOK, DataOK, OpenedByUser, OnlyUsersEnd,
         GatewayNext \/ UNCHANGED gatewayVars
  PROVE  OnlyUsersEnd'
<1>1. CASE UNCHANGED gatewayVars
  BY <1>1 DEF OnlyUsersEnd, gatewayVars
<1>2. CASE running'
  BY <1>2 DEF OnlyUsersEnd
<1>3. ASSUME NEW b \in Browsers, SelectData(b) \/ RequestFrame(b), ~ running', running
      PROVE  OnlyUsersEnd'
  <2>1. ws[b] # "open" /\ UNCHANGED ws /\ Event(b)
    BY <1>3 DEF SelectData, RequestFrame
  <2>2. events'[b] > 0
    BY <2>1, EventTyped DEF DataOK
  <2> QED
    BY <2>1, <2>2 DEF OnlyUsersEnd
<1>4. ASSUME NEW b \in Browsers, OnMessage(b), ~ running', running
      PROVE  OnlyUsersEnd'
  <2>1. /\ ws[b] = "closing" /\ pipe[b] # <<>> /\ Head(pipe[b]).kind = "projectOpened"
        /\ UNCHANGED <<ws, events, orphans>>
    BY <1>4 DEF OnMessage
  <2>2. 1 \in DOMAIN pipe[b] /\ pipe[b][1].kind = "projectOpened"
    <3>1. pipe[b] \in Seq(Messages)
      BY DEF DataOK, Typed
    <3> QED
      BY <2>1, <3>1
  <2>3. Acted(b)
    BY <2>2 DEF OpenedByUser
  <2> QED
    BY <2>1, <2>3 DEF OnlyUsersEnd, Acted
<1>5. ASSUME NEW b \in Browsers, Quiet(b) \/ OnOpen(b) \/ ServerLearnsKey(b)
      PROVE  running' = running
  BY <1>5 DEF Quiet, Connection, ClientKey, Disconnect, OnClose, OnOpen, ServerLearnsKey
<1> QED
  BY <1>1, <1>2, <1>3, <1>4, <1>5 DEF GatewayNext, Quiet

-----------------------------------------------------------------------------
(***************************************************************************)
(* The invariant holds, and what follows from it.                          *)
(***************************************************************************)
LEMMA InitSuffices ==
  ASSUME GatewayInit, NEW id, NEW A
  PROVE  Suffices(id, A)
<1>1. calls = <<>> /\ \A b \in Browsers : pipe[b] = <<>>
  BY DEF GatewayInit
<1>2. \A b \in Browsers : Hits(pipe[b], OfAnswer(id, A)) = {}
  BY <1>1 DEF Hits
<1>3. Held(pipe, OfAnswer(id, A)) = {}
  BY <1>2 DEF Held
<1>4. PICK H : H = Held(pipe, OfAnswer(id, A))
  OBVIOUS
<1>5. IsFiniteSet(H) /\ Cardinality(H) = 0
  BY <1>3, <1>4, FS_EmptySet
<1>6. Number(calls, OfCall(id, A)) = 0
  BY <1>1, NumberEmpty
<1>7. Cardinality(H) <= Number(calls, OfCall(id, A))
  BY <1>5, <1>6
<1> QED
  BY <1>4, <1>5, <1>7 DEF Suffices, Enough

LEMMA GatewayInitInv ==
  GatewayInit => GatewayInv
<1> SUFFICES ASSUME GatewayInit PROVE GatewayInv
  OBVIOUS
<1>1. 0 \in 0 .. MaxEvents
  BY GatewayAssumption
<1>2. GatewayTypeOK /\ NoEngineBefore
  BY <1>1 DEF GatewayInit, GatewayTypeOK, NoEngineBefore
<1>3. CallsSuffice
  BY InitSuffices DEF CallsSuffice
<1>4. OneOwner
  BY DEF GatewayInit, OneOwner, Owners
<1>5. OpenedByUser /\ OnlySharedIdsMix /\ OnlyUsersEnd
  BY DEF GatewayInit, OpenedByUser, OnlySharedIdsMix, OnlyUsersEnd
<1> QED
  BY <1>2, <1>3, <1>4, <1>5 DEF GatewayInv

LEMMA GatewayStepInv ==
  GatewayInv /\ [GatewayNext]_gatewayVars => GatewayInv'
<1> SUFFICES ASSUME GatewayInv, GatewayNext \/ UNCHANGED gatewayVars
             PROVE  GatewayInv'
  OBVIOUS
<1>1. SocketsOK /\ DataOK
  BY GatewayTypeParts DEF GatewayInv
<1>2. CallsSuffice /\ OneOwner /\ OpenedByUser /\ OnlySharedIdsMix /\ OnlyUsersEnd
  BY DEF GatewayInv
<1>3. DataOK' /\ Grown /\ OneOwner'
  BY <1>1, <1>2, DataStep
<1>4. GatewayTypeOK' /\ NoEngineBefore'
  <2>1. SocketsOK'
    BY <1>1, SocketsStep
  <2> QED
    BY <1>3, <2>1 DEF GatewayTypeOK, SocketsOK, DataOK, Typed
<1>5. CallsSuffice'
  <2>1. Typed /\ keyed \subseteq Browsers /\ shared \subseteq shared'
    BY <1>1, <1>3 DEF DataOK, Grown
  <2> QED
    BY <1>2, <2>1, StepCallsSuffice
<1>6. OpenedByUser'
  BY <1>1, <1>2, <1>3, StepTold
<1>7. OnlySharedIdsMix'
  BY <1>1, <1>2, <1>3, StepMixes
<1>8. OnlyUsersEnd'
  BY <1>1, <1>2, StepEnds
<1> QED
  BY <1>3, <1>4, <1>5, <1>6, <1>7, <1>8 DEF GatewayInv

LEMMA GatewayInvariant == GatewaySpec => []GatewayInv
BY GatewayInitInv, GatewayStepInv, PTL DEF GatewaySpec

\* The variables of the gateway keep their types: sockets and engines fit
\* together, and only calls and answers of browsers are in the list and pipes.
THEOREM GatewayTypeCorrect == GatewaySpec => []GatewayTypeOK
<1>1. GatewayInv => GatewayTypeOK
  BY DEF GatewayInv
<1> QED
  BY <1>1, GatewayInvariant, PTL

\* Every answer the server still owes finds a call in the process's one list:
\* with any number of engines, redirected answers and takeovers, CallCheck
\* never drops an answer as unknown.
THEOREM NoAnswerIsDropped == GatewaySpec => []AnswersFindCalls
<1>1. GatewayInv => AnswersFindCalls
  <2> SUFFICES ASSUME GatewayInv, NEW id \in Ids
               PROVE  Cardinality(CallsWith(id)) >= Cardinality(AllDue(id))
    BY DEF AnswersFindCalls
  <2>1. pipe \in [Browsers -> Seq(Messages)] /\ calls \in Seq(Entries)
    BY DEF GatewayInv, GatewayTypeOK
  <2>2. PICK G, C : G = OfAnswer(id, Browsers) /\ C = OfCall(id, Browsers)
    OBVIOUS
  <2>3. CallsWith(id) = Hits(calls, C)
    <3>1. ASSUME NEW i \in DOMAIN calls
          PROVE  calls[i].id = id <=> calls[i] \in C
      <4>1. calls[i] \in Entries
        BY <2>1
      <4>2. calls[i].owner \in Browsers /\ calls[i] = Entry(calls[i].owner, calls[i].id)
        BY <4>1, EntryTyped
      <4>3. \A a : Entry(a, id).id = id
        BY DEF Entry
      <4> QED
        BY <2>2, <4>2, <4>3 DEF OfCall
    <3> QED
      BY <3>1 DEF CallsWith, Hits
  <2>4. \A b \in Browsers : Due(b, id) = Hits(pipe[b], G)
    <3> SUFFICES ASSUME NEW b \in Browsers
                 PROVE  Due(b, id) = Hits(pipe[b], G)
      OBVIOUS
    <3>1. ASSUME NEW i \in DOMAIN pipe[b]
          PROVE  pipe[b][i].kind = "result" /\ pipe[b][i].id = id <=> pipe[b][i] \in G
      <4>1. PICK m : m = pipe[b][i]
        OBVIOUS
      <4>2. m \in Messages
        BY <2>1, <4>1
      <4>3. m.kind = "result" /\ m.id = id => m \in G
        BY <2>2, <4>2, MessageTyped DEF OfAnswer
      <4>4. m \in G => m.kind = "result" /\ m.id = id
        BY <2>2 DEF OfAnswer, Result
      <4> QED
        BY <4>1, <4>3, <4>4
    <3> QED
      BY <3>1 DEF Due, Hits
  <2>5. AllDue(id) = Held(pipe, G)
    BY <2>4 DEF AllDue, Held
  <2>6. Enough(pipe, calls, id, Browsers)
    BY DEF GatewayInv, CallsSuffice, Suffices
  <2>7. IsFiniteSet(Held(pipe, G)) /\ Cardinality(Held(pipe, G)) <= Number(calls, C)
    BY <2>2, <2>6 DEF Enough
  <2>8. Cardinality(Held(pipe, G)) \in Nat /\ Number(calls, C) \in Nat
    BY <2>1, <2>7, NumberTyped, FS_CardinalityType
  <2>9. Number(calls, C) >= Cardinality(Held(pipe, G))
    BY <2>7, <2>8
  <2> QED
    BY <2>3, <2>5, <2>9 DEF Number
<1> QED
  BY <1>1, GatewayInvariant, PTL

\* Answers go astray only between engines that have had calls with one id in
\* the list at the same time, however many browsers there are.
THEOREM MixedBySharing == GatewaySpec => []OnlySharedIdsMix
<1>1. GatewayInv => OnlySharedIdsMix
  BY DEF GatewayInv
<1> QED
  BY <1>1, GatewayInvariant, PTL

\* What ends the process is an event of a user whose connection is not open,
\* or a project that a user opened; connecting and disconnecting never do.
THEOREM EndedByUsers == GatewaySpec => []OnlyUsersEnd
<1>1. GatewayInv => OnlyUsersEnd
  BY DEF GatewayInv
<1> QED
  BY <1>1, GatewayInvariant, PTL
=============================================================================
