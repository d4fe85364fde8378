--------------------------- MODULE GraphSync_proofs ---------------------------
(***************************************************************************)
(* Theorems about GraphSync, for any clients, entities, factories, names   *)
(* and calls.                                                              *)
(***************************************************************************)
EXTENDS GraphSync, FiniteSetTheorems, SequenceTheorems, WellFoundedInduction, TLAPS

-----------------------------------------------------------------------------
(* Natural numbers.                                                        *)

(* What holds at 0 and passes from each number to the next holds at all.   *)
LEMMA Induction ==
  ASSUME NEW S, 0 \in S, \A n \in Nat : n \in S => n + 1 \in S
  PROVE  Nat \subseteq S
<1> SUFFICES ASSUME Nat \ S # {} PROVE FALSE
  OBVIOUS
<1> DEFINE R == OpToRel(<, Nat)
<1>1. IsWellFoundedOn(R, Nat)
  BY NatLessThanWellFounded
<1>2. \A x, y \in Nat : <<y, x>> \in R <=> y < x
  BY DEF OpToRel
<1> HIDE DEF R
<1>3. \E x \in Nat \ S : \A y \in Nat \ S : ~(<<y, x>> \in R)
  BY <1>1, WFMin
<1>4. PICK x \in Nat \ S : \A y \in Nat \ S : ~(y < x)
  BY <1>2, <1>3
<1>5. x # 0 /\ x - 1 \in Nat /\ x - 1 < x /\ (x - 1) + 1 = x
  BY <1>4
<1> QED
  BY <1>4, <1>5

-----------------------------------------------------------------------------
(* Queues.                                                                 *)

(* The messages in a queue.                                                *)
Els(q) == {q[i] : i \in 1..Len(q)}

(* A kind of message with the given item.                                  *)
Is(m, k, e) == m[1] = k /\ m[2] = e

(* A queue has at most one of them.                                        *)
Once(q, k, e) == \A i, j \in 1..Len(q) : Is(q[i], k, e) /\ Is(q[j], k, e) => i = j

LEMMA ElsOf ==
  ASSUME NEW S, NEW q \in Seq(S)
  PROVE  /\ Els(q) \subseteq S
         /\ \A i \in 1..Len(q) : q[i] \in Els(q)
         /\ q # <<>> => q[1] = Head(q) /\ Len(q) \in Nat \ {0}
         /\ Len(q) \in Nat
  BY EmptySeq, ElementOfSeq, LenProperties DEF Els

LEMMA ElsConcat ==
  ASSUME NEW S, NEW q \in Seq(S), NEW s \in Seq(S)
  PROVE  Els(q \o s) = Els(q) \cup Els(s) /\ q \o s \in Seq(S)
<1>1. /\ q \o s \in Seq(S) /\ Len(q \o s) = Len(q) + Len(s)
      /\ \A i \in 1..(Len(q) + Len(s)) :
           (q \o s)[i] = IF i <= Len(q) THEN q[i] ELSE s[i - Len(q)]
      /\ Len(q) \in Nat /\ Len(s) \in Nat
  BY ConcatProperties, LenProperties
<1>2. ASSUME NEW i \in 1..(Len(q) + Len(s))
      PROVE  (q \o s)[i] \in Els(q) \cup Els(s)
  <2>1. CASE i <= Len(q)
    <3>1. i \in 1..Len(q)
      BY <1>1, <2>1
    <3> QED
      BY <1>1, <2>1, <3>1 DEF Els
  <2>2. CASE ~(i <= Len(q))
    <3>1. i - Len(q) \in 1..Len(s)
      BY <1>1, <2>2
    <3> QED
      BY <1>1, <2>2, <3>1 DEF Els
  <2> QED
    BY <2>1, <2>2
<1>3. ASSUME NEW i \in 1..Len(q) PROVE q[i] \in Els(q \o s)
  <2>1. i \in 1..(Len(q) + Len(s)) /\ i <= Len(q)
    BY <1>1
  <2> QED
    BY <1>1, <2>1 DEF Els
<1>4. ASSUME NEW i \in 1..Len(s) PROVE s[i] \in Els(q \o s)
  <2>1. i + Len(q) \in 1..(Len(q) + Len(s)) /\ ~(i + Len(q) <= Len(q))
        /\ (i + Len(q)) - Len(q) = i
    BY <1>1
  <2> QED
    BY <1>1, <2>1 DEF Els
<1>5. Els(q \o s) \subseteq Els(q) \cup Els(s)
  BY <1>1, <1>2 DEF Els
<1>6. Els(q) \subseteq Els(q \o s)
  BY <1>3 DEF Els
<1>7. Els(s) \subseteq Els(q \o s)
  BY <1>4 DEF Els
<1> QED
  BY <1>1, <1>5, <1>6, <1>7

LEMMA TailOf ==
  ASSUME NEW S, NEW q \in Seq(S), q # <<>>
  PROVE  /\ Tail(q) \in Seq(S) /\ Len(Tail(q)) = Len(q) - 1 /\ Len(q) \in Nat \ {0}
         /\ \A i \in 1..(Len(q) - 1) : Tail(q)[i] = q[i + 1]
         /\ Head(q) = q[1]
  BY HeadTailProperties, EmptySeq, ElsOf

LEMMA ElsTail ==
  ASSUME NEW S, NEW q \in Seq(S), q # <<>>
  PROVE  /\ Tail(q) \in Seq(S)
         /\ Els(q) = Els(Tail(q)) \cup {Head(q)}
         /\ Els(Tail(q)) \subseteq Els(q) /\ Head(q) \in Els(q) /\ Head(q) \in S
<1> DEFINE n == Len(q)
<1>1. /\ Tail(q) \in Seq(S) /\ Len(Tail(q)) = n - 1 /\ n \in Nat \ {0}
      /\ \A i \in 1..(n - 1) : Tail(q)[i] = q[i + 1]
      /\ Head(q) = q[1]
  BY TailOf
<1>2. ASSUME NEW i \in 1..(n - 1) PROVE Tail(q)[i] \in Els(q)
  <2>1. i + 1 \in 1..n
    BY <1>1
  <2> QED
    BY <1>1, <2>1 DEF Els
<1>3. Els(Tail(q)) \subseteq Els(q)
  BY <1>1, <1>2 DEF Els
<1>4. Head(q) \in Els(q) /\ Head(q) \in S
  <2>1. 1 \in 1..n
    BY <1>1
  <2> QED
    BY <1>1, <2>1, ElementOfSeq DEF Els
<1>5. ASSUME NEW i \in 1..n PROVE q[i] \in Els(Tail(q)) \cup {Head(q)}
  <2>1. CASE i = 1
    BY <1>1, <2>1
  <2>2. CASE i # 1
    <3>1. i - 1 \in 1..(n - 1) /\ (i - 1) + 1 = i
      BY <1>1, <2>2
    <3>2. Tail(q)[i - 1] = q[i]
      BY <1>1, <3>1
    <3>3. Tail(q)[i - 1] \in Els(Tail(q))
      BY <1>1, <3>1 DEF Els
    <3> QED
      BY <3>2, <3>3
  <2> QED
    BY <2>1, <2>2
<1>6. Els(q) \subseteq Els(Tail(q)) \cup {Head(q)}
  BY <1>5 DEF Els
<1> QED
  BY <1>1, <1>3, <1>4, <1>6

(* Short queues.                                                           *)
LEMMA ElsShort ==
  /\ Els(<<>>) = {}
  /\ \A m : Els(<<m>>) = {m}
  /\ \A m, n : Els(<<m, n>>) = {m, n}
<1>1. Els(<<>>) = {}
  BY DEF Els
<1>2. ASSUME NEW m PROVE Els(<<m>>) = {m}
  <2>1. Len(<<m>>) = 1 /\ 1..1 = {1} /\ <<m>>[1] = m
    OBVIOUS
  <2> QED
    BY <2>1 DEF Els
<1>3. ASSUME NEW m, NEW n PROVE Els(<<m, n>>) = {m, n}
  <2>1. Len(<<m, n>>) = 2 /\ 1..2 = {1, 2} /\ <<m, n>>[1] = m /\ <<m, n>>[2] = n
    OBVIOUS
  <2> QED
    BY <2>1 DEF Els
<1> QED
  BY <1>1, <1>2, <1>3

LEMMA OnceTail ==
  ASSUME NEW S, NEW q \in Seq(S), q # <<>>, NEW k, NEW e, Once(q, k, e)
  PROVE  /\ Once(Tail(q), k, e)
         /\ Is(Head(q), k, e) => \A m \in Els(Tail(q)) : ~Is(m, k, e)
<1> DEFINE n == Len(q)
<1>1. /\ Len(Tail(q)) = n - 1 /\ n \in Nat \ {0}
      /\ \A i \in 1..(n - 1) : Tail(q)[i] = q[i + 1]
      /\ Head(q) = q[1]
  BY TailOf
<1>2. \A i \in 1..(n - 1) : i + 1 \in 1..n /\ i + 1 # 1 /\ 1 \in 1..n
  BY <1>1
<1>3. ASSUME NEW i \in 1..(n - 1), NEW j \in 1..(n - 1), Is(Tail(q)[i], k, e), Is(Tail(q)[j], k, e)
      PROVE  i = j
  <2>1. i + 1 = j + 1
    BY <1>1, <1>2, <1>3 DEF Once
  <2> QED
    BY <2>1
<1>4. ASSUME Is(Head(q), k, e), NEW i \in 1..(n - 1) PROVE ~Is(Tail(q)[i], k, e)
  BY <1>1, <1>2, <1>4 DEF Once
<1> QED
  BY <1>1, <1>3, <1>4 DEF Once, Els

LEMMA OnceConcat ==
  ASSUME NEW S, NEW q \in Seq(S), NEW s \in Seq(S), NEW k, NEW e,
         \/ Once(q, k, e) /\ (\A m \in Els(s) : ~Is(m, k, e))
         \/ Once(s, k, e) /\ (\A m \in Els(q) : ~Is(m, k, e))
  PROVE  Once(q \o s, k, e)
<1>1. /\ Len(q \o s) = Len(q) + Len(s)
      /\ \A i \in 1..(Len(q) + Len(s)) :
           (q \o s)[i] = IF i <= Len(q) THEN q[i] ELSE s[i - Len(q)]
      /\ Len(q) \in Nat /\ Len(s) \in Nat
  BY ConcatProperties, LenProperties
<1>2. \A i \in 1..(Len(q) + Len(s)) :
        /\ i <= Len(q) => i \in 1..Len(q)
        /\ ~(i <= Len(q)) => i - Len(q) \in 1..Len(s)
  BY <1>1
<1>3. /\ \A i \in 1..Len(q) : q[i] \in Els(q)
      /\ \A i \in 1..Len(s) : s[i] \in Els(s)
  BY DEF Els
<1>4. ASSUME NEW i \in 1..(Len(q) + Len(s)), NEW j \in 1..(Len(q) + Len(s)),
             Is((q \o s)[i], k, e), Is((q \o s)[j], k, e)
      PROVE  i = j
  <2>1. CASE Once(q, k, e) /\ (\A m \in Els(s) : ~Is(m, k, e))
    <3>1. i <= Len(q) /\ j <= Len(q)
      BY <1>1, <1>2, <1>3, <1>4, <2>1
    <3> QED
      BY <1>1, <1>2, <1>4, <2>1, <3>1 DEF Once
  <2>2. CASE Once(s, k, e) /\ (\A m \in Els(q) : ~Is(m, k, e))
    <3>1. ~(i <= Len(q)) /\ ~(j <= Len(q))
      BY <1>1, <1>2, <1>3, <1>4, <2>2
    <3>2. i - Len(q) = j - Len(q)
      BY <1>1, <1>2, <1>4, <2>2, <3>1 DEF Once
    <3> QED
      BY <1>1, <3>2
  <2> QED
    BY <2>1, <2>2
<1> QED
  BY <1>1, <1>4 DEF Once

(* SetToSeq lists the elements of a finite set, each of them once.         *)
LEMMA SetToSeqLists ==
  ASSUME NEW S, IsFiniteSet(S)
  PROVE  /\ SetToSeq(S) \in Seq(S) /\ Els(SetToSeq(S)) = S
         /\ \A i, j \in 1..Len(SetToSeq(S)) : SetToSeq(S)[i] = SetToSeq(S)[j] => i = j
<1> DEFINE n == Cardinality(S)
           s == SetToSeq(S)
<1>1. n \in Nat /\ ExistsBijection(1..n, S)
  BY FS_CardinalityType
<1>2. PICK b \in [1..n -> S] : IsInjective(b)
  BY <1>1 DEF ExistsBijection, Bijection, Injection
<1>3. s \in [1..n -> S] /\ IsInjective(s)
  BY <1>2 DEF SetToSeq
<1>4. s \in Seq(S) /\ Len(s) = n
  BY <1>1, <1>3
<1>5. s \in Injection(1..n, S)
  BY <1>3 DEF Injection
<1>6. IsFiniteSet(1..n) /\ Cardinality(1..n) = n
  BY <1>1, FS_Interval
<1>7. s \in Surjection(1..n, S)
  BY <1>5, <1>6, FS_Injection
<1>8. \A x \in S : \E i \in 1..n : s[i] = x
  BY <1>7 DEF Surjection
<1>9. \A i, j \in 1..n : s[i] = s[j] => i = j
  BY <1>3 DEF IsInjective
<1> HIDE DEF s, n
<1>10. \A i \in 1..n : s[i] \in S
  BY <1>3
<1>11. Els(s) = S
  BY <1>4, <1>8, <1>10 DEF Els
<1> QED
  BY <1>4, <1>9, <1>11 DEF s

-----------------------------------------------------------------------------
(* Messages.                                                               *)

Ups ==
  {<<"join">>, <<"sync">>, <<"leave">>}
    \cup ({"make", "made", "unmade"} \X Creatables)
    \cup ({"create", "destroy"} \X Entities \X (1..MaxVersion))
    \cup ({"update"} \X Entities \X (1..(MaxVersion - 1)))

Downs ==
  {<<"joined">>, <<"synced">>, <<"refused">>}
    \cup ({"left"} \X Clients) \cup ({"ok"} \X Entities)
    \cup ({"make", "ack", "error", "empty"} \X Creatables)
    \cup ({"create"} \X Objects \X (1..MaxVersion))
    \cup ({"destroy"} \X Entities \X (1..MaxVersion))
    \cup ({"update"} \X Entities \X (1..(MaxVersion - 1)))

(* The messages that change what is known of an object.                    *)
Changes == {"create", "update", "destroy"}
About(m, e) == m[1] \in Changes /\ m[2] = e

LEMMA UpKinds ==
  ASSUME NEW m \in Ups
  PROVE  /\ m[1] = "join" => m = <<"join">>
         /\ m[1] \in {"make", "made", "unmade"} => m[2] \in Creatables /\ m = <<m[1], m[2]>>
         /\ m[1] \in Changes => m[2] \in Entities /\ m[3] \in 1..MaxVersion
         /\ m[1] = "update" => m[3] \in 1..(MaxVersion - 1)
         /\ m[1] \in {"update", "destroy"} => m \in Downs
<1>1. CASE m \in {<<"join">>, <<"sync">>, <<"leave">>}
  BY <1>1 DEF Changes
<1>2. CASE m \in {"make", "made", "unmade"} \X Creatables
  BY <1>2 DEF Changes
<1>3. CASE m \in {"create", "destroy"} \X Entities \X (1..MaxVersion)
  BY <1>3 DEF Changes, Downs
<1>4. CASE m \in {"update"} \X Entities \X (1..(MaxVersion - 1))
  <2>1. m[3] \in 1..MaxVersion
    BY <1>4, GraphAssumption
  <2> QED
    BY <1>4, <2>1 DEF Changes, Downs
<1> QED
  BY <1>1, <1>2, <1>3, <1>4 DEF Ups

LEMMA DownKinds ==
  ASSUME NEW m \in Downs
  PROVE  /\ m[1] = "joined" => m = <<"joined">>
         /\ m[1] = "synced" => m = <<"synced">>
         /\ m[1] = "left" => m[2] \in Clients /\ m = <<"left", m[2]>>
         /\ m[1] = "ok" => m[2] \in Entities
         /\ m[1] \in {"make", "ack", "error", "empty"} =>
              m[2] \in Creatables /\ m = <<m[1], m[2]>>
         /\ m[1] = "create" => m[2] \in Objects
         /\ m[1] \in {"update", "destroy"} => m[2] \in Entities
         /\ m[1] \in Changes => Len(m) = 3 /\ m[3] \in 1..MaxVersion
         /\ m[1] = "update" => m[3] \in 1..(MaxVersion - 1)
<1>1. CASE m \in {<<"joined">>, <<"synced">>, <<"refused">>}
  BY <1>1 DEF Changes
<1>2. CASE m \in {"left"} \X Clients
  BY <1>2 DEF Changes
<1>3. CASE m \in {"ok"} \X Entities
  BY <1>3 DEF Changes
<1>4. CASE m \in {"make", "ack", "error", "empty"} \X Creatables
  BY <1>4 DEF Changes
<1>5. CASE m \in {"create"} \X Objects \X (1..MaxVersion)
  <2>1. m = <<m[1], m[2], m[3]>> /\ Len(m) = 3
    BY <1>5
  <2> QED
    BY <1>5, <2>1 DEF Changes
<1>6. CASE m \in {"destroy"} \X Entities \X (1..MaxVersion)
  <2>1. m = <<m[1], m[2], m[3]>> /\ Len(m) = 3
    BY <1>6
  <2> QED
    BY <1>6, <2>1 DEF Changes
<1>7. CASE m \in {"update"} \X Entities \X (1..(MaxVersion - 1))
  <2>1. m = <<m[1], m[2], m[3]>> /\ Len(m) = 3
    BY <1>7
  <2>2. m[3] \in 1..MaxVersion
    BY <1>7, GraphAssumption
  <2> QED
    BY <1>7, <2>1, <2>2 DEF Changes
<1> QED
  BY <1>1, <1>2, <1>3, <1>4, <1>5, <1>6, <1>7 DEF Downs

-----------------------------------------------------------------------------
(* What a client knows of an entity, once it has heard a queue.            *)

(* The versions of e after message m.                                      *)
After(V, m, e) ==
  IF ~About(m, e) THEN V
  ELSE IF m[1] = "create" THEN V \cup {m[3]}
  ELSE IF m[1] = "destroy" THEN V \ {m[3]}
  ELSE IF m[3] \in V THEN (V \ {m[3]}) \cup {m[3] + 1} ELSE V

(* g traces the versions of e along queue q.                               *)
Traces(g, V, q, e, R) ==
  /\ g[0] = V /\ g[Len(q)] = R
  /\ \A i \in 1..Len(q) : g[i] = After(g[i - 1], q[i], e)

(* From V, the messages of queue q lead to R.                              *)
Replays(V, q, e, R) == \E g : Traces(g, V, q, e, R)

LEMMA ReplayConcat ==
  ASSUME NEW S, NEW q \in Seq(S), NEW s \in Seq(S), NEW e, NEW V, NEW R, NEW T,
         Replays(V, q, e, R), Replays(R, s, e, T)
  PROVE  Replays(V, q \o s, e, T)
<1> DEFINE n == Len(q)
           k == Len(s)
<1>1. /\ Len(q \o s) = n + k
      /\ \A i \in 1..(n + k) : (q \o s)[i] = IF i <= n THEN q[i] ELSE s[i - n]
      /\ n \in Nat /\ k \in Nat
  BY ConcatProperties, LenProperties
<1>2. PICK g : Traces(g, V, q, e, R)
  BY DEF Replays
<1>3. PICK h : Traces(h, R, s, e, T)
  BY DEF Replays
<1> DEFINE f == [i \in 0..(n + k) |-> IF i <= n THEN g[i] ELSE h[i - n]]
<1> HIDE DEF n, k
<1>4. f[0] = V
  <2>1. 0 \in 0..(n + k) /\ 0 <= n
    BY <1>1
  <2> QED
    BY <1>2, <2>1 DEF Traces
<1>5. f[n + k] = T
  <2>1. n + k \in 0..(n + k) /\ (n + k <= n => k = 0) /\ (n + k) - n = k /\ n + 0 = n
    BY <1>1
  <2>2. CASE k = 0
    BY <1>2, <1>3, <2>1, <2>2 DEF Traces, n, k
  <2>3. CASE k # 0
    BY <1>3, <2>1, <2>3 DEF Traces, n, k
  <2> QED
    BY <2>2, <2>3
<1>6. ASSUME NEW i \in 1..(n + k)
      PROVE  f[i] = After(f[i - 1], (q \o s)[i], e)
  <2>1. i \in 0..(n + k) /\ i - 1 \in 0..(n + k)
    BY <1>1
  <2>2. CASE i <= n
    <3>1. i \in 1..n /\ i - 1 <= n
      BY <1>1, <2>2
    <3>2. f[i] = g[i] /\ f[i - 1] = g[i - 1] /\ (q \o s)[i] = q[i]
      BY <1>1, <2>1, <2>2, <3>1
    <3> QED
      BY <1>2, <3>1, <3>2 DEF Traces, n
  <2>3. CASE ~(i <= n)
    <3>1. i - n \in 1..k /\ (i - 1) - n = (i - n) - 1
      BY <1>1, <2>3
    <3>2. f[i] = h[i - n] /\ (q \o s)[i] = s[i - n]
      BY <1>1, <2>1, <2>3
    <3>3. f[i - 1] = h[(i - n) - 1]
      <4>1. CASE i - 1 <= n
        <5>1. i - 1 = n /\ (i - n) - 1 = 0
          BY <1>1, <2>3, <4>1
        <5> QED
          BY <1>2, <1>3, <2>1, <5>1 DEF Traces, n
      <4>2. CASE ~(i - 1 <= n)
        BY <2>1, <3>1, <4>2
      <4> QED
        BY <4>1, <4>2
    <3> QED
      BY <1>3, <3>1, <3>2, <3>3 DEF Traces, k
  <2> QED
    BY <2>2, <2>3
<1> HIDE DEF f
<1>7. Traces(f, V, q \o s, e, T)
  BY <1>1, <1>4, <1>5, <1>6 DEF Traces
<1> QED
  BY <1>7 DEF Replays

(* Messages about other things change nothing.                             *)
LEMMA ReplayOther ==
  ASSUME NEW S, NEW s \in Seq(S), NEW e, NEW R, \A m \in Els(s) : ~About(m, e)
  PROVE  Replays(R, s, e, R)
<1> DEFINE f == [i \in 0..Len(s) |-> R]
<1>1. Len(s) \in Nat
  BY LenProperties
<1>2. 0 \in 0..Len(s) /\ Len(s) \in 0..Len(s)
      /\ \A i \in 1..Len(s) : i \in 0..Len(s) /\ i - 1 \in 0..Len(s)
  BY <1>1
<1>3. \A i \in 1..Len(s) : After(R, s[i], e) = R
  BY DEF After, Els
<1>4. Traces(f, R, s, e, R)
  BY <1>2, <1>3 DEF Traces
<1> QED
  BY <1>4 DEF Replays

LEMMA ReplayOne ==
  ASSUME NEW e, NEW R, NEW m
  PROVE  Replays(R, <<m>>, e, After(R, m, e))
<1> DEFINE f == [i \in 0..1 |-> IF i = 0 THEN R ELSE After(R, m, e)]
<1>1. Len(<<m>>) = 1 /\ <<m>>[1] = m /\ 1..1 = {1} /\ 0 \in 0..1 /\ 1 \in 0..1 /\ 1 - 1 = 0
  OBVIOUS
<1>2. f[0] = R /\ f[1] = After(R, m, e)
  BY <1>1
<1> HIDE DEF f
<1>3. Traces(f, R, <<m>>, e, After(R, m, e))
  BY <1>1, <1>2 DEF Traces
<1> QED
  BY <1>3 DEF Replays

(* A snapshot that has e has it under one name.                            *)
Introduces(s, e, v) == \A m \in Els(s) : About(m, e) => m[1] = "create" /\ m[3] = v
Introduced(R, s, e, v) == IF \E m \in Els(s) : About(m, e) THEN R \cup {v} ELSE R

LEMMA ReplaySnap ==
  ASSUME NEW S, NEW s \in Seq(S), NEW e, NEW R, NEW v, Introduces(s, e, v)
  PROVE  Replays(R, s, e, Introduced(R, s, e, v))
<1> DEFINE Told(i) == \E j \in 1..i : About(s[j], e)
           f == [i \in 0..Len(s) |-> IF Told(i) THEN R \cup {v} ELSE R]
<1>1. Len(s) \in Nat
  BY LenProperties
<1>2. /\ 0 \in 0..Len(s) /\ Len(s) \in 0..Len(s) /\ 1..0 = {}
      /\ \A i \in 1..Len(s) : /\ i \in 0..Len(s) /\ i - 1 \in 0..Len(s)
                              /\ 1..i = (1..(i - 1)) \cup {i}
  BY <1>1
<1>3. f[0] = R
  BY <1>2
<1>4. ASSUME NEW i \in 1..Len(s) PROVE f[i] = After(f[i - 1], s[i], e)
  <2>1. /\ f[i] = IF Told(i) THEN R \cup {v} ELSE R
        /\ f[i - 1] = IF Told(i - 1) THEN R \cup {v} ELSE R
        /\ Told(i) <=> Told(i - 1) \/ About(s[i], e)
    BY <1>2
  <2> HIDE DEF f, Told
  <2>2. s[i] \in Els(s)
    BY DEF Els
  <2> QED
    BY <2>1, <2>2 DEF After, Introduces
<1>5. /\ f[Len(s)] = IF Told(Len(s)) THEN R \cup {v} ELSE R
      /\ Told(Len(s)) <=> \E m \in Els(s) : About(m, e)
  BY <1>2 DEF Els
<1> HIDE DEF f, Told
<1>6. Traces(f, R, s, e, f[Len(s)])
  BY <1>3, <1>4 DEF Traces
<1>7. Replays(R, s, e, f[Len(s)])
  BY <1>6 DEF Replays
<1> QED
  BY <1>5, <1>7 DEF Introduced

LEMMA ReplayHear ==
  ASSUME NEW S, NEW q \in Seq(S), q # <<>>, NEW e, NEW V, NEW R, Replays(V, q, e, R)
  PROVE  Replays(After(V, Head(q), e), Tail(q), e, R)
<1> DEFINE n == Len(q)
           V1 == After(V, Head(q), e)
<1>1. /\ Len(Tail(q)) = n - 1 /\ n \in Nat \ {0}
      /\ \A i \in 1..(n - 1) : Tail(q)[i] = q[i + 1]
      /\ Head(q) = q[1]
  BY TailOf
<1>2. PICK g : Traces(g, V, q, e, R)
  BY DEF Replays
<1> DEFINE f == [i \in 0..(n - 1) |-> g[i + 1]]
<1>3. /\ 0 \in 0..(n - 1) /\ n - 1 \in 0..(n - 1) /\ (n - 1) + 1 = n /\ 0 + 1 = 1 /\ 1 \in 1..n
      /\ 1 - 1 = 0
      /\ \A i \in 1..(n - 1) : /\ i \in 0..(n - 1) /\ i - 1 \in 0..(n - 1)
                               /\ i + 1 \in 1..n /\ (i + 1) - 1 = i /\ (i - 1) + 1 = i
  BY <1>1
<1>4. f[0] = V1
  BY <1>1, <1>2, <1>3 DEF Traces
<1>5. f[n - 1] = R
  BY <1>2, <1>3 DEF Traces
<1>6. ASSUME NEW i \in 1..(n - 1) PROVE f[i] = After(f[i - 1], Tail(q)[i], e)
  BY <1>1, <1>2, <1>3 DEF Traces
<1> HIDE DEF f, V1
<1>7. Traces(f, V1, Tail(q), e, R)
  BY <1>1, <1>4, <1>5, <1>6 DEF Traces
<1> QED
  BY <1>7 DEF Replays, V1

(* Without a message about e, nothing changes.                             *)
LEMMA ReplayQuiet ==
  ASSUME NEW S, NEW q \in Seq(S), NEW e, NEW V, NEW R, Replays(V, q, e, R),
         \A m \in Els(q) : ~About(m, e)
  PROVE  R = V
<1>1. PICK g : Traces(g, V, q, e, R)
  BY DEF Replays
<1> DEFINE Same == {i \in Nat : i <= Len(q) => g[i] = V}
<1>2. Len(q) \in Nat
  BY LenProperties
<1>3. 0 \in Same
  BY <1>1 DEF Traces
<1>4. ASSUME NEW i \in Nat, i \in Same PROVE i + 1 \in Same
  <2>1. CASE i + 1 <= Len(q)
    <3>1. i + 1 \in 1..Len(q) /\ (i + 1) - 1 = i /\ i <= Len(q)
      BY <1>2, <2>1
    <3>2. q[i + 1] \in Els(q)
      BY <3>1 DEF Els
    <3>3. g[i + 1] = After(g[i], q[i + 1], e)
      BY <1>1, <3>1 DEF Traces
    <3> QED
      BY <1>4, <3>1, <3>2, <3>3 DEF After
  <2>2. CASE ~(i + 1 <= Len(q))
    BY <2>2
  <2> QED
    BY <2>1, <2>2
<1> HIDE DEF Same
<1>5. Nat \subseteq Same
  BY <1>3, <1>4, Induction
<1>6. g[Len(q)] = V
  BY <1>2, <1>5 DEF Same
<1> QED
  BY <1>1, <1>6 DEF Traces

-----------------------------------------------------------------------------
(* The order of the answers to a factory request.                          *)

(* Every acknowledgement for e in the queue follows the news of a failure. *)
Failing(q, e) ==
  \A i \in 1..Len(q) : q[i] = <<"ack", e>> =>
    \E j \in 1..(i - 1) : q[j][1] \in {"error", "empty"} /\ q[j][2] = e

LEMMA FailingConcat ==
  ASSUME NEW S, NEW q \in Seq(S), NEW s \in Seq(S), NEW e, Failing(q, e), Failing(s, e)
  PROVE  Failing(q \o s, e)
<1> DEFINE n == Len(q)
           k == Len(s)
           Bad(m) == m[1] \in {"error", "empty"} /\ m[2] = e
<1>1. /\ Len(q \o s) = n + k
      /\ \A i \in 1..(n + k) : (q \o s)[i] = IF i <= n THEN q[i] ELSE s[i - n]
      /\ n \in Nat /\ k \in Nat
  BY ConcatProperties, LenProperties
<1>2. ASSUME NEW i \in 1..(n + k), (q \o s)[i] = <<"ack", e>>
      PROVE  \E j \in 1..(i - 1) : Bad((q \o s)[j])
  <2>1. CASE i <= n
    <3>1. i \in 1..n /\ q[i] = <<"ack", e>>
      BY <1>1, <1>2, <2>1
    <3>2. PICK j \in 1..(i - 1) : Bad(q[j])
      BY <3>1 DEF Failing
    <3>3. j \in 1..(n + k) /\ j <= n
      BY <1>1, <2>1
    <3>4. (q \o s)[j] = q[j]
      BY <1>1, <3>3
    <3> QED
      BY <3>2, <3>4
  <2>2. CASE ~(i <= n)
    <3>1. i - n \in 1..k /\ s[i - n] = <<"ack", e>>
      BY <1>1, <1>2, <2>2
    <3>2. PICK j \in 1..((i - n) - 1) : Bad(s[j])
      BY <3>1 DEF Failing
    <3>3. j + n \in 1..(n + k) /\ ~(j + n <= n) /\ (j + n) - n = j /\ j + n \in 1..(i - 1)
      BY <1>1, <2>2, <3>1
    <3>4. (q \o s)[j + n] = s[j]
      BY <1>1, <3>3
    <3> QED
      BY <3>2, <3>3, <3>4
  <2> QED
    BY <2>1, <2>2
<1> QED
  BY <1>1, <1>2 DEF Failing

LEMMA FailingTail ==
  ASSUME NEW S, NEW q \in Seq(S), q # <<>>, NEW e, Failing(q, e),
         ~(Head(q)[1] \in {"error", "empty"} /\ Head(q)[2] = e)
  PROVE  Failing(Tail(q), e) /\ Head(q) # <<"ack", e>>
<1> DEFINE n == Len(q)
           Bad(m) == m[1] \in {"error", "empty"} /\ m[2] = e
<1>1. /\ Len(Tail(q)) = n - 1 /\ n \in Nat \ {0}
      /\ \A i \in 1..(n - 1) : Tail(q)[i] = q[i + 1]
      /\ Head(q) = q[1]
  BY TailOf
<1>2. ASSUME NEW i \in 1..(n - 1), Tail(q)[i] = <<"ack", e>>
      PROVE  \E j \in 1..(i - 1) : Bad(Tail(q)[j])
  <2>1. i + 1 \in 1..n /\ q[i + 1] = <<"ack", e>> /\ (i + 1) - 1 = i
    BY <1>1, <1>2
  <2>2. PICK j \in 1..i : Bad(q[j])
    BY <2>1 DEF Failing
  <2>3. j # 1
    BY <1>1, <2>2
  <2>4. j - 1 \in 1..(i - 1) /\ j - 1 \in 1..(n - 1) /\ (j - 1) + 1 = j
    BY <1>1, <2>3
  <2>5. Tail(q)[j - 1] = q[j]
    BY <1>1, <2>4
  <2> QED
    BY <2>2, <2>4, <2>5
<1>3. q[1] # <<"ack", e>>
  <2>1. 1 \in 1..n /\ 1..(1 - 1) = {}
    BY <1>1
  <2> QED
    BY <2>1 DEF Failing
<1> QED
  BY <1>1, <1>2, <1>3 DEF Failing

LEMMA FailingPair ==
  ASSUME NEW S, NEW q \in Seq(S), NEW s \in Seq(S), NEW e, Len(q) = 1, Len(s) = 1,
         q[1][1] \in {"error", "empty"} /\ q[1][2] = e
  PROVE  Failing(q \o s, e)
<1>1. Len(q \o s) = 2 /\ (q \o s)[1] = q[1]
  BY ConcatProperties
<1>2. q[1] # <<"ack", e>> /\ 1..2 = {1, 2} /\ 1 \in 1..(2 - 1)
  OBVIOUS
<1> QED
  BY <1>1, <1>2 DEF Failing

LEMMA FailingOther ==
  ASSUME NEW q, NEW e, \A m \in Els(q) : m # <<"ack", e>>
  PROVE  Failing(q, e)
  BY DEF Failing, Els

-----------------------------------------------------------------------------
(* What the steps do to the queues.                                        *)

LEMMA TakenEffect ==
  ASSUME up \in [Clients -> Seq(Ups)], NEW c \in Clients, up[c] # <<>>, Taken(c)
  PROVE  /\ up' \in [Clients -> Seq(Ups)]
         /\ up'[c] = Tail(up[c])
         /\ \A d \in Clients : d # c => up'[d] = up[d]
         /\ \A d \in Clients : Els(up'[d]) \subseteq Els(up[d])
         /\ Head(up[c]) \in Els(up[c]) /\ Head(up[c]) \in Ups
         /\ \A d \in Clients : \A k, e : Once(up[d], k, e) => Once(up'[d], k, e)
         /\ \A k, e : Once(up[c], k, e) /\ Is(Head(up[c]), k, e) =>
              \A m \in Els(up'[c]) : ~Is(m, k, e)
<1>1. up[c] \in Seq(Ups)
  OBVIOUS
<1>2. /\ Tail(up[c]) \in Seq(Ups) /\ Els(Tail(up[c])) \subseteq Els(up[c])
      /\ Head(up[c]) \in Els(up[c]) /\ Head(up[c]) \in Ups
  BY <1>1, ElsTail
<1>3. ASSUME NEW k, NEW e, Once(up[c], k, e)
      PROVE  /\ Once(Tail(up[c]), k, e)
             /\ Is(Head(up[c]), k, e) => \A m \in Els(Tail(up[c])) : ~Is(m, k, e)
  BY <1>1, <1>3, OnceTail
<1>4. /\ up' \in [Clients -> Seq(Ups)] /\ up'[c] = Tail(up[c])
      /\ \A d \in Clients : d # c => up'[d] = up[d]
  BY <1>1, <1>2 DEF Taken
<1> QED
  BY <1>2, <1>3, <1>4

LEMMA AskEffect ==
  ASSUME up \in [Clients -> Seq(Ups)], NEW c \in Clients, NEW s \in Seq(Ups), Ask(c, s)
  PROVE  /\ up' \in [Clients -> Seq(Ups)]
         /\ up'[c] = up[c] \o s
         /\ Els(up'[c]) = Els(up[c]) \cup Els(s)
         /\ \A d \in Clients : d # c => up'[d] = up[d]
         /\ \A k, e : Once(up[c], k, e) /\ (\A m \in Els(s) : ~Is(m, k, e)) => Once(up'[c], k, e)
         /\ \A k, e : Once(s, k, e) /\ (\A m \in Els(up[c]) : ~Is(m, k, e)) => Once(up'[c], k, e)
<1>1. up[c] \in Seq(Ups)
  OBVIOUS
<1>2. up[c] \o s \in Seq(Ups) /\ Els(up[c] \o s) = Els(up[c]) \cup Els(s)
  BY <1>1, ElsConcat
<1>3. /\ up' \in [Clients -> Seq(Ups)] /\ up'[c] = up[c] \o s
      /\ \A d \in Clients : d # c => up'[d] = up[d]
  BY <1>2 DEF Ask
<1>4. ASSUME NEW k, NEW e,
             \/ Once(up[c], k, e) /\ (\A m \in Els(s) : ~Is(m, k, e))
             \/ Once(s, k, e) /\ (\A m \in Els(up[c]) : ~Is(m, k, e))
      PROVE  Once(up[c] \o s, k, e)
  BY <1>1, <1>4, OnceConcat
<1> QED
  BY <1>2, <1>3, <1>4

LEMMA SentEffect ==
  ASSUME down \in [Clients -> Seq(Downs)], NEW msgs \in [Clients -> Seq(Downs)],
         down' = Sent(msgs)
  PROVE  /\ down' \in [Clients -> Seq(Downs)]
         /\ \A d \in Clients : down'[d] = IF Online(d) THEN down[d] \o msgs[d] ELSE down[d]
         /\ \A d \in Clients : Els(down'[d]) \subseteq Els(down[d]) \cup Els(msgs[d])
         /\ \A d \in Clients : Els(down[d]) \subseteq Els(down'[d])
         /\ \A d \in Clients : Online(d) => Els(down'[d]) = Els(down[d]) \cup Els(msgs[d])
<1>1. ASSUME NEW d \in Clients
      PROVE  /\ down[d] \o msgs[d] \in Seq(Downs)
             /\ Els(down[d] \o msgs[d]) = Els(down[d]) \cup Els(msgs[d])
  <2>1. down[d] \in Seq(Downs) /\ msgs[d] \in Seq(Downs)
    OBVIOUS
  <2> QED
    BY <2>1, ElsConcat
<1>2. \A d \in Clients : down'[d] = IF Online(d) THEN down[d] \o msgs[d] ELSE down[d]
  BY DEF Sent
<1>3. down' \in [Clients -> Seq(Downs)]
  BY <1>1 DEF Sent
<1> QED
  BY <1>1, <1>2, <1>3

LEMMA SentTo ==
  ASSUME down \in [Clients -> Seq(Downs)], NEW c \in Clients, NEW s \in Seq(Downs),
         down' = Sent(To(c, s))
  PROVE  /\ down' \in [Clients -> Seq(Downs)]
         /\ \A d \in Clients : d # c => down'[d] = down[d]
         /\ down'[c] = IF Online(c) THEN down[c] \o s ELSE down[c]
         /\ Els(down'[c]) \subseteq Els(down[c]) \cup Els(s)
         /\ Els(down[c]) \subseteq Els(down'[c])
         /\ \A k, e : Once(down[c], k, e) /\ (\A m \in Els(s) : ~Is(m, k, e)) => Once(down'[c], k, e)
         /\ \A k, e : Once(s, k, e) /\ (\A m \in Els(down[c]) : ~Is(m, k, e)) => Once(down'[c], k, e)
<1> DEFINE msgs == To(c, s)
<1>1. /\ msgs \in [Clients -> Seq(Downs)] /\ msgs[c] = s
      /\ \A d \in Clients : d # c => msgs[d] = <<>>
  <2>1. <<>> \in Seq(Downs)
    BY EmptySeq
  <2> QED
    BY <2>1 DEF To
<1> HIDE DEF msgs
<1>2. /\ down' \in [Clients -> Seq(Downs)]
      /\ \A d \in Clients : down'[d] = IF Online(d) THEN down[d] \o msgs[d] ELSE down[d]
      /\ \A d \in Clients : Els(down'[d]) \subseteq Els(down[d]) \cup Els(msgs[d])
      /\ \A d \in Clients : Els(down[d]) \subseteq Els(down'[d])
  <2>1. down' = Sent(msgs)
    BY DEF msgs
  <2> QED
    BY <1>1, <2>1, SentEffect
<1>3. \A d \in Clients : d # c => down'[d] = down[d]
  <2>1. \A d \in Clients : down[d] \o <<>> = down[d]
    BY ConcatEmptySeq
  <2> QED
    BY <1>1, <1>2, <2>1
<1>4. ASSUME NEW k, NEW e,
             \/ Once(down[c], k, e) /\ (\A m \in Els(s) : ~Is(m, k, e))
             \/ Once(s, k, e) /\ (\A m \in Els(down[c]) : ~Is(m, k, e))
      PROVE  Once(down[c] \o s, k, e)
  <2>1. down[c] \in Seq(Downs)
    OBVIOUS
  <2> QED
    BY <1>4, <2>1, OnceConcat
<1>5. ASSUME NEW k, NEW e, \A m \in Els(down[c]) : ~Is(m, k, e)
      PROVE  Once(down[c], k, e)
  BY <1>5 DEF Once, Els
<1> QED
  BY <1>1, <1>2, <1>3, <1>4, <1>5

LEMMA SentAll ==
  ASSUME down \in [Clients -> Seq(Downs)], NEW X, NEW m \in Downs, down' = Sent(All(X, m))
  PROVE  /\ down' \in [Clients -> Seq(Downs)]
         /\ \A d \in Clients :
              down'[d] = IF Online(d) /\ d \in Performers \ X THEN down[d] \o <<m>> ELSE down[d]
         /\ \A d \in Clients : Els(down'[d]) \subseteq Els(down[d]) \cup {m}
         /\ \A d \in Clients : Els(down[d]) \subseteq Els(down'[d])
         /\ \A d \in Clients : \A k, e : Once(down[d], k, e) /\ ~Is(m, k, e) => Once(down'[d], k, e)
<1> DEFINE msgs == All(X, m)
<1>1. /\ msgs \in [Clients -> Seq(Downs)]
      /\ \A d \in Clients : msgs[d] = IF d \in Performers \ X THEN <<m>> ELSE <<>>
  <2>1. <<>> \in Seq(Downs) /\ <<m>> \in Seq(Downs)
    BY EmptySeq
  <2> QED
    BY <2>1 DEF All
<1> HIDE DEF msgs
<1>2. /\ down' \in [Clients -> Seq(Downs)]
      /\ \A d \in Clients : down'[d] = IF Online(d) THEN down[d] \o msgs[d] ELSE down[d]
      /\ \A d \in Clients : Els(down'[d]) \subseteq Els(down[d]) \cup Els(msgs[d])
      /\ \A d \in Clients : Els(down[d]) \subseteq Els(down'[d])
  <2>1. down' = Sent(msgs)
    BY DEF msgs
  <2> QED
    BY <1>1, <2>1, SentEffect
<1>3. \A d \in Clients : down[d] \o <<>> = down[d]
  BY ConcatEmptySeq
<1>4. Els(<<m>>) = {m} /\ Els(<<>>) = {}
  BY ElsShort
<1>5. \A d \in Clients :
        down'[d] = IF Online(d) /\ d \in Performers \ X THEN down[d] \o <<m>> ELSE down[d]
  BY <1>1, <1>2, <1>3
<1>6. \A d \in Clients : Els(msgs[d]) \subseteq {m}
  BY <1>1, <1>4
<1>7. ASSUME NEW d \in Clients, NEW k, NEW e, Once(down[d], k, e), ~Is(m, k, e)
      PROVE  Once(down[d] \o <<m>>, k, e)
  <2>1. down[d] \in Seq(Downs) /\ <<m>> \in Seq(Downs) /\ \A x \in Els(<<m>>) : ~Is(x, k, e)
    BY <1>4, <1>7
  <2> QED
    BY <1>7, <2>1, OnceConcat
<1>8. ASSUME NEW d \in Clients, NEW k, NEW e, Once(down[d], k, e), ~Is(m, k, e)
      PROVE  Once(down'[d], k, e)
  <2>1. CASE Online(d) /\ d \in Performers \ X
    BY <1>5, <1>7, <1>8, <2>1
  <2>2. CASE ~(Online(d) /\ d \in Performers \ X)
    BY <1>5, <1>8, <2>2
  <2> QED
    BY <2>1, <2>2
<1>9. \A d \in Clients : Els(down'[d]) \subseteq Els(down[d]) \cup {m}
  BY <1>2, <1>6
<1> QED
  BY <1>2, <1>5, <1>8, <1>9

LEMMA HeardEffect ==
  ASSUME down \in [Clients -> Seq(Downs)], NEW c \in Clients, down[c] # <<>>, Heard(c)
  PROVE  /\ down' \in [Clients -> Seq(Downs)]
         /\ down'[c] = Tail(down[c])
         /\ \A d \in Clients : d # c => down'[d] = down[d]
         /\ \A d \in Clients : Els(down'[d]) \subseteq Els(down[d])
         /\ Els(down[c]) = Els(down'[c]) \cup {Head(down[c])}
         /\ Head(down[c]) \in Els(down[c]) /\ Head(down[c]) \in Downs
         /\ \A d \in Clients : \A k, e : Once(down[d], k, e) => Once(down'[d], k, e)
         /\ \A k, e : Once(down[c], k, e) /\ Is(Head(down[c]), k, e) =>
              \A m \in Els(down'[c]) : ~Is(m, k, e)
<1>1. down[c] \in Seq(Downs)
  OBVIOUS
<1>2. /\ Tail(down[c]) \in Seq(Downs) /\ Els(Tail(down[c])) \subseteq Els(down[c])
      /\ Els(down[c]) = Els(Tail(down[c])) \cup {Head(down[c])}
      /\ Head(down[c]) \in Els(down[c]) /\ Head(down[c]) \in Downs
  BY <1>1, ElsTail
<1>3. ASSUME NEW k, NEW e, Once(down[c], k, e)
      PROVE  /\ Once(Tail(down[c]), k, e)
             /\ Is(Head(down[c]), k, e) => \A m \in Els(Tail(down[c])) : ~Is(m, k, e)
  BY <1>1, <1>3, OnceTail
<1>4. /\ down' \in [Clients -> Seq(Downs)] /\ down'[c] = Tail(down[c])
      /\ \A d \in Clients : d # c => down'[d] = down[d]
  BY <1>1, <1>2 DEF Heard
<1> QED
  BY <1>2, <1>3, <1>4

-----------------------------------------------------------------------------
(* The invariant.                                                          *)

Proxies == [what : Objects, ver : 1..MaxVersion, tied : BOOLEAN]

(* Everything the model keeps has its type; what exists has a name.        *)
GraphTypes ==
  /\ perf \in [Clients -> {"none", "in", "going", "freed"}]
  /\ ent \in [Entities -> {"none", "in", "going", "parted", "freed"}]
  /\ ver \in [Entities -> 0..MaxVersion]
  /\ \A e \in Entities : ent[e] # "none" => ver[e] \in 1..MaxVersion
  /\ arrivals \in Seq(Objects)
  /\ sending \subseteq Objects \X (1..MaxVersion)
  /\ waits \subseteq Creatables \X Clients
  /\ phase \in [Clients -> {"out", "joining", "joined", "synced", "left", "dead"}]
  /\ own \in [Entities -> 0..MaxVersion]
  /\ used \subseteq Entities
  /\ view \in [Clients -> SUBSET Proxies]
  /\ answer \in [Creatables -> {"none", "asked", "ack", "error", "empty"}]
  /\ up \in [Clients -> Seq(Ups)]
  /\ down \in [Clients -> Seq(Downs)]

(* The first message a client gets is the reply to its join request.       *)
Opening(q) == q # <<>> /\ Head(q) = <<"joined">> /\ \A m \in Els(Tail(q)) : m[1] # "joined"

(* A client has a performer from its join request on, and asks and hears   *)
(* nothing before.                                                         *)
Role(c) ==
  /\ phase[c] = "out" => up[c] = <<>> /\ perf[c] = "none"
  /\ phase[c] = "joining" /\ perf[c] = "none" => up[c] = <<<<"join">>>>
  /\ phase[c] = "joining" /\ perf[c] # "none" => up[c] = <<>> /\ Opening(down[c])
  /\ phase[c] # "joining" => \A m \in Els(down[c]) : m[1] # "joined"
  /\ phase[c] \notin {"out", "joining"} => perf[c] # "none"
  /\ perf[c] = "none" => down[c] = <<>> /\ view[c] = {}
  /\ phase[c] \in {"left", "dead"} => down[c] = <<>>
  /\ perf[c] # "none" => \A m \in Els(up[c]) : m[1] # "join"
Roles == \A c \in Clients : Role(c)

(* An entity is created once, by its own performer.                        *)
Birth(e) ==
  /\ e \notin used => ent[e] = "none" /\ own[e] = 0
  /\ \A c \in Clients : \A m \in Els(up[c]) : About(m, e) => c = Home[e]
  /\ \A m \in Els(up[Home[e]]) : Is(m, "create", e) => ent[e] = "none" /\ e \in used
  /\ Once(up[Home[e]], "create", e)
  /\ ent[e] # "none" => phase[Home[e]] \notin {"out", "joining"}
Births == \A e \in Entities : Birth(e)

(* A factory request is in one place, until the entity is made.            *)
Make(e) ==
  /\ \A c \in Clients : \A m \in Els(up[c]) : Is(m, "make", e) => e \notin used /\ answer[e] # "none"
  /\ \A c \in Clients : \A m \in Els(down[c]) : Is(m, "make", e) =>
       e \notin used /\ answer[e] # "none" /\ c = Home[e]
  /\ answer[e] = "none" => e \notin used
  /\ \A c, d \in Clients : \A m \in Els(up[c]), n \in Els(up[d]) :
       Is(m, "make", e) /\ Is(n, "make", e) => c = d
  /\ \A c, d \in Clients : \A m \in Els(up[c]), n \in Els(down[d]) :
       ~(Is(m, "make", e) /\ Is(n, "make", e))
  /\ \A c \in Clients : Once(up[c], "make", e) /\ Once(down[c], "make", e)
Makes == \A e \in Creatables : Make(e)

(* Nobody speaks of an entity the stage has not had.                       *)
Unheard(e) ==
  /\ \A c \in Clients : \A m \in Els(down[c]) : ~About(m, e) /\ ~Is(m, "ok", e)
  /\ \A c \in Clients : \A m \in Els(up[c]) : ~Is(m, "made", e)
  /\ e \notin Els(arrivals)
  /\ \A s \in sending : s[1] # e
  /\ \A c \in Clients : \A x \in view[c] : x.what # e
Known == \A e \in Entities : ent[e] = "none" => Unheard(e)

(* Farewells are about performers that have gone.                          *)
Lefts ==
  \A c \in Clients : \A m \in Els(down[c]) : m[1] = "left" => perf[m[2]] \in {"going", "freed"}

(* Entities go with their performers.                                      *)
Goings == \A e \in Entities : ent[e] = "going" => perf[Home[e]] \in {"going", "freed"}

(* What is about to be broadcast is so still, but for a clash.             *)
Sendings ==
  /\ loop = "reap" => sending = {}
  /\ \A s, t \in sending : s = t
  /\ \A s \in sending : s[1] \in Entities \ clash => Found(s[1]) /\ ver[s[1]] = s[2]

(* The answers to a factory request: an ACK that comes first is true.      *)
Ack(e) ==
  /\ ent[e] = "none" /\ answer[e] = "asked" => \A c \in Clients : Failing(down[c], e)
  /\ answer[e] = "none" =>
       /\ \A c \in Clients : \A m \in Els(down[c]) : m[1] \in {"ack", "error", "empty"} => m[2] # e
       /\ \A w \in waits : w[1] # e
  /\ answer[e] = "ack" => ent[e] # "none"
Acks == \A e \in Creatables : Ack(e)

(* What client c has of entity e, and what it is going to have.            *)
Seen(c, e) == {x.ver : x \in {y \in view[c] : y.what = e}}
Watch(c, e) ==
  Online(c) /\ perf[c] = "in" /\ Home[e] # c /\ perf[Home[e]] = "in" /\ e \notin clash
Snap(c) == phase[c] = "synced" \/ \E m \in Els(down[c]) : m[1] = "synced"
Pending(e) == e \in Els(arrivals) \/ \E s \in sending : s[1] = e

(* Once it has heard all that is on its way, the client has no other name  *)
(* of the entity than the stage; and it has that one, if it was sent the   *)
(* graph and the arrival is not to be broadcast yet.                       *)
Mirrored(c, e, R) ==
  /\ Replays(Seen(c, e), down[c], e, R)
  /\ R \subseteq (IF Found(e) THEN {ver[e]} ELSE {})
  /\ Snap(c) /\ Found(e) /\ ~Pending(e) => ver[e] \in R
Mirror(c, e) == Watch(c, e) => \E R : Mirrored(c, e, R)
Mirrors == \A c \in Clients, e \in Entities : Mirror(c, e)

(* The inductive invariant.                                                *)
GraphInv ==
  /\ GraphTypes /\ Roles /\ Births /\ Makes /\ Known /\ Lefts /\ Goings /\ Sendings /\ Acks
  /\ Mirrors

-----------------------------------------------------------------------------
(* Steps of the stage.                                                     *)

(* Only a client that has a performer asks for anything but to join.       *)
LEMMA Served ==
  ASSUME GraphTypes, Roles, NEW c \in Clients, up[c] # <<>>, Head(up[c])[1] # "join"
  PROVE  phase[c] \notin {"out", "joining"} /\ perf[c] # "none"
<1>1. CASE phase[c] = "joining" /\ perf[c] = "none"
  <2>1. up[c] = <<<<"join">>>>
    BY <1>1 DEF Roles, Role
  <2>2. Head(up[c]) = <<"join">>
    BY <2>1
  <2> QED
    BY <2>2
<1>2. CASE ~(phase[c] = "joining" /\ perf[c] = "none")
  BY <1>2 DEF Roles, Role
<1> QED
  BY <1>1, <1>2

(* A message the stage may send to anybody.                                *)
Proper(m) ==
  /\ m[1] \notin {"joined", "ok"}
  /\ \A e \in Entities : About(m, e) => ent[e] # "none"
  /\ m[1] = "left" => perf'[m[2]] \in {"going", "freed"}
  /\ m[1] \in {"ack", "error", "empty"} => answer[m[2]] # "none"

(* Queue q got such messages.                                              *)
Fed(q, r) == \E s \in Seq(Downs) : r = q \o s /\ \A m \in Els(s) : Proper(m)

(* A step by which the stage gets no performer and no entity.              *)
StageStep ==
  /\ UNCHANGED <<client>>
  /\ \A c \in Clients : /\ perf'[c] = "none" <=> perf[c] = "none"
                        /\ perf[c] \in {"going", "freed"} => perf'[c] \in {"going", "freed"}
  /\ \A e \in Entities : ent'[e] = "none" <=> ent[e] = "none"
  /\ \A c \in Clients :
       \/ up'[c] = up[c]
       \/ /\ phase[c] \notin {"out", "joining"} /\ Els(up'[c]) \subseteq Els(up[c])
          /\ \A k, e : Once(up[c], k, e) => Once(up'[c], k, e)
  /\ \A c \in Clients : down'[c] = down[c] \/ (perf[c] # "none" /\ Online(c) /\ Fed(down[c], down'[c]))
  /\ Els(arrivals') \subseteq Els(arrivals)
  /\ \A s \in sending' : s \in sending \/ s[1] \in Els(arrivals)
  /\ \A w \in waits' : w \in waits \/ answer[w[1]] # "none"

LEMMA OpeningConcat ==
  ASSUME NEW S, NEW q \in Seq(S), NEW s \in Seq(S), Opening(q), \A m \in Els(s) : m[1] # "joined"
  PROVE  Opening(q \o s)
<1>1. q # <<>> /\ Tail(q) \in Seq(S)
  BY ElsTail DEF Opening
<1>2. q \o s # <<>> /\ Head(q \o s) = Head(q) /\ Tail(q \o s) = Tail(q) \o s
  BY <1>1
<1>3. Els(Tail(q) \o s) = Els(Tail(q)) \cup Els(s)
  <2>1. PICK r : r = Tail(q)
    OBVIOUS
  <2>2. Els(r \o s) = Els(r) \cup Els(s)
    BY <1>1, <2>1, ElsConcat
  <2> QED
    BY <2>1, <2>2
<1> QED
  BY <1>2, <1>3 DEF Opening

LEMMA StageStepQueues ==
  ASSUME GraphTypes, StageStep
  PROVE  /\ \A c \in Clients : Els(up'[c]) \subseteq Els(up[c])
         /\ \A c \in Clients : \A k, e : Once(up[c], k, e) => Once(up'[c], k, e)
         /\ \A c \in Clients : \A m \in Els(down'[c]) : m \in Els(down[c]) \/ Proper(m)
<1>1. ASSUME NEW c \in Clients
      PROVE  /\ Els(up'[c]) \subseteq Els(up[c])
             /\ \A k, e : Once(up[c], k, e) => Once(up'[c], k, e)
  BY DEF StageStep
<1>2. ASSUME NEW c \in Clients, NEW m \in Els(down'[c])
      PROVE  m \in Els(down[c]) \/ Proper(m)
  <2>1. CASE down'[c] = down[c]
    BY <1>2, <2>1
  <2>2. CASE Fed(down[c], down'[c])
    <3>1. PICK s \in Seq(Downs) : down'[c] = down[c] \o s /\ \A n \in Els(s) : Proper(n)
      BY <2>2 DEF Fed
    <3>2. down[c] \in Seq(Downs)
      BY DEF GraphTypes
    <3>3. Els(down'[c]) = Els(down[c]) \cup Els(s)
      BY <3>1, <3>2, ElsConcat
    <3> QED
      BY <1>2, <3>1, <3>3
  <2> QED
    BY <2>1, <2>2 DEF StageStep
<1> QED
  BY <1>1, <1>2

LEMMA StageStepKeeps ==
  ASSUME GraphTypes, Roles, Births, Known, Lefts, StageStep, GraphTypes'
  PROVE  Roles' /\ Births' /\ Known' /\ Lefts'
<1>1. /\ \A c \in Clients : Els(up'[c]) \subseteq Els(up[c])
      /\ \A c \in Clients : \A k, e : Once(up[c], k, e) => Once(up'[c], k, e)
      /\ \A c \in Clients : \A m \in Els(down'[c]) : m \in Els(down[c]) \/ Proper(m)
  BY StageStepQueues
<1>2. /\ phase' = phase /\ own' = own /\ used' = used /\ view' = view /\ answer' = answer
  BY DEF StageStep, client
<1>3. /\ \A c \in Clients : /\ perf'[c] = "none" <=> perf[c] = "none"
                            /\ perf[c] \in {"going", "freed"} => perf'[c] \in {"going", "freed"}
      /\ \A e \in Entities : ent'[e] = "none" <=> ent[e] = "none"
  BY DEF StageStep
<1>4. Home \in [Entities -> Clients] /\ Creatables \subseteq Entities
  BY GraphAssumption
<1>5. Roles'
  <2> SUFFICES ASSUME NEW c \in Clients PROVE Role(c)'
    BY DEF Roles
  <2>1. Role(c)
    BY DEF Roles
  <2>2. phase[c] \in {"out", "joining"} => up'[c] = up[c]
    BY DEF StageStep
  <2>3. perf[c] = "none" \/ phase[c] \in {"left", "dead"} => down'[c] = down[c]
    BY DEF StageStep, Online
  <2>4. Opening(down[c]) => Opening(down'[c])
    <3>1. CASE down'[c] = down[c]
      BY <3>1
    <3>2. CASE Fed(down[c], down'[c])
      <4>1. PICK s \in Seq(Downs) : down'[c] = down[c] \o s /\ \A m \in Els(s) : Proper(m)
        BY <3>2 DEF Fed
      <4>2. down[c] \in Seq(Downs) /\ \A m \in Els(s) : m[1] # "joined"
        BY <4>1 DEF GraphTypes, Proper
      <4> QED
        BY <4>1, <4>2, OpeningConcat
    <3> QED
      BY <3>1, <3>2 DEF StageStep
  <2>5. \A m \in Els(down'[c]) : m \in Els(down[c]) \/ m[1] # "joined"
    BY <1>1 DEF Proper
  <2>6. Els(up'[c]) \subseteq Els(up[c]) /\ phase'[c] = phase[c] /\ view'[c] = view[c]
        /\ (perf'[c] = "none" <=> perf[c] = "none")
    BY <1>1, <1>2, <1>3
  <2> QED
    BY <2>1, <2>2, <2>3, <2>4, <2>5, <2>6 DEF Role
<1>6. Births'
  <2> SUFFICES ASSUME NEW e \in Entities PROVE Birth(e)'
    BY DEF Births
  <2>1. Birth(e) /\ Home[e] \in Clients
    BY <1>4 DEF Births
  <2> QED
    BY <1>1, <1>2, <1>3, <2>1 DEF Birth
<1>8. Known'
  <2> SUFFICES ASSUME NEW e \in Entities, ent'[e] = "none" PROVE Unheard(e)'
    BY DEF Known
  <2>1. Unheard(e) /\ ent[e] = "none"
    BY <1>3 DEF Known
  <2>2. \A c \in Clients : \A m \in Els(down'[c]) : ~About(m, e) /\ ~Is(m, "ok", e)
    <3> SUFFICES ASSUME NEW c \in Clients, NEW m \in Els(down'[c])
                 PROVE  ~About(m, e) /\ ~Is(m, "ok", e)
      OBVIOUS
    <3>1. CASE m \in Els(down[c])
      BY <2>1, <3>1 DEF Unheard
    <3>2. CASE Proper(m)
      BY <2>1, <3>2 DEF Proper, Is
    <3> QED
      BY <1>1, <3>1, <3>2
  <2>3. e \notin Els(arrivals') /\ \A s \in sending' : s[1] # e
    BY <2>1 DEF Unheard, StageStep
  <2> QED
    BY <1>1, <1>2, <2>1, <2>2, <2>3 DEF Unheard
<1>9. Lefts'
  <2> SUFFICES ASSUME NEW c \in Clients, NEW m \in Els(down'[c]), m[1] = "left"
               PROVE  perf'[m[2]] \in {"going", "freed"}
    BY DEF Lefts
  <2>1. CASE m \in Els(down[c])
    <3>1. down[c] \in Seq(Downs)
      BY DEF GraphTypes
    <3>2. m \in Downs
      BY <2>1, <3>1, ElsOf
    <3>3. m[2] \in Clients
      BY <3>2, DownKinds
    <3> QED
      BY <1>3, <2>1, <3>3 DEF Lefts
  <2>2. CASE Proper(m)
    BY <2>2 DEF Proper
  <2> QED
    BY <1>1, <2>1, <2>2
<1> QED
  BY <1>5, <1>6, <1>8, <1>9

(* Every client got proper messages of the given kinds, or nothing.        *)
Feeds(K) ==
  \A c \in Clients :
    \/ down'[c] = down[c]
    \/ /\ perf[c] # "none" /\ Online(c)
       /\ \E s \in Seq(Downs) : down'[c] = down[c] \o s /\ \A m \in Els(s) : Proper(m) /\ m[1] \in K

LEMMA FeedsFed ==
  ASSUME NEW K, Feeds(K)
  PROVE  \A c \in Clients :
           down'[c] = down[c] \/ (perf[c] # "none" /\ Online(c) /\ Fed(down[c], down'[c]))
  BY DEF Feeds, Fed

LEMMA FeedAll ==
  ASSUME GraphTypes, NEW X, NEW m \in Downs, Proper(m), down' = Sent(All(X, m))
  PROVE  down' \in [Clients -> Seq(Downs)] /\ Feeds({m[1]})
<1>1. down \in [Clients -> Seq(Downs)]
  BY DEF GraphTypes
<1>2. /\ down' \in [Clients -> Seq(Downs)]
      /\ \A d \in Clients :
           down'[d] = IF Online(d) /\ d \in Performers \ X THEN down[d] \o <<m>> ELSE down[d]
  BY <1>1, SentAll
<1>3. <<m>> \in Seq(Downs) /\ Els(<<m>>) = {m}
  BY ElsShort
<1>4. \A d \in Performers : perf[d] # "none"
  BY DEF Performers
<1> QED
  BY <1>2, <1>3, <1>4 DEF Feeds

LEMMA FeedTo ==
  ASSUME GraphTypes, NEW c \in Clients, perf[c] # "none", NEW s \in Seq(Downs), NEW K,
         \A m \in Els(s) : Proper(m) /\ m[1] \in K, down' = Sent(To(c, s))
  PROVE  down' \in [Clients -> Seq(Downs)] /\ Feeds(K)
<1>1. down \in [Clients -> Seq(Downs)]
  BY DEF GraphTypes
<1>2. /\ down' \in [Clients -> Seq(Downs)]
      /\ \A d \in Clients : d # c => down'[d] = down[d]
      /\ down'[c] = IF Online(c) THEN down[c] \o s ELSE down[c]
  BY <1>1, SentTo
<1> QED
  BY <1>2 DEF Feeds

(* Without an ACK, the order of the answers stays.                         *)
LEMMA StageStepAcks ==
  ASSUME GraphTypes, Acks, StageStep, NEW K, Feeds(K), "ack" \notin K
  PROVE  Acks'
<1> SUFFICES ASSUME NEW e \in Creatables PROVE Ack(e)'
  BY DEF Acks
<1>1. Ack(e) /\ e \in Entities
  BY GraphAssumption DEF Acks
<1>2. /\ answer'[e] = answer[e] /\ (ent'[e] = "none" <=> ent[e] = "none")
      /\ \A w \in waits' : w \in waits \/ answer[w[1]] # "none"
  BY <1>1 DEF StageStep, client
<1>3. ASSUME ent[e] = "none", answer[e] = "asked", NEW c \in Clients
      PROVE  Failing(down'[c], e)
  <2>1. Failing(down[c], e)
    BY <1>1, <1>3 DEF Ack
  <2>2. CASE down'[c] = down[c]
    BY <2>1, <2>2
  <2>3. CASE down'[c] # down[c]
    <3>1. PICK s \in Seq(Downs) : down'[c] = down[c] \o s /\ \A m \in Els(s) : m[1] \in K
      BY <2>3 DEF Feeds
    <3>2. \A m \in Els(s) : m # <<"ack", e>>
      BY <3>1
    <3>3. Failing(s, e)
      BY <3>2, FailingOther
    <3>4. down[c] \in Seq(Downs)
      BY DEF GraphTypes
    <3> QED
      BY <2>1, <3>1, <3>3, <3>4, FailingConcat
  <2> QED
    BY <2>2, <2>3
<1>4. \A c \in Clients : \A m \in Els(down'[c]) : m \in Els(down[c]) \/ Proper(m)
  BY StageStepQueues
<1>5. ASSUME answer[e] = "none", NEW c \in Clients, NEW m \in Els(down'[c]),
             m[1] \in {"ack", "error", "empty"}
      PROVE  m[2] # e
  <2>1. CASE m \in Els(down[c])
    BY <1>1, <1>5, <2>1 DEF Ack
  <2>2. CASE Proper(m)
    BY <1>5, <2>2 DEF Proper
  <2> QED
    BY <1>4, <2>1, <2>2
<1> QED
  BY <1>1, <1>2, <1>3, <1>5 DEF Ack

(* Without a factory request, the requests stay where they are.            *)
LEMMA StageStepMakes ==
  ASSUME GraphTypes, Makes, StageStep, NEW K, Feeds(K), "make" \notin K
  PROVE  Makes'
<1> SUFFICES ASSUME NEW e \in Creatables PROVE Make(e)'
  BY DEF Makes
<1>1. Make(e) /\ answer'[e] = answer[e] /\ used' = used
  BY DEF Makes, StageStep, client
<1>2. /\ \A c \in Clients : Els(up'[c]) \subseteq Els(up[c])
      /\ \A c \in Clients : Once(up[c], "make", e) => Once(up'[c], "make", e)
  BY StageStepQueues
<1>3. ASSUME NEW c \in Clients
      PROVE  /\ \A m \in Els(down'[c]) : Is(m, "make", e) => m \in Els(down[c])
             /\ Once(down'[c], "make", e)
  <2>1. Once(down[c], "make", e)
    BY <1>1 DEF Make
  <2>2. CASE down'[c] = down[c]
    BY <2>1, <2>2
  <2>3. CASE down'[c] # down[c]
    <3>1. PICK s \in Seq(Downs) : down'[c] = down[c] \o s /\ \A m \in Els(s) : m[1] \in K
      BY <2>3 DEF Feeds
    <3>2. \A m \in Els(s) : ~Is(m, "make", e)
      BY <3>1 DEF Is
    <3>3. down[c] \in Seq(Downs)
      BY DEF GraphTypes
    <3>4. Once(down[c] \o s, "make", e) /\ Els(down[c] \o s) = Els(down[c]) \cup Els(s)
      BY <2>1, <3>2, <3>3, OnceConcat, ElsConcat
    <3> QED
      BY <3>1, <3>2, <3>4
  <2> QED
    BY <2>2, <2>3
<1> QED
  BY <1>1, <1>2, <1>3 DEF Make

(* Client c heard nothing of e, whose record stays.                        *)
LEMMA MirrorStays ==
  ASSUME GraphTypes, NEW c \in Clients, NEW e \in Entities, Mirror(c, e), UNCHANGED client,
         Watch(c, e)' => /\ Watch(c, e) /\ (Found(e)' <=> Found(e)) /\ ver'[e] = ver[e]
                         /\ (Pending(e) => Pending(e)' \/ ~Found(e)),
         \/ down'[c] = down[c]
         \/ \E s \in Seq(Downs) : /\ down'[c] = down[c] \o s
                                  /\ \A m \in Els(s) : ~About(m, e) /\ m[1] # "synced"
  PROVE  Mirror(c, e)'
<1> SUFFICES ASSUME Watch(c, e)' PROVE \E R : Mirrored(c, e, R)'
  BY DEF Mirror
<1>1. PICK R : Mirrored(c, e, R)
  BY DEF Mirror
<1>2. Seen(c, e)' = Seen(c, e)
  BY DEF Seen, client
<1>3. Replays(Seen(c, e), down'[c], e, R) /\ (Snap(c)' => Snap(c))
  <2>1. CASE down'[c] = down[c]
    BY <1>1, <2>1 DEF Mirrored, Snap, client
  <2>2. CASE down'[c] # down[c]
    <3>1. PICK s \in Seq(Downs) : /\ down'[c] = down[c] \o s
                                  /\ \A m \in Els(s) : ~About(m, e) /\ m[1] # "synced"
      BY <2>2
    <3>2. down[c] \in Seq(Downs)
      BY DEF GraphTypes
    <3>3. Replays(R, s, e, R)
      BY <3>1, ReplayOther
    <3>4. Replays(Seen(c, e), down[c] \o s, e, R)
      BY <1>1, <3>2, <3>3, ReplayConcat DEF Mirrored
    <3>5. Els(down'[c]) = Els(down[c]) \cup Els(s)
      BY <3>1, <3>2, ElsConcat
    <3> QED
      BY <3>1, <3>4, <3>5 DEF Snap, client
  <2> QED
    BY <2>1, <2>2
<1>4. Mirrored(c, e, R)'
  BY <1>1, <1>2, <1>3 DEF Mirrored
<1> QED
  BY <1>4

LEMMA FeedsMirror ==
  ASSUME NEW K, Feeds(K), K \cap (Changes \cup {"synced"}) = {}, NEW c \in Clients, NEW e
  PROVE  \/ down'[c] = down[c]
         \/ \E s \in Seq(Downs) : /\ down'[c] = down[c] \o s
                                  /\ \A m \in Els(s) : ~About(m, e) /\ m[1] # "synced"
  BY DEF Feeds, About

(* Steps that leave the queues alone.                                      *)
LEMMA QuietStep ==
  ASSUME GraphTypes, down' = down
  PROVE  Feeds({}) /\ \A c \in Clients : down'[c] = down[c]
  BY DEF Feeds

LEMMA StageStepDone ==
  ASSUME GraphInv, StageStep, GraphTypes', Makes', Goings', Sendings', Acks', Mirrors'
  PROVE  GraphInv'
<1>1. Roles' /\ Births' /\ Known' /\ Lefts'
  BY StageStepKeeps DEF GraphInv
<1> QED
  BY <1>1 DEF GraphInv

LEMMA LoopDrainedKeeps ==
  ASSUME GraphInv, LoopDrained
  PROVE  GraphInv'
<1>1. /\ perf' = perf /\ ent' = ent /\ ver' = ver /\ arrivals' = arrivals
      /\ sending' = sending /\ waits' = waits /\ UNCHANGED client /\ up' = up /\ down' = down
      /\ clash' = clash /\ sending = {}
  BY DEF LoopDrained
<1>2. GraphTypes'
  BY <1>1 DEF GraphInv, GraphTypes, client
<1>3. StageStep
  BY <1>1 DEF StageStep
<1>4. Goings' /\ Sendings'
  BY <1>1 DEF GraphInv, Goings, Sendings
<1>5. Acks' /\ Makes'
  BY <1>1, <1>3, QuietStep, StageStepAcks, StageStepMakes DEF GraphInv
<1>6. Mirrors'
  <2> SUFFICES ASSUME NEW c \in Clients, NEW e \in Entities PROVE Mirror(c, e)'
    BY DEF Mirrors
  <2>1. Watch(c, e)' => /\ Watch(c, e) /\ (Found(e)' <=> Found(e)) /\ ver'[e] = ver[e]
                        /\ (Pending(e) => Pending(e)' \/ ~Found(e))
    BY <1>1 DEF Watch, Online, Found, Pending, client
  <2> QED
    BY <1>1, <2>1, MirrorStays DEF GraphInv, Mirrors
<1> QED
  BY <1>2, <1>3, <1>4, <1>5, <1>6, StageStepDone

LEMMA LoopReapKeeps ==
  ASSUME GraphInv, LoopReap
  PROVE  GraphInv'
<1>1. /\ ver' = ver /\ arrivals' = arrivals /\ sending' = sending /\ waits' = waits
      /\ UNCHANGED client /\ up' = up /\ down' = down /\ clash' = clash
      /\ loop = "reap" /\ sending = {}
  BY DEF LoopReap, GraphInv, Sendings
<1>2. /\ \A c \in Clients : perf'[c] = IF perf[c] = "going" THEN "freed" ELSE perf[c]
      /\ \A e \in Entities : ent'[e] = IF ent[e] \in {"going", "parted"} THEN "freed" ELSE ent[e]
      /\ perf' \in [Clients -> {"none", "in", "going", "freed"}]
      /\ ent' \in [Entities -> {"none", "in", "going", "parted", "freed"}]
  BY DEF LoopReap, GraphInv, GraphTypes
<1>3. GraphTypes'
  BY <1>1, <1>2 DEF GraphInv, GraphTypes, client
<1>4. StageStep
  BY <1>1, <1>2 DEF StageStep
<1>5. Goings'
  BY <1>2, GraphAssumption DEF GraphInv, Goings
<1>6. Sendings'
  BY <1>1 DEF GraphInv, Sendings
<1>7. Acks' /\ Makes'
  BY <1>1, <1>4, QuietStep, StageStepAcks, StageStepMakes DEF GraphInv
<1>8. Mirrors'
  <2> SUFFICES ASSUME NEW c \in Clients, NEW e \in Entities PROVE Mirror(c, e)'
    BY DEF Mirrors
  <2>1. Watch(c, e)' => /\ Watch(c, e) /\ (Found(e)' <=> Found(e)) /\ ver'[e] = ver[e]
                        /\ (Pending(e) => Pending(e)' \/ ~Found(e))
    <3>1. Home[e] \in Clients
      BY GraphAssumption
    <3>2. perf'[c] = "in" => perf[c] = "in"
      BY <1>2
    <3>3. perf'[Home[e]] = "in" => perf[Home[e]] = "in"
      BY <1>2, <3>1
    <3>4. perf[Home[e]] = "in" => ent[e] # "going"
      BY DEF GraphInv, Goings
    <3> QED
      BY <1>1, <1>2, <3>2, <3>3, <3>4 DEF Watch, Online, Found, Pending, client
  <2> QED
    BY <1>1, <2>1, MirrorStays DEF GraphInv, Mirrors
<1> QED
  BY <1>3, <1>4, <1>5, <1>6, <1>7, <1>8, StageStepDone

(* A performer goes, with its entities.                                    *)
LEMMA LeaveEffect ==
  ASSUME GraphInv, NEW c \in Clients, Leave({c})
  PROVE  /\ perf' \in [Clients -> {"none", "in", "going", "freed"}]
         /\ ent' \in [Entities -> {"none", "in", "going", "parted", "freed"}]
         /\ \A d \in Clients : /\ perf'[d] = "none" <=> perf[d] = "none"
                               /\ perf'[d] = "in" <=> perf[d] = "in" /\ d # c
                               /\ perf[d] \in {"going", "freed"} => perf'[d] \in {"going", "freed"}
         /\ \A e \in Entities : /\ ent'[e] = "none" <=> ent[e] = "none"
                                /\ Found(e)' <=> Found(e)
         /\ Goings'
<1>1. /\ \A d \in Clients : perf'[d] = IF d = c /\ perf[d] = "in" THEN "going" ELSE perf[d]
      /\ \A e \in Entities : ent'[e] = IF Home[e] = c /\ ent[e] = "in" THEN "going" ELSE ent[e]
      /\ perf' \in [Clients -> {"none", "in", "going", "freed"}]
      /\ ent' \in [Entities -> {"none", "in", "going", "parted", "freed"}]
  BY DEF Leave, GraphInv, GraphTypes
<1>2. Goings'
  <2> SUFFICES ASSUME NEW e \in Entities, ent'[e] = "going"
               PROVE  perf'[Home[e]] \in {"going", "freed"}
    BY DEF Goings
  <2>1. Home[e] \in Clients
    BY GraphAssumption
  <2>2. CASE ent[e] = "going"
    BY <1>1, <2>1, <2>2 DEF GraphInv, Goings
  <2>3. CASE ent[e] = "in" /\ Home[e] = c
    <3>1. phase[c] \notin {"out", "joining"}
      BY <2>3 DEF GraphInv, Births, Birth
    <3>2. perf[c] # "none"
      BY <3>1 DEF GraphInv, Roles, Role
    <3> QED
      BY <1>1, <2>3, <3>2 DEF GraphInv, GraphTypes
  <2> QED
    BY <1>1, <2>2, <2>3
<1> QED
  BY <1>1, <1>2 DEF Found

LEMMA EvictKeeps ==
  ASSUME GraphInv, NEW c \in Clients, Evict(c)
  PROVE  GraphInv'
<1>1. /\ Leave({c}) /\ ver' = ver /\ arrivals' = arrivals /\ sending' = sending /\ loop' = loop
      /\ waits' = waits /\ UNCHANGED client /\ up' = up /\ down' = down /\ clash' = clash
  BY DEF Evict
<1>2. /\ perf' \in [Clients -> {"none", "in", "going", "freed"}]
      /\ ent' \in [Entities -> {"none", "in", "going", "parted", "freed"}]
      /\ \A d \in Clients : /\ perf'[d] = "none" <=> perf[d] = "none"
                            /\ perf'[d] = "in" <=> perf[d] = "in" /\ d # c
                            /\ perf[d] \in {"going", "freed"} => perf'[d] \in {"going", "freed"}
      /\ \A e \in Entities : /\ ent'[e] = "none" <=> ent[e] = "none"
                             /\ Found(e)' <=> Found(e)
      /\ Goings'
  BY <1>1, LeaveEffect
<1>3. GraphTypes'
  BY <1>1, <1>2 DEF GraphInv, GraphTypes, client
<1>4. StageStep
  BY <1>1, <1>2 DEF StageStep
<1>5. Sendings'
  BY <1>1, <1>2 DEF GraphInv, Sendings
<1>6. Acks' /\ Makes'
  BY <1>1, <1>4, QuietStep, StageStepAcks, StageStepMakes DEF GraphInv
<1>7. Mirrors'
  <2> SUFFICES ASSUME NEW d \in Clients, NEW e \in Entities PROVE Mirror(d, e)'
    BY DEF Mirrors
  <2>1. Watch(d, e)' => /\ Watch(d, e) /\ (Found(e)' <=> Found(e)) /\ ver'[e] = ver[e]
                        /\ (Pending(e) => Pending(e)' \/ ~Found(e))
    BY <1>1, <1>2, GraphAssumption DEF Watch, Online, Pending, client
  <2> QED
    BY <1>1, <2>1, MirrorStays DEF GraphInv, Mirrors
<1> QED
  BY <1>2, <1>3, <1>4, <1>5, <1>6, <1>7, StageStepDone

(* The router takes a request other than to join from client c.            *)
LEMMA RouterTakes ==
  ASSUME GraphInv, NEW c \in Clients, up[c] # <<>>, Head(up[c])[1] # "join", Taken(c)
  PROVE  /\ up' \in [Clients -> Seq(Ups)]
         /\ phase[c] \notin {"out", "joining"} /\ perf[c] # "none"
         /\ \A d \in Clients :
              \/ up'[d] = up[d]
              \/ /\ phase[d] \notin {"out", "joining"} /\ Els(up'[d]) \subseteq Els(up[d])
                 /\ \A k, e : Once(up[d], k, e) => Once(up'[d], k, e)
         /\ Head(up[c]) \in Els(up[c]) /\ Head(up[c]) \in Ups
<1>1. up \in [Clients -> Seq(Ups)]
  BY DEF GraphInv, GraphTypes
<1>2. phase[c] \notin {"out", "joining"} /\ perf[c] # "none"
  BY Served DEF GraphInv
<1>3. /\ up' \in [Clients -> Seq(Ups)]
      /\ \A d \in Clients : d # c => up'[d] = up[d]
      /\ \A d \in Clients : Els(up'[d]) \subseteq Els(up[d])
      /\ Head(up[c]) \in Els(up[c]) /\ Head(up[c]) \in Ups
      /\ \A d \in Clients : \A k, e : Once(up[d], k, e) => Once(up'[d], k, e)
  BY <1>1, TakenEffect
<1> QED
  BY <1>2, <1>3

(* A request that has no effect.                                           *)
Dropped(c) ==
  /\ perf' = perf /\ ent' = ent /\ ver' = ver /\ arrivals' = arrivals /\ loop' = loop
  /\ sending' = sending /\ waits' = waits /\ UNCHANGED client /\ down' = down
  /\ clash' = clash /\ Taken(c) /\ up[c] # <<>> /\ Head(up[c])[1] # "join"

LEMMA DroppedKeeps ==
  ASSUME GraphInv, NEW c \in Clients, Dropped(c)
  PROVE  GraphInv'
<1>1. /\ perf' = perf /\ ent' = ent /\ ver' = ver /\ arrivals' = arrivals /\ loop' = loop
      /\ sending' = sending /\ waits' = waits /\ UNCHANGED client /\ down' = down
      /\ clash' = clash /\ Taken(c) /\ up[c] # <<>> /\ Head(up[c])[1] # "join"
  BY DEF Dropped
<1>2. /\ up' \in [Clients -> Seq(Ups)]
      /\ \A d \in Clients :
           \/ up'[d] = up[d]
           \/ /\ phase[d] \notin {"out", "joining"} /\ Els(up'[d]) \subseteq Els(up[d])
              /\ \A k, e : Once(up[d], k, e) => Once(up'[d], k, e)
  BY <1>1, RouterTakes
<1>3. GraphTypes'
  BY <1>1, <1>2 DEF GraphInv, GraphTypes, client
<1>4. StageStep
  BY <1>1, <1>2 DEF StageStep
<1>5. Goings' /\ Sendings'
  BY <1>1 DEF GraphInv, Goings, Sendings, Found
<1>6. Acks' /\ Makes'
  BY <1>1, <1>4, QuietStep, StageStepAcks, StageStepMakes DEF GraphInv
<1>7. Mirrors'
  <2> SUFFICES ASSUME NEW d \in Clients, NEW e \in Entities PROVE Mirror(d, e)'
    BY DEF Mirrors
  <2>1. Watch(d, e)' => /\ Watch(d, e) /\ (Found(e)' <=> Found(e)) /\ ver'[e] = ver[e]
                        /\ (Pending(e) => Pending(e)' \/ ~Found(e))
    BY <1>1 DEF Watch, Online, Found, Pending, client
  <2> QED
    BY <1>1, <2>1, MirrorStays DEF GraphInv, Mirrors
<1> QED
  BY <1>3, <1>4, <1>5, <1>6, <1>7, StageStepDone

LEMMA NoSenderKeeps ==
  ASSUME GraphInv, NEW c \in Clients, NoSender(c)
  PROVE  GraphInv'
  BY DroppedKeeps DEF NoSender, Request, Dropped

LEMMA HandleLeaveKeeps ==
  ASSUME GraphInv, NEW c \in Clients, HandleLeave(c)
  PROVE  GraphInv'
<1>1. /\ Leave({c}) /\ ver' = ver /\ arrivals' = arrivals /\ sending' = sending /\ loop' = loop
      /\ waits' = waits /\ UNCHANGED client /\ clash' = clash
      /\ Taken(c) /\ up[c] # <<>> /\ Head(up[c])[1] # "join"
      /\ c \in Performers /\ down' = Sent(All({}, <<"left", c>>))
  BY DEF HandleLeave, Request
<1>2. /\ up' \in [Clients -> Seq(Ups)]
      /\ \A d \in Clients :
           \/ up'[d] = up[d]
           \/ /\ phase[d] \notin {"out", "joining"} /\ Els(up'[d]) \subseteq Els(up[d])
              /\ \A k, e : Once(up[d], k, e) => Once(up'[d], k, e)
  BY <1>1, RouterTakes
<1>3. /\ perf' \in [Clients -> {"none", "in", "going", "freed"}]
      /\ ent' \in [Entities -> {"none", "in", "going", "parted", "freed"}]
      /\ \A d \in Clients : /\ perf'[d] = "none" <=> perf[d] = "none"
                            /\ perf'[d] = "in" <=> perf[d] = "in" /\ d # c
                            /\ perf[d] \in {"going", "freed"} => perf'[d] \in {"going", "freed"}
      /\ \A e \in Entities : /\ ent'[e] = "none" <=> ent[e] = "none"
                             /\ Found(e)' <=> Found(e)
      /\ Goings'
  BY <1>1, LeaveEffect
<1>4. <<"left", c>> \in Downs /\ Proper(<<"left", c>>)
  <2>1. perf'[c] \in {"going", "freed"}
    BY <1>1, <1>3 DEF Performers
  <2> QED
    BY <2>1 DEF Downs, Proper, About, Changes
<1>5. down' \in [Clients -> Seq(Downs)] /\ Feeds({"left"})
  BY <1>1, <1>4, FeedAll DEF GraphInv
<1>6. GraphTypes'
  BY <1>1, <1>2, <1>3, <1>5 DEF GraphInv, GraphTypes, client
<1>7. StageStep
  BY <1>1, <1>2, <1>3, <1>5, FeedsFed DEF StageStep
<1>8. Sendings'
  BY <1>1, <1>3 DEF GraphInv, Sendings
<1>9. Acks' /\ Makes'
  BY <1>5, <1>7, StageStepAcks, StageStepMakes DEF GraphInv
<1>10. Mirrors'
  <2> SUFFICES ASSUME NEW d \in Clients, NEW e \in Entities PROVE Mirror(d, e)'
    BY DEF Mirrors
  <2>1. Watch(d, e)' => /\ Watch(d, e) /\ (Found(e)' <=> Found(e)) /\ ver'[e] = ver[e]
                        /\ (Pending(e) => Pending(e)' \/ ~Found(e))
    BY <1>1, <1>3, GraphAssumption DEF Watch, Online, Pending, client
  <2>2. \/ down'[d] = down[d]
        \/ \E s \in Seq(Downs) : /\ down'[d] = down[d] \o s
                                 /\ \A m \in Els(s) : ~About(m, e) /\ m[1] # "synced"
    <3>1. {"left"} \cap (Changes \cup {"synced"}) = {}
      BY DEF Changes
    <3> QED
      BY <1>5, <3>1, FeedsMirror
  <2> QED
    BY <1>1, <2>1, <2>2, MirrorStays DEF GraphInv, Mirrors
<1> QED
  BY <1>3, <1>6, <1>7, <1>8, <1>9, <1>10, StageStepDone

(* What arrives is found, or is not announced.                             *)
LEMMA LoopArriveKeeps ==
  ASSUME GraphInv, LoopArrive
  PROVE  GraphInv'
<1> DEFINE o == Head(arrivals)
<1>1. /\ perf' = perf /\ ent' = ent /\ ver' = ver /\ arrivals' = Tail(arrivals) /\ loop' = loop
      /\ waits' = waits /\ UNCHANGED client /\ up' = up /\ down' = down /\ clash' = clash
      /\ loop = "arrive" /\ sending = {} /\ arrivals # <<>>
      /\ \/ sending' = {}
         \/ o \in Clients /\ sending' = {<<o, 1>>}
         \/ o \notin Clients /\ Found(o) /\ sending' = {<<o, ver[o]>>}
      /\ o \notin Clients /\ Found(o) => sending' = {<<o, ver[o]>>}
  BY DEF LoopArrive
<1>2. arrivals \in Seq(Objects)
  BY DEF GraphInv, GraphTypes
<1>3. /\ arrivals' \in Seq(Objects) /\ Els(arrivals) = Els(arrivals') \cup {o}
      /\ o \in Els(arrivals) /\ o \in Objects
  BY <1>1, <1>2, ElsTail
<1> HIDE DEF o
<1>4. sending' \subseteq Objects \X (1..MaxVersion)
  <2>1. o \notin Clients /\ Found(o) => o \in Entities /\ ver[o] \in 1..MaxVersion
    BY <1>3 DEF Objects, Found, GraphInv, GraphTypes
  <2>2. 1 \in 1..MaxVersion
    BY GraphAssumption
  <2> QED
    BY <1>1, <1>3, <2>1, <2>2
<1>5. GraphTypes'
  BY <1>1, <1>3, <1>4 DEF GraphInv, GraphTypes, client
<1>6. StageStep
  <2>1. \A s \in sending' : s[1] = o
    BY <1>1
  <2> QED
    BY <1>1, <1>3, <2>1 DEF StageStep
<1>7. Goings'
  BY <1>1 DEF GraphInv, Goings
<1>8. Sendings'
  <2>1. loop' = "arrive"
    BY <1>1
  <2>2. \A s, t \in sending' : s = t
    BY <1>1
  <2>3. ASSUME NEW s \in sending', s[1] \in Entities \ clash
        PROVE  Found(s[1])' /\ ver'[s[1]] = s[2]
    <3>1. o \notin Clients => Found(o) /\ s[1] = o /\ s[2] = ver[o]
      BY <1>1, <2>3
    <3>2. o \in Clients => s[1] = o
      BY <1>1, <2>3
    <3>3. o \notin Clients
      BY <2>3, <3>2, GraphAssumption
    <3> QED
      BY <1>1, <3>1, <3>3 DEF Found
  <2> QED
    BY <1>1, <2>1, <2>2, <2>3 DEF Sendings
<1>9. Acks' /\ Makes'
  BY <1>1, <1>6, QuietStep, StageStepAcks, StageStepMakes DEF GraphInv
<1>10. Mirrors'
  <2> SUFFICES ASSUME NEW c \in Clients, NEW e \in Entities PROVE Mirror(c, e)'
    BY DEF Mirrors
  <2>1. Pending(e) => Pending(e)' \/ ~Found(e)
    <3>1. CASE e \in Els(arrivals')
      BY <3>1 DEF Pending
    <3>2. CASE e = o
      <4>1. e \notin Clients
        BY GraphAssumption
      <4>2. Found(e) => <<o, ver[o]>> \in sending' /\ <<o, ver[o]>>[1] = e
        BY <1>1, <3>2, <4>1
      <4> QED
        BY <4>2 DEF Pending
    <3> QED
      BY <1>1, <1>3, <3>1, <3>2 DEF Pending
  <2>2. Watch(c, e)' => /\ Watch(c, e) /\ (Found(e)' <=> Found(e)) /\ ver'[e] = ver[e]
                        /\ (Pending(e) => Pending(e)' \/ ~Found(e))
    BY <1>1, <2>1 DEF Watch, Online, Found, client
  <2> QED
    BY <1>1, <2>2, MirrorStays DEF GraphInv, Mirrors
<1> QED
  BY <1>5, <1>6, <1>7, <1>8, <1>9, <1>10, StageStepDone

(* A message that changes e reaches client c, which watches e.             *)
LEMMA MirrorMore ==
  ASSUME GraphTypes, NEW c \in Clients, NEW e \in Entities, NEW R, Mirrored(c, e, R),
         NEW m \in Downs, m[1] # "synced", UNCHANGED client, down'[c] = down[c] \o <<m>>
  PROVE  /\ Replays(Seen(c, e)', down'[c], e, After(R, m, e))
         /\ Snap(c)' => Snap(c)
<1>1. down[c] \in Seq(Downs) /\ <<m>> \in Seq(Downs) /\ Els(<<m>>) = {m}
  BY ElsShort DEF GraphTypes
<1>2. Replays(R, <<m>>, e, After(R, m, e))
  BY ReplayOne
<1>3. Replays(Seen(c, e), down[c] \o <<m>>, e, After(R, m, e))
  BY <1>1, <1>2, ReplayConcat DEF Mirrored
<1>4. Seen(c, e)' = Seen(c, e)
  BY DEF Seen, client
<1>5. ASSUME NEW q \in Seq(Downs), NEW s \in Seq(Downs)
      PROVE  Els(q \o s) = Els(q) \cup Els(s)
  BY ElsConcat
<1>6. Els(down'[c]) = Els(down[c]) \cup {m}
  BY <1>1, <1>5
<1> QED
  BY <1>3, <1>4, <1>6 DEF Snap, client

LEMMA LoopSendKeeps ==
  ASSUME GraphInv, LoopSend
  PROVE  GraphInv'
<1>1. /\ perf' = perf /\ ent' = ent /\ ver' = ver /\ arrivals' = arrivals /\ loop' = loop
      /\ waits' = waits /\ UNCHANGED client /\ up' = up /\ clash' = clash /\ sending' = {}
  BY DEF LoopSend
<1>2. PICK t \in sending :
        down' = Sent(All(IF t[1] \in Clients THEN {t[1]} ELSE {Home[t[1]]},
                         <<"create", t[1], t[2]>>))
  BY DEF LoopSend
<1> DEFINE o == t[1]
           X == IF o \in Clients THEN {o} ELSE {Home[o]}
           m == <<"create", o, t[2]>>
<1>3. o \in Objects /\ t[2] \in 1..MaxVersion /\ down' = Sent(All(X, m))
      /\ \A s \in sending : s = t
  BY <1>2 DEF GraphInv, GraphTypes, Sendings
<1> HIDE DEF X
<1>4. m \in Downs /\ Proper(m)
  <2>1. m \in {"create"} \X Objects \X (1..MaxVersion)
    BY <1>3
  <2>2. ASSUME NEW e \in Entities, e = o PROVE ent[e] # "none"
    BY <2>2 DEF GraphInv, Known, Unheard
  <2> QED
    BY <2>1, <2>2 DEF Downs, Proper, About
<1>5. m[1] = "create" /\ m[2] = o /\ m[3] = t[2]
  OBVIOUS
<1> HIDE DEF m
<1>6. down' \in [Clients -> Seq(Downs)] /\ Feeds({"create"})
  BY <1>3, <1>4, <1>5, FeedAll DEF GraphInv
<1>7. \A d \in Clients :
        down'[d] = IF Online(d) /\ d \in Performers \ X THEN down[d] \o <<m>> ELSE down[d]
  <2>1. down \in [Clients -> Seq(Downs)]
    BY DEF GraphInv, GraphTypes
  <2> QED
    BY <1>3, <1>4, <2>1, SentAll
<1>8. GraphTypes'
  BY <1>1, <1>6 DEF GraphInv, GraphTypes, client
<1>9. StageStep
  BY <1>1, <1>6, FeedsFed DEF StageStep
<1>10. Goings' /\ Sendings'
  BY <1>1 DEF GraphInv, Goings, Sendings
<1>11. Acks' /\ Makes'
  BY <1>6, <1>9, StageStepAcks, StageStepMakes DEF GraphInv
<1>12. Mirrors'
  <2> SUFFICES ASSUME NEW d \in Clients, NEW e \in Entities PROVE Mirror(d, e)'
    BY DEF Mirrors
  <2>1. /\ Watch(d, e)' <=> Watch(d, e)
        /\ Found(e)' <=> Found(e)
        /\ ver'[e] = ver[e]
    BY <1>1 DEF Watch, Online, Found, client
  <2>2. CASE e # o
    <3>1. Pending(e) => Pending(e)'
      BY <1>1, <1>3, <2>2 DEF Pending
    <3>2. ~About(m, e)
      BY <1>5, <2>2 DEF About
    <3>3. \/ down'[d] = down[d]
          \/ \E s \in Seq(Downs) : /\ down'[d] = down[d] \o s
                                   /\ \A n \in Els(s) : ~About(n, e) /\ n[1] # "synced"
      <4>1. <<m>> \in Seq(Downs) /\ Els(<<m>>) = {m}
        BY <1>4, ElsShort
      <4> QED
        BY <1>5, <1>7, <3>2, <4>1
    <3> QED
      BY <1>1, <2>1, <3>1, <3>3, MirrorStays DEF GraphInv, Mirrors
  <2>3. CASE e = o
    <3> SUFFICES ASSUME Watch(d, e) PROVE \E R : Mirrored(d, e, R)'
      BY <2>1 DEF Mirror
    <3>1. Found(e) /\ ver[e] = t[2]
      BY <2>3 DEF Watch, GraphInv, Sendings
    <3>2. PICK R : Mirrored(d, e, R)
      BY DEF GraphInv, Mirrors, Mirror
    <3>3. down'[d] = down[d] \o <<m>>
      <4>1. o \notin Clients /\ X = {Home[e]}
        BY <2>3, GraphAssumption DEF X
      <4> QED
        BY <1>7, <4>1 DEF Watch, Performers
    <3>4. /\ Replays(Seen(d, e)', down'[d], e, After(R, m, e))
          /\ Snap(d)' => Snap(d)
      BY <1>1, <1>4, <1>5, <3>2, <3>3, MirrorMore DEF GraphInv
    <3>5. After(R, m, e) = {ver[e]}
      BY <1>5, <2>3, <3>1, <3>2 DEF After, About, Changes, Mirrored
    <3>6. Mirrored(d, e, After(R, m, e))'
      BY <2>1, <3>1, <3>4, <3>5 DEF Mirrored
    <3> QED
      BY <3>6
  <2> QED
    BY <2>2, <2>3
<1> QED
  BY <1>8, <1>9, <1>10, <1>11, <1>12, StageStepDone

(* A snapshot lists the performers and what is found below them.           *)
LEMMA SnapshotLists ==
  ASSUME GraphTypes, NEW c \in Clients
  PROVE  /\ Snapshot(c) \in Seq(Downs)
         /\ Els(Snapshot(c)) =
              {<<"create", p, 1>> : p \in Performers \ {c}} \cup
              {<<"create", e, ver[e]>> :
                 e \in {x \in Entities : Found(x) /\ Home[x] \in Performers \ {c}}}
<1> DEFINE P == Performers \ {c}
           E == {x \in Entities : Found(x) /\ Home[x] \in P}
           S == {<<"create", p, 1>> : p \in P}
           T == {<<"create", e, ver[e]>> : e \in E}
<1>1. IsFiniteSet(P) /\ IsFiniteSet(E)
  <2>1. P \subseteq Clients /\ E \subseteq Entities
    BY DEF Performers
  <2> QED
    BY <2>1, FS_Subset, GraphAssumption
<1>2. S \subseteq Downs
  <2>1. \A p \in P : p \in Objects /\ 1 \in 1..MaxVersion
    BY GraphAssumption DEF Performers, Objects
  <2> QED
    BY <2>1 DEF Downs
<1>3. T \subseteq Downs
  <2>1. \A e \in E : e \in Objects /\ ver[e] \in 1..MaxVersion
    BY DEF Objects, GraphTypes, Found
  <2> QED
    BY <2>1 DEF Downs
<1>4. Snapshot(c) = SetToSeq(S) \o SetToSeq(T)
  BY DEF Snapshot
<1> HIDE DEF P, E
<1>5. IsFiniteSet(S) /\ IsFiniteSet(T)
  <2>1. [p \in P |-> <<"create", p, 1>>] \in Surjection(P, S)
    BY DEF Surjection
  <2>2. [e \in E |-> <<"create", e, ver[e]>>] \in Surjection(E, T)
    BY DEF Surjection
  <2> QED
    BY <1>1, <2>1, <2>2, FS_Surjection
<1> HIDE DEF S, T
<1>6. /\ SetToSeq(S) \in Seq(S) /\ Els(SetToSeq(S)) = S
      /\ SetToSeq(T) \in Seq(T) /\ Els(SetToSeq(T)) = T
  BY <1>5, SetToSeqLists
<1>7. SetToSeq(S) \in Seq(Downs) /\ SetToSeq(T) \in Seq(Downs)
  BY <1>2, <1>3, <1>6
<1>8. /\ SetToSeq(S) \o SetToSeq(T) \in Seq(Downs)
      /\ Els(SetToSeq(S) \o SetToSeq(T)) = Els(SetToSeq(S)) \cup Els(SetToSeq(T))
  BY <1>7, ElsConcat
<1> QED
  BY <1>4, <1>6, <1>8 DEF S, T, E, P

LEMMA HandleSyncKeeps ==
  ASSUME GraphInv, NEW c \in Clients, HandleSync(c)
  PROVE  GraphInv'
<1> DEFINE s == IF c \in Performers THEN Append(Snapshot(c), <<"synced">>) ELSE <<<<"refused">>>>
<1>1. /\ perf' = perf /\ ent' = ent /\ ver' = ver /\ arrivals' = arrivals /\ loop' = loop
      /\ sending' = sending /\ waits' = waits /\ UNCHANGED client /\ clash' = clash
      /\ Taken(c) /\ up[c] # <<>> /\ Head(up[c])[1] # "join" /\ down' = Sent(To(c, s))
  BY DEF HandleSync, Request, stage
<1>2. /\ up' \in [Clients -> Seq(Ups)] /\ perf[c] # "none"
      /\ \A d \in Clients :
           \/ up'[d] = up[d]
           \/ /\ phase[d] \notin {"out", "joining"} /\ Els(up'[d]) \subseteq Els(up[d])
              /\ \A k, e : Once(up[d], k, e) => Once(up'[d], k, e)
  BY <1>1, RouterTakes
<1>3. GraphTypes /\ down \in [Clients -> Seq(Downs)]
  BY DEF GraphInv, GraphTypes
<1>4. Snapshot(c) \in Seq(Downs)
      /\ Els(Snapshot(c)) =
              {<<"create", p, 1>> : p \in Performers \ {c}} \cup
              {<<"create", e, ver[e]>> :
                 e \in {x \in Entities : Found(x) /\ Home[x] \in Performers \ {c}}}
  BY <1>3, SnapshotLists
<1>5. /\ s \in Seq(Downs)
      /\ c \in Performers => Els(s) = Els(Snapshot(c)) \cup {<<"synced">>}
      /\ c \notin Performers => Els(s) = {<<"refused">>}
  <2>1. /\ <<"synced">> \in Downs /\ <<"refused">> \in Downs
        /\ <<<<"synced">>>> \in Seq(Downs) /\ <<<<"refused">>>> \in Seq(Downs)
    BY DEF Downs
  <2>2. Append(Snapshot(c), <<"synced">>) = Snapshot(c) \o <<<<"synced">>>>
    BY <1>4, <2>1
  <2>3. /\ Snapshot(c) \o <<<<"synced">>>> \in Seq(Downs)
        /\ Els(Snapshot(c) \o <<<<"synced">>>>) = Els(Snapshot(c)) \cup Els(<<<<"synced">>>>)
    BY <1>4, <2>1, ElsConcat
  <2>4. Els(<<<<"synced">>>>) = {<<"synced">>} /\ Els(<<<<"refused">>>>) = {<<"refused">>}
    BY ElsShort
  <2> QED
    BY <2>1, <2>2, <2>3, <2>4
<1> HIDE DEF s
<1>6. ASSUME NEW m \in Els(s)
      PROVE  /\ Proper(m) /\ m[1] \in {"create", "synced", "refused"}
             /\ \A e \in Entities : About(m, e) => m[1] = "create" /\ m[3] = ver[e] /\ Found(e)
  <2>1. CASE m \in {<<"synced">>, <<"refused">>}
    BY <2>1 DEF Proper, About, Changes
  <2>2. CASE \E p \in Performers \ {c} : m = <<"create", p, 1>>
    <3>1. \A e \in Entities : ~About(m, e)
      BY <2>2, GraphAssumption DEF About, Performers
    <3> QED
      BY <2>2, <3>1 DEF Proper
  <2>3. CASE \E e \in Entities : Found(e) /\ m = <<"create", e, ver[e]>>
    BY <2>3 DEF Proper, About, Found
  <2> QED
    BY <1>4, <1>5, <2>1, <2>2, <2>3
<1>7. down' \in [Clients -> Seq(Downs)] /\ Feeds({"create", "synced", "refused"})
  BY <1>1, <1>2, <1>3, <1>5, <1>6, FeedTo
<1>8. /\ \A d \in Clients : d # c => down'[d] = down[d]
      /\ down'[c] = IF Online(c) THEN down[c] \o s ELSE down[c]
  BY <1>1, <1>3, <1>5, SentTo
<1>9. GraphTypes'
  BY <1>1, <1>2, <1>7 DEF GraphInv, GraphTypes, client
<1>10. StageStep
  BY <1>1, <1>2, <1>7, FeedsFed DEF StageStep
<1>11. Goings' /\ Sendings'
  BY <1>1 DEF GraphInv, Goings, Sendings, Found
<1>12. Acks' /\ Makes'
  BY <1>7, <1>10, StageStepAcks, StageStepMakes DEF GraphInv
<1>13. Mirrors'
  <2> SUFFICES ASSUME NEW d \in Clients, NEW e \in Entities PROVE Mirror(d, e)'
    BY DEF Mirrors
  <2>1. /\ Watch(d, e)' <=> Watch(d, e)
        /\ Found(e)' <=> Found(e)
        /\ ver'[e] = ver[e]
        /\ Pending(e)' <=> Pending(e)
    BY <1>1 DEF Watch, Online, Found, Pending, client
  <2>2. CASE d # c
    BY <1>1, <1>3, <1>8, <2>1, <2>2, MirrorStays DEF GraphInv, Mirrors
  <2>3. CASE d = c
    <3> SUFFICES ASSUME Watch(c, e) PROVE \E R : Mirrored(c, e, R)'
      BY <2>1, <2>3 DEF Mirror
    <3>1. PICK R : Mirrored(c, e, R)
      BY DEF GraphInv, Mirrors, Mirror
    <3>2. c \in Performers /\ down'[c] = down[c] \o s
      BY <1>8 DEF Watch, Performers
    <3>3. Introduces(s, e, ver[e])
      BY <1>6 DEF Introduces
    <3>4. PICK T : /\ Replays(R, s, e, T)
                   /\ T = R \/ T = R \cup {ver[e]}
                   /\ (\E m \in Els(s) : About(m, e)) => ver[e] \in T
                   /\ (\A m \in Els(s) : ~About(m, e)) => T = R
      <4>1. PICK T : T = Introduced(R, s, e, ver[e])
        OBVIOUS
      <4>2. Replays(R, s, e, T)
        BY <1>5, <3>3, <4>1, ReplaySnap
      <4>3. /\ T = R \/ T = R \cup {ver[e]}
            /\ (\E m \in Els(s) : About(m, e)) => ver[e] \in T
            /\ (\A m \in Els(s) : ~About(m, e)) => T = R
        BY <4>1 DEF Introduced
      <4> QED
        BY <4>2, <4>3
    <3>5. Replays(Seen(c, e)', down'[c], e, T)
      <4>1. down[c] \in Seq(Downs)
        BY <1>3
      <4>2. Replays(Seen(c, e), down[c] \o s, e, T)
        BY <1>5, <3>1, <3>4, <4>1, ReplayConcat DEF Mirrored
      <4>3. Seen(c, e)' = Seen(c, e)
        BY <1>1 DEF Seen, client
      <4> QED
        BY <3>2, <4>2, <4>3
    <3>6. CASE Found(e)
      <4>1. <<"create", e, ver[e]>> \in Els(s)
        <5>1. Home[e] \in Performers \ {c}
          BY GraphAssumption DEF Watch, Performers
        <5> QED
          BY <1>4, <1>5, <3>2, <3>6, <5>1
      <4>2. About(<<"create", e, ver[e]>>, e)
        BY DEF About, Changes
      <4>3. ver[e] \in T
        BY <3>4, <4>1, <4>2
      <4>4. T \subseteq {ver[e]}
        BY <3>1, <3>4, <3>6 DEF Mirrored
      <4>5. Mirrored(c, e, T)'
        BY <2>1, <3>5, <3>6, <4>3, <4>4 DEF Mirrored
      <4> QED
        BY <4>5
    <3>7. CASE ~Found(e)
      <4>1. T = R
        BY <1>6, <3>4, <3>7
      <4>2. Mirrored(c, e, T)'
        BY <2>1, <3>1, <3>5, <3>7, <4>1 DEF Mirrored
      <4> QED
        BY <4>2
    <3> QED
      BY <3>6, <3>7
  <2> QED
    BY <2>2, <2>3
<1> QED
  BY <1>9, <1>10, <1>11, <1>12, <1>13, StageStepDone

(* The change of an entity that is found under the name in the request.    *)
LEMMA HitEffect ==
  ASSUME GraphInv, NEW c \in Clients, Request(c, "update") \/ Request(c, "destroy"),
         Found(Item(c)), ver[Item(c)] = Head(up[c])[3], Clashes(Item(c)), sending' = sending,
         down' = Sent(All({c}, Head(up[c])))
  PROVE  /\ Item(c) \in Entities /\ Home[Item(c)] = c /\ ent[Item(c)] # "none"
         /\ Head(up[c]) \in Downs /\ About(Head(up[c]), Item(c))
         /\ Request(c, "update") => ver[Item(c)] \in 1..(MaxVersion - 1)
         /\ down' \in [Clients -> Seq(Downs)] /\ Feeds({"update", "destroy"})
         /\ \A d \in Clients : Online(d) /\ perf[d] = "in" /\ d # c =>
              down'[d] = down[d] \o <<Head(up[c])>>
         /\ \A d \in Clients : \/ down'[d] = down[d]
                               \/ down'[d] = down[d] \o <<Head(up[c])>>
         /\ clash \subseteq clash'
         /\ \A s \in sending' : s[1] \notin clash' => s[1] # Item(c)
<1> DEFINE m == Head(up[c])
           e == Item(c)
<1>1. up[c] # <<>> /\ m[1] \in {"update", "destroy"} /\ m[2] = e
      /\ (Request(c, "update") => m[1] = "update")
  BY DEF Request, Item
<1>2. up[c] \in Seq(Ups) /\ down \in [Clients -> Seq(Downs)]
  BY DEF GraphInv, GraphTypes
<1>3. m \in Ups /\ m \in Els(up[c])
  BY <1>1, <1>2, ElsTail
<1>4. ver[e] = m[3] /\ Found(e) /\ down' = Sent(All({c}, m)) /\ Clashes(e)
  OBVIOUS
<1> HIDE DEF m, e
<1>5. /\ m[1] \in Changes /\ e \in Entities /\ m \in Downs /\ About(m, e)
      /\ m[1] = "update" => m[3] \in 1..(MaxVersion - 1)
  <2>1. m[1] \in Changes
    BY <1>1 DEF Changes
  <2> QED
    BY <1>1, <1>3, <2>1, UpKinds DEF About
<1>6. Home[e] = c /\ ent[e] # "none"
  BY <1>3, <1>4, <1>5 DEF GraphInv, Births, Birth, Found
<1>7. Proper(m)
  <2>1. \A x \in Entities : About(m, x) => x = e
    BY <1>1 DEF About
  <2> QED
    BY <1>1, <1>6, <2>1 DEF Proper
<1>8. /\ down' \in [Clients -> Seq(Downs)] /\ Feeds({m[1]})
  BY <1>4, <1>5, <1>7, FeedAll DEF GraphInv
<1>9. Feeds({"update", "destroy"})
  BY <1>1, <1>8 DEF Feeds
<1>10. \A d \in Clients :
         down'[d] = IF Online(d) /\ d \in Performers \ {c} THEN down[d] \o <<m>> ELSE down[d]
  BY <1>2, <1>4, <1>5, SentAll
<1>11. \A d \in Clients : Online(d) /\ perf[d] = "in" /\ d # c => down'[d] = down[d] \o <<m>>
  BY <1>10 DEF Performers
<1>12. clash \subseteq clash' /\ \A s \in sending' : s[1] \notin clash' => s[1] # e
  BY <1>4 DEF Clashes
<1> QED
  BY <1>1, <1>4, <1>5, <1>6, <1>8, <1>9, <1>10, <1>11, <1>12 DEF m, e

(* What holds of other entities after a change of e.                       *)
LEMMA OtherMirror ==
  ASSUME GraphTypes, NEW d \in Clients, NEW x \in Entities, NEW m \in Downs, Mirror(d, x),
         ~About(m, x), m[1] # "synced", UNCHANGED client,
         down'[d] = down[d] \/ down'[d] = down[d] \o <<m>>,
         perf' = perf, arrivals' = arrivals, sending' = sending, clash \subseteq clash',
         Found(x)' <=> Found(x), ver'[x] = ver[x]
  PROVE  Mirror(d, x)'
<1>1. Watch(d, x)' => /\ Watch(d, x) /\ (Found(x)' <=> Found(x)) /\ ver'[x] = ver[x]
                      /\ (Pending(x) => Pending(x)' \/ ~Found(x))
  BY DEF Watch, Online, Pending, client
<1>2. \/ down'[d] = down[d]
      \/ \E s \in Seq(Downs) : /\ down'[d] = down[d] \o s
                               /\ \A n \in Els(s) : ~About(n, x) /\ n[1] # "synced"
  <2>1. <<m>> \in Seq(Downs) /\ Els(<<m>>) = {m}
    BY ElsShort
  <2> QED
    BY <2>1
<1> QED
  BY <1>1, <1>2, MirrorStays

LEMMA HandleUpdateKeeps ==
  ASSUME GraphInv, NEW c \in Clients, HandleUpdate(c)
  PROVE  GraphInv'
<1> DEFINE m == Head(up[c])
           e == Item(c)
           hit == Found(e) /\ ver[e] = m[3]
<1>1. /\ perf' = perf /\ ent' = ent /\ arrivals' = arrivals /\ loop' = loop
      /\ sending' = sending /\ waits' = waits /\ UNCHANGED client
      /\ Taken(c) /\ up[c] # <<>> /\ Head(up[c])[1] = "update" /\ Request(c, "update")
  BY DEF HandleUpdate, Request
<1>2. CASE ~hit
  <2>1. ver' = ver /\ down' = down /\ clash' = clash
    BY <1>2 DEF HandleUpdate
  <2>2. Dropped(c)
    BY <1>1, <2>1 DEF Dropped
  <2> QED
    BY <2>2, DroppedKeeps
<1>3. CASE hit
  <2>1. /\ ver' = [ver EXCEPT ![e] = @ + 1] /\ down' = Sent(All({c}, m)) /\ Clashes(e)
        /\ Found(e) /\ ver[e] = m[3] /\ m[1] = "update" /\ m[2] = e
    BY <1>1, <1>3 DEF HandleUpdate, Item
  <2>2. /\ e \in Entities /\ Home[e] = c /\ ent[e] # "none"
        /\ m \in Downs /\ About(m, e)
        /\ ver[e] \in 1..(MaxVersion - 1)
        /\ down' \in [Clients -> Seq(Downs)] /\ Feeds({"update", "destroy"})
        /\ \A d \in Clients : Online(d) /\ perf[d] = "in" /\ d # c => down'[d] = down[d] \o <<m>>
        /\ \A d \in Clients : down'[d] = down[d] \/ down'[d] = down[d] \o <<m>>
        /\ clash \subseteq clash'
        /\ \A s \in sending' : s[1] \notin clash' => s[1] # e
    BY <1>1, <2>1, HitEffect
  <2>3. /\ up' \in [Clients -> Seq(Ups)]
        /\ \A d \in Clients :
             \/ up'[d] = up[d]
             \/ /\ phase[d] \notin {"out", "joining"} /\ Els(up'[d]) \subseteq Els(up[d])
                /\ \A k, x : Once(up[d], k, x) => Once(up'[d], k, x)
    BY <1>1, RouterTakes
  <2> HIDE DEF m, e
  <2>4. /\ ver' \in [Entities -> 0..MaxVersion] /\ ver'[e] = ver[e] + 1
        /\ \A x \in Entities : x # e => ver'[x] = ver[x]
        /\ \A x \in Entities : ent[x] # "none" => ver'[x] \in 1..MaxVersion
    <3>1. ver[e] + 1 \in 1..MaxVersion /\ ver[e] + 1 \in 0..MaxVersion
      BY <2>2, GraphAssumption
    <3>2. /\ ver \in [Entities -> 0..MaxVersion]
          /\ \A x \in Entities : ent[x] # "none" => ver[x] \in 1..MaxVersion
      BY DEF GraphInv, GraphTypes
    <3> QED
      BY <2>1, <2>2, <3>1, <3>2
  <2>5. GraphTypes'
    BY <1>1, <2>2, <2>3, <2>4 DEF GraphInv, GraphTypes, client
  <2>6. StageStep
    BY <1>1, <2>2, <2>3, FeedsFed DEF StageStep
  <2>7. Goings'
    BY <1>1 DEF GraphInv, Goings
  <2>8. Sendings'
    BY <1>1, <2>2, <2>4 DEF GraphInv, Sendings, Found
  <2>9. Acks' /\ Makes'
    BY <2>2, <2>6, StageStepAcks, StageStepMakes DEF GraphInv
  <2>10. Mirrors'
    <3> SUFFICES ASSUME NEW d \in Clients, NEW x \in Entities PROVE Mirror(d, x)'
      BY DEF Mirrors
    <3>1. CASE x # e
      <4>1. ~About(m, x)
        BY <2>1, <3>1 DEF About
      <4>2. (Found(x)' <=> Found(x)) /\ ver'[x] = ver[x]
        BY <1>1, <2>4, <3>1 DEF Found
      <4> QED
        BY <1>1, <2>1, <2>2, <4>1, <4>2, OtherMirror DEF GraphInv, Mirrors
    <3>2. CASE x = e
      <4> SUFFICES ASSUME Watch(d, x)' PROVE \E R : Mirrored(d, x, R)'
        BY DEF Mirror
      <4>1. Watch(d, x)
        BY <1>1, <2>2 DEF Watch, Online, client
      <4>2. PICK R : Mirrored(d, x, R)
        BY <4>1 DEF GraphInv, Mirrors, Mirror
      <4>3. down'[d] = down[d] \o <<m>>
        BY <2>2, <3>2, <4>1 DEF Watch
      <4>4. PICK T : T = After(R, m, x)
        OBVIOUS
      <4>5. Replays(Seen(d, x)', down'[d], x, T) /\ (Snap(d)' => Snap(d))
        BY <1>1, <2>1, <2>2, <4>2, <4>3, <4>4, MirrorMore DEF GraphInv
      <4>6. /\ T \subseteq {ver[e] + 1}
            /\ ver[e] \in R => ver[e] + 1 \in T
        <5>1. R \subseteq {ver[e]}
          BY <2>1, <3>2, <4>2 DEF Mirrored
        <5>2. T = IF ver[e] \in R THEN (R \ {ver[e]}) \cup {ver[e] + 1} ELSE R
          BY <2>1, <2>2, <3>2, <4>4 DEF After
        <5> QED
          BY <5>1, <5>2
      <4>7. /\ Found(x)' <=> Found(x)
            /\ Pending(x)' <=> Pending(x)
        BY <1>1 DEF Found, Pending
      <4>8. Mirrored(d, x, T)'
        BY <2>1, <2>4, <3>2, <4>2, <4>5, <4>6, <4>7 DEF Mirrored
      <4> QED
        BY <4>8
    <3> QED
      BY <3>1, <3>2
  <2> QED
    BY <2>5, <2>6, <2>7, <2>8, <2>9, <2>10, StageStepDone
<1> QED
  BY <1>2, <1>3

LEMMA HandleDestroyKeeps ==
  ASSUME GraphInv, NEW c \in Clients, HandleDestroy(c)
  PROVE  GraphInv'
<1> DEFINE m == Head(up[c])
           e == Item(c)
           hit == Found(e) /\ ver[e] = m[3]
<1>1. /\ perf' = perf /\ ver' = ver /\ arrivals' = arrivals /\ loop' = loop
      /\ sending' = sending /\ waits' = waits /\ UNCHANGED client
      /\ Taken(c) /\ up[c] # <<>> /\ Head(up[c])[1] = "destroy" /\ Request(c, "destroy")
  BY DEF HandleDestroy, Request
<1>2. CASE ~hit
  <2>1. ent' = ent /\ down' = down /\ clash' = clash
    BY <1>2 DEF HandleDestroy
  <2>2. Dropped(c)
    BY <1>1, <2>1 DEF Dropped
  <2> QED
    BY <2>2, DroppedKeeps
<1>3. CASE hit
  <2>1. /\ ent' = [ent EXCEPT ![e] = "parted"] /\ down' = Sent(All({c}, m)) /\ Clashes(e)
        /\ Found(e) /\ ver[e] = m[3] /\ m[1] = "destroy" /\ m[2] = e
    BY <1>1, <1>3 DEF HandleDestroy, Item
  <2>2. /\ e \in Entities /\ Home[e] = c /\ ent[e] # "none"
        /\ m \in Downs /\ About(m, e)
        /\ down' \in [Clients -> Seq(Downs)] /\ Feeds({"update", "destroy"})
        /\ \A d \in Clients : Online(d) /\ perf[d] = "in" /\ d # c => down'[d] = down[d] \o <<m>>
        /\ \A d \in Clients : down'[d] = down[d] \/ down'[d] = down[d] \o <<m>>
        /\ clash \subseteq clash'
        /\ \A s \in sending' : s[1] \notin clash' => s[1] # e
    BY <1>1, <2>1, HitEffect
  <2>3. /\ up' \in [Clients -> Seq(Ups)]
        /\ \A d \in Clients :
             \/ up'[d] = up[d]
             \/ /\ phase[d] \notin {"out", "joining"} /\ Els(up'[d]) \subseteq Els(up[d])
                /\ \A k, x : Once(up[d], k, x) => Once(up'[d], k, x)
    BY <1>1, RouterTakes
  <2> HIDE DEF m, e
  <2>4. /\ ent' \in [Entities -> {"none", "in", "going", "parted", "freed"}]
        /\ ent'[e] = "parted"
        /\ \A x \in Entities : x # e => ent'[x] = ent[x]
        /\ \A x \in Entities : ent'[x] = "none" <=> ent[x] = "none"
    BY <2>1, <2>2 DEF GraphInv, GraphTypes
  <2>5. GraphTypes'
    BY <1>1, <2>2, <2>3, <2>4 DEF GraphInv, GraphTypes, client
  <2>6. StageStep
    BY <1>1, <2>2, <2>3, <2>4, FeedsFed DEF StageStep
  <2>7. Goings'
    BY <1>1, <2>4 DEF GraphInv, Goings
  <2>8. Sendings'
    BY <1>1, <2>2, <2>4 DEF GraphInv, Sendings, Found
  <2>9. Acks' /\ Makes'
    BY <2>2, <2>6, StageStepAcks, StageStepMakes DEF GraphInv
  <2>10. Mirrors'
    <3> SUFFICES ASSUME NEW d \in Clients, NEW x \in Entities PROVE Mirror(d, x)'
      BY DEF Mirrors
    <3>1. CASE x # e
      <4>1. ~About(m, x)
        BY <2>1, <3>1 DEF About
      <4>2. (Found(x)' <=> Found(x)) /\ ver'[x] = ver[x]
        BY <1>1, <2>4, <3>1 DEF Found
      <4> QED
        BY <1>1, <2>1, <2>2, <4>1, <4>2, OtherMirror DEF GraphInv, Mirrors
    <3>2. CASE x = e
      <4> SUFFICES ASSUME Watch(d, x)' PROVE \E R : Mirrored(d, x, R)'
        BY DEF Mirror
      <4>1. Watch(d, x)
        BY <1>1, <2>2 DEF Watch, Online, client
      <4>2. PICK R : Mirrored(d, x, R)
        BY <4>1 DEF GraphInv, Mirrors, Mirror
      <4>3. down'[d] = down[d] \o <<m>>
        BY <2>2, <3>2, <4>1 DEF Watch
      <4>4. PICK T : T = After(R, m, x)
        OBVIOUS
      <4>5. Replays(Seen(d, x)', down'[d], x, T) /\ (Snap(d)' => Snap(d))
        BY <1>1, <2>1, <2>2, <4>2, <4>3, <4>4, MirrorMore DEF GraphInv
      <4>6. T = {}
        <5>1. R \subseteq {ver[e]}
          BY <2>1, <3>2, <4>2 DEF Mirrored
        <5>2. T = R \ {ver[e]}
          BY <2>1, <2>2, <3>2, <4>4 DEF After
        <5> QED
          BY <5>1, <5>2
      <4>7. ~Found(x)'
        BY <2>4, <3>2 DEF Found
      <4>8. Mirrored(d, x, T)'
        BY <4>5, <4>6, <4>7 DEF Mirrored
      <4> QED
        BY <4>8
    <3> QED
      BY <3>1, <3>2
  <2> QED
    BY <2>5, <2>6, <2>7, <2>8, <2>9, <2>10, StageStepDone
<1> QED
  BY <1>2, <1>3

(* What the answers to a forwarded request are.                            *)
LEMMA AnswersAre ==
  ASSUME NEW e \in Creatables, NEW result
  PROVE  /\ Answers(e, result) \in Seq(Downs)
         /\ \A m \in Els(Answers(e, result)) : m[1] \in {"ack", "error", "empty"} /\ m[2] = e
         /\ result # "made" => Failing(Answers(e, result), e)
<1>1. <<"ack", e>> \in Downs /\ <<"error", e>> \in Downs /\ <<"empty", e>> \in Downs
  BY DEF Downs
<1>2. CASE result = "made"
  <2>1. Answers(e, result) = <<<<"ack", e>>>>
    BY <1>2 DEF Answers
  <2>2. Els(<<<<"ack", e>>>>) = {<<"ack", e>>}
    BY ElsShort
  <2> QED
    BY <1>1, <1>2, <2>1, <2>2
<1>3. CASE result # "made"
  <2>1. PICK m : m = <<IF result = "none" THEN "empty" ELSE "error", e>>
    OBVIOUS
  <2>2. PICK a : a = <<"ack", e>>
    OBVIOUS
  <2>3. Answers(e, result) = <<m>> \o <<a>>
    <3>1. Answers(e, result) = (IF result = "made" THEN <<>> ELSE <<m>>) \o <<a>>
      BY <2>1, <2>2, Zenon DEF Answers
    <3>2. (IF result = "made" THEN <<>> ELSE <<m>>) = <<m>>
      BY <1>3
    <3> QED
      BY <3>1, <3>2, Zenon
  <2>4. /\ m \in Downs /\ m[1] \in {"error", "empty"} /\ m[2] = e /\ a \in Downs
        /\ a[1] = "ack" /\ a[2] = e
    <3>1. m \in {<<"error", e>>, <<"empty", e>>}
      BY <2>1
    <3> QED
      BY <1>1, <2>2, <3>1
  <2>5. PICK q, r : q = <<m>> /\ r = <<a>>
    OBVIOUS
  <2>6. /\ q \in Seq(Downs) /\ r \in Seq(Downs) /\ Len(q) = 1 /\ Len(r) = 1 /\ q[1] = m
        /\ Els(q) = {m} /\ Els(r) = {a}
    BY <2>4, <2>5, ElsShort
  <2>7. q \o r \in Seq(Downs) /\ Els(q \o r) = {m, a}
    BY <2>6, ElsConcat
  <2>8. Failing(q \o r, e)
    BY <2>4, <2>6, FailingPair
  <2>9. \A n \in Els(q \o r) : n[1] \in {"ack", "error", "empty"} /\ n[2] = e
    BY <2>4, <2>7
  <2>10. Answers(e, result) = q \o r
    BY <2>3, <2>5
  <2> QED
    BY <1>3, <2>7, <2>8, <2>9, <2>10
<1> QED
  BY <1>2, <1>3

LEMMA CallbackKeeps ==
  ASSUME GraphInv, NEW w \in waits, NEW result, Callback(w, result),
         result = "made" => ent[w[1]] # "none",
         perf' = perf, ent' = ent, ver' = ver, arrivals' = arrivals, loop' = loop,
         sending' = sending, UNCHANGED client, clash' = clash,
         up' \in [Clients -> Seq(Ups)],
         \A d \in Clients :
           \/ up'[d] = up[d]
           \/ /\ phase[d] \notin {"out", "joining"} /\ Els(up'[d]) \subseteq Els(up[d])
              /\ \A k, e : Once(up[d], k, e) => Once(up'[d], k, e)
  PROVE  GraphInv'
<1> DEFINE s == Answers(w[1], result)
<1>1. /\ GraphTypes /\ down \in [Clients -> Seq(Downs)]
      /\ w[1] \in Creatables /\ w[2] \in Clients /\ w[1] \in Entities
  BY GraphAssumption DEF GraphInv, GraphTypes
<1>2. /\ s \in Seq(Downs)
      /\ \A m \in Els(s) : m[1] \in {"ack", "error", "empty"} /\ m[2] = w[1]
      /\ result # "made" => Failing(s, w[1])
  BY <1>1, AnswersAre
<1>3. answer[w[1]] # "none"
  BY <1>1 DEF GraphInv, Acks, Ack
<1>4. \/ down' = down
      \/ perf[w[2]] # "none" /\ down' = Sent(To(w[2], s))
  BY DEF Callback, Performers
<1>5. waits' \subseteq waits
  BY DEF Callback
<1> HIDE DEF s
<1>6. \A m \in Els(s) : Proper(m) /\ m[1] \in {"ack", "error", "empty"}
  <2>1. \A m \in Els(s) : \A e \in Entities : ~About(m, e)
    BY <1>2 DEF About, Changes
  <2> QED
    BY <1>2, <1>3, <2>1 DEF Proper
<1>7. down' \in [Clients -> Seq(Downs)] /\ Feeds({"ack", "error", "empty"})
  <2>1. CASE down' = down
    BY <1>1, <2>1 DEF Feeds
  <2>2. CASE perf[w[2]] # "none" /\ down' = Sent(To(w[2], s))
    BY <1>1, <1>2, <1>6, <2>2, FeedTo
  <2> QED
    BY <1>4, <2>1, <2>2
<1>8. \A d \in Clients : down'[d] = down[d] \/ down'[d] = down[d] \o s
  <2>1. CASE down' = down
    BY <2>1
  <2>2. CASE down' = Sent(To(w[2], s))
    <3>1. /\ \A d \in Clients : d # w[2] => down'[d] = down[d]
          /\ down'[w[2]] = IF Online(w[2]) THEN down[w[2]] \o s ELSE down[w[2]]
      BY <1>1, <1>2, <2>2, SentTo
    <3> QED
      BY <3>1
  <2> QED
    BY <1>4, <2>1, <2>2
<1>9. GraphTypes'
  BY <1>5, <1>7 DEF GraphInv, GraphTypes, client
<1>10. StageStep
  BY <1>5, <1>7, FeedsFed DEF StageStep
<1>11. Goings' /\ Sendings'
  BY DEF GraphInv, Goings, Sendings, Found
<1>12. Acks'
  <2> SUFFICES ASSUME NEW e \in Creatables PROVE Ack(e)'
    BY DEF Acks
  <2>1. Ack(e) /\ answer' = answer
    BY DEF GraphInv, Acks, client
  <2>2. ASSUME ent[e] = "none", answer[e] = "asked", NEW c \in Clients
        PROVE  Failing(down'[c], e)
    <3>1. Failing(down[c], e) /\ down[c] \in Seq(Downs)
      BY <1>1, <2>1, <2>2 DEF Ack
    <3>2. Failing(s, e)
      <4>1. CASE w[1] = e
        BY <1>2, <2>2, <4>1
      <4>2. CASE w[1] # e
        <5>1. \A m \in Els(s) : m # <<"ack", e>>
          BY <1>2, <4>2
        <5> QED
          BY <5>1, FailingOther
      <4> QED
        BY <4>1, <4>2
    <3>3. Failing(down[c] \o s, e)
      BY <1>2, <3>1, <3>2, FailingConcat
    <3> QED
      BY <1>8, <3>1, <3>3
  <2>3. \A c \in Clients : \A m \in Els(down'[c]) : m \in Els(down[c]) \/ Proper(m)
    BY <1>1, <1>10, StageStepQueues
  <2>4. ASSUME answer[e] = "none", NEW c \in Clients, NEW m \in Els(down'[c]),
               m[1] \in {"ack", "error", "empty"}
        PROVE  m[2] # e
    <3>1. CASE m \in Els(down[c])
      BY <2>1, <2>4, <3>1 DEF Ack
    <3>2. CASE Proper(m)
      BY <2>4, <3>2 DEF Proper
    <3> QED
      BY <2>3, <3>1, <3>2
  <2> QED
    BY <1>5, <2>1, <2>2, <2>4 DEF Ack
<1>13. Makes'
  BY <1>7, <1>10, StageStepMakes DEF GraphInv
<1>14. Mirrors'
  <2> SUFFICES ASSUME NEW d \in Clients, NEW e \in Entities PROVE Mirror(d, e)'
    BY DEF Mirrors
  <2>1. Watch(d, e)' => /\ Watch(d, e) /\ (Found(e)' <=> Found(e)) /\ ver'[e] = ver[e]
                        /\ (Pending(e) => Pending(e)' \/ ~Found(e))
    BY DEF Watch, Online, Found, Pending, client
  <2>2. \/ down'[d] = down[d]
        \/ \E q \in Seq(Downs) : /\ down'[d] = down[d] \o q
                                 /\ \A m \in Els(q) : ~About(m, e) /\ m[1] # "synced"
    <3>1. {"ack", "error", "empty"} \cap (Changes \cup {"synced"}) = {}
      BY DEF Changes
    <3> QED
      BY <1>7, <3>1, FeedsMirror
  <2> QED
    BY <1>1, <2>1, <2>2, MirrorStays DEF GraphInv, Mirrors
<1> QED
  BY <1>9, <1>10, <1>11, <1>12, <1>13, <1>14, StageStepDone

LEMMA MakeTimesOutKeeps ==
  ASSUME GraphInv, NEW w \in waits, MakeTimesOut(w)
  PROVE  GraphInv'
<1>1. /\ perf' = perf /\ ent' = ent /\ ver' = ver /\ arrivals' = arrivals /\ loop' = loop
      /\ sending' = sending /\ UNCHANGED client /\ up' = up /\ clash' = clash
      /\ Callback(w, "none")
  BY DEF MakeTimesOut
<1>2. up \in [Clients -> Seq(Ups)]
  BY DEF GraphInv, GraphTypes
<1> QED
  BY <1>1, <1>2, CallbackKeeps

LEMMA HandleMadeKeeps ==
  ASSUME GraphInv, NEW c \in Clients, HandleMade(c)
  PROVE  GraphInv'
<1> DEFINE W == {w \in waits : w[1] = Item(c)}
<1>1. /\ perf' = perf /\ ent' = ent /\ ver' = ver /\ arrivals' = arrivals /\ loop' = loop
      /\ sending' = sending /\ UNCHANGED client /\ clash' = clash
      /\ Taken(c) /\ up[c] # <<>> /\ Head(up[c])[1] \in {"made", "unmade"}
  BY DEF HandleMade, Request
<1>2. CASE W = {}
  <2>1. waits' = waits /\ down' = down
    BY <1>2 DEF HandleMade
  <2>2. Dropped(c)
    BY <1>1, <2>1 DEF Dropped
  <2> QED
    BY <2>2, DroppedKeeps
<1>3. CASE W # {}
  <2>1. PICK w \in W : Callback(w, Head(up[c])[1])
    BY <1>3 DEF HandleMade
  <2>2. /\ up' \in [Clients -> Seq(Ups)]
        /\ Head(up[c]) \in Els(up[c])
        /\ \A d \in Clients :
             \/ up'[d] = up[d]
             \/ /\ phase[d] \notin {"out", "joining"} /\ Els(up'[d]) \subseteq Els(up[d])
                /\ \A k, x : Once(up[d], k, x) => Once(up'[d], k, x)
    BY <1>1, RouterTakes
  <2>3. Head(up[c])[1] = "made" => ent[w[1]] # "none"
    <3>1. w[1] \in Entities /\ w[1] = Head(up[c])[2]
      BY GraphAssumption DEF GraphInv, GraphTypes, Item
    <3> QED
      BY <2>2, <3>1 DEF GraphInv, Known, Unheard, Is
  <2> QED
    BY <1>1, <2>1, <2>2, <2>3, CallbackKeeps
<1> QED
  BY <1>2, <1>3

LEMMA HandleMakeKeeps ==
  ASSUME GraphInv, NEW c \in Clients, HandleMake(c)
  PROVE  GraphInv'
<1> DEFINE e == Item(c)
           h == Home[e]
<1>1. /\ perf' = perf /\ ent' = ent /\ ver' = ver /\ arrivals' = arrivals /\ loop' = loop
      /\ sending' = sending /\ UNCHANGED client /\ clash' = clash
      /\ Taken(c) /\ up[c] # <<>> /\ Head(up[c])[1] = "make" /\ Head(up[c])[2] = e
  BY DEF HandleMake, Request, Item
<1>2. /\ up' \in [Clients -> Seq(Ups)]
      /\ perf[c] # "none"
      /\ Head(up[c]) \in Els(up[c]) /\ Head(up[c]) \in Ups
      /\ \A d \in Clients :
           \/ up'[d] = up[d]
           \/ /\ phase[d] \notin {"out", "joining"} /\ Els(up'[d]) \subseteq Els(up[d])
              /\ \A k, x : Once(up[d], k, x) => Once(up'[d], k, x)
  BY <1>1, RouterTakes
<1>3. /\ \/ /\ h \in Performers /\ waits' = waits \cup {<<e, c>>}
            /\ down' = Sent(To(h, <<<<"make", e>>>>))
         \/ waits' = waits /\ down' = Sent(To(c, <<<<"error", e>>>>))
  BY DEF HandleMake
<1>4. /\ GraphTypes /\ down \in [Clients -> Seq(Downs)] /\ up \in [Clients -> Seq(Ups)]
  BY DEF GraphInv, GraphTypes
<1>5. e \in Creatables /\ e \in Entities /\ h \in Clients
  BY <1>1, <1>2, UpKinds, GraphAssumption
<1>6. Make(e) /\ Is(Head(up[c]), "make", e)
  BY <1>1, <1>5 DEF GraphInv, Makes, Is
<1>7. answer[e] # "none" /\ e \notin used
  BY <1>2, <1>6 DEF Make
<1> HIDE DEF e, h
<1>8. PICK a, m : m = <<a, e>> /\ a \in {"make", "error"} /\
        \/ /\ a = "make" /\ h \in Performers /\ waits' = waits \cup {<<e, c>>}
           /\ down' = Sent(To(h, <<m>>))
        \/ a = "error" /\ waits' = waits /\ down' = Sent(To(c, <<m>>))
  BY <1>3
<1>9. /\ m \in Downs /\ <<m>> \in Seq(Downs) /\ Els(<<m>>) = {m}
      /\ m[1] = a /\ m[2] = e
  <2>1. m \in Downs
    BY <1>5, <1>8 DEF Downs
  <2> QED
    BY <1>8, <2>1, ElsShort
<1>10. Proper(m)
  BY <1>7, <1>8, <1>9 DEF Proper, About, Changes
<1>11. down' \in [Clients -> Seq(Downs)] /\ Feeds({a})
  <2>1. \A n \in Els(<<m>>) : Proper(n) /\ n[1] \in {a}
    BY <1>9, <1>10
  <2>2. CASE a = "make"
    <3>1. perf[h] # "none" /\ down' = Sent(To(h, <<m>>))
      BY <1>8, <2>2 DEF Performers
    <3> QED
      BY <1>4, <1>5, <1>9, <2>1, <3>1, FeedTo
  <2>3. CASE a = "error"
    <3>1. down' = Sent(To(c, <<m>>))
      BY <1>8, <2>3
    <3> QED
      BY <1>2, <1>4, <1>9, <2>1, <3>1, FeedTo
  <2> QED
    BY <1>8, <2>2, <2>3
<1>12. waits' \subseteq waits \cup {<<e, c>>}
  BY <1>8
<1>13. GraphTypes'
  <2>1. waits' \subseteq Creatables \X Clients
    BY <1>4, <1>5, <1>12 DEF GraphTypes
  <2> QED
    BY <1>1, <1>2, <1>4, <1>11, <2>1 DEF GraphTypes, client
<1>14. StageStep
  <2>1. \A w \in waits' : w \in waits \/ answer[w[1]] # "none"
    BY <1>7, <1>12
  <2> QED
    BY <1>1, <1>2, <1>11, <2>1, FeedsFed DEF StageStep
<1>15. Goings' /\ Sendings'
  BY <1>1 DEF GraphInv, Goings, Sendings, Found
<1>16. Acks'
  BY <1>8, <1>11, <1>14, StageStepAcks DEF GraphInv
<1>17. Makes'
  <2>1. CASE a = "error"
    BY <1>11, <1>14, <2>1, StageStepMakes DEF GraphInv
  <2>2. CASE a = "make"
    <3>1. /\ \A d \in Clients : d # h => down'[d] = down[d]
          /\ Els(down'[h]) \subseteq Els(down[h]) \cup Els(<<m>>)
          /\ \A k, x : Once(down[h], k, x) /\ (\A n \in Els(<<m>>) : ~Is(n, k, x))
                         => Once(down'[h], k, x)
          /\ \A k, x : Once(<<m>>, k, x) /\ (\A n \in Els(down[h]) : ~Is(n, k, x))
                         => Once(down'[h], k, x)
      <4>1. down' = Sent(To(h, <<m>>))
        BY <1>8, <2>2
      <4> QED
        BY <1>4, <1>5, <1>9, <4>1, SentTo
    <3>2. /\ \A d \in Clients : Els(up'[d]) \subseteq Els(up[d])
          /\ \A d \in Clients : \A k, x : Once(up[d], k, x) => Once(up'[d], k, x)
      BY <1>4, <1>14, StageStepQueues
    <3>3. Once(up[c], "make", e)
      BY <1>6 DEF Make
    <3>4. \A n \in Els(up'[c]) : ~Is(n, "make", e)
      BY <1>1, <1>4, <1>6, <3>3, TakenEffect
    <3> SUFFICES ASSUME NEW x \in Creatables PROVE Make(x)'
      BY DEF Makes
    <3>5. Make(x) /\ used' = used /\ answer' = answer
      BY <1>1 DEF GraphInv, Makes, client
    <3>6. CASE x # e
      <4>1. \A n \in Els(<<m>>) : ~Is(n, "make", x)
        BY <1>9, <3>6 DEF Is
      <4>2. ASSUME NEW d \in Clients
            PROVE  /\ \A n \in Els(down'[d]) : Is(n, "make", x) => n \in Els(down[d])
                   /\ Once(down'[d], "make", x)
        BY <3>1, <3>5, <4>1 DEF Make
      <4> QED
        BY <3>2, <3>5, <4>2 DEF Make
    <3>7. CASE x = e
      <4>1. \A d \in Clients : \A n \in Els(up'[d]) : ~Is(n, "make", e)
        <5> SUFFICES ASSUME NEW d \in Clients, NEW n \in Els(up'[d]), Is(n, "make", e)
                     PROVE  FALSE
          OBVIOUS
        <5>1. d = c
          BY <1>2, <1>6, <3>2 DEF Make
        <5> QED
          BY <3>4, <5>1
      <4>2. \A d \in Clients : \A n \in Els(down[d]) : ~Is(n, "make", e)
        BY <1>2, <1>6 DEF Make
      <4>3. Once(<<m>>, "make", e)
        BY DEF Once
      <4>4. \A d \in Clients : Once(down'[d], "make", e)
        BY <1>6, <3>1, <4>2, <4>3 DEF Make
      <4>5. \A d \in Clients : \A n \in Els(down'[d]) : Is(n, "make", e) => d = h
        BY <3>1, <4>2
      <4>6. h = Home[e]
        BY DEF h
      <4>7. \A d \in Clients : Once(up'[d], "make", e)
        BY <1>6, <3>2 DEF Make
      <4> QED
        BY <1>7, <3>5, <3>7, <4>1, <4>4, <4>5, <4>6, <4>7 DEF Make
    <3> QED
      BY <3>6, <3>7
  <2> QED
    BY <1>8, <2>1, <2>2
<1>18. Mirrors'
  <2> SUFFICES ASSUME NEW d \in Clients, NEW x \in Entities PROVE Mirror(d, x)'
    BY DEF Mirrors
  <2>1. Watch(d, x)' => /\ Watch(d, x) /\ (Found(x)' <=> Found(x)) /\ ver'[x] = ver[x]
                        /\ (Pending(x) => Pending(x)' \/ ~Found(x))
    BY <1>1 DEF Watch, Online, Found, Pending, client
  <2>2. \/ down'[d] = down[d]
        \/ \E s \in Seq(Downs) : /\ down'[d] = down[d] \o s
                                 /\ \A n \in Els(s) : ~About(n, x) /\ n[1] # "synced"
    <3>1. {a} \cap (Changes \cup {"synced"}) = {}
      BY <1>8 DEF Changes
    <3> QED
      BY <1>11, <3>1, FeedsMirror
  <2> QED
    BY <1>1, <1>4, <2>1, <2>2, MirrorStays DEF GraphInv, Mirrors
<1> QED
  BY <1>13, <1>14, <1>15, <1>16, <1>17, <1>18, StageStepDone

(* A performer arrives: nothing has been said of its entities.             *)
LEMMA HandleJoinKeeps ==
  ASSUME GraphInv, NEW c \in Clients, HandleJoin(c)
  PROVE  GraphInv'
<1>1. /\ ent' = ent /\ ver' = ver /\ loop' = loop /\ waits' = waits /\ sending' = sending
      /\ phase' = phase /\ own' = own /\ used' = used /\ view' = view /\ answer' = answer
      /\ clash' = clash /\ UNCHANGED client
      /\ Taken(c) /\ up[c] # <<>> /\ Head(up[c])[1] = "join"
      /\ perf' = [perf EXCEPT ![c] = "in"]
      /\ arrivals' = Append(arrivals, c)
      /\ down' = Sent(To(c, <<<<"joined">>>>))
  BY DEF HandleJoin, Request, client
<1>2. GraphTypes
  BY DEF GraphInv
<1>3. /\ up \in [Clients -> Seq(Ups)] /\ down \in [Clients -> Seq(Downs)]
      /\ arrivals \in Seq(Objects) /\ perf \in [Clients -> {"none", "in", "going", "freed"}]
  BY <1>2 DEF GraphTypes
<1>4. /\ up' \in [Clients -> Seq(Ups)]
      /\ up'[c] = Tail(up[c])
      /\ \A d \in Clients : d # c => up'[d] = up[d]
      /\ \A d \in Clients : Els(up'[d]) \subseteq Els(up[d])
      /\ Head(up[c]) \in Els(up[c])
      /\ \A d \in Clients : \A k, e : Once(up[d], k, e) => Once(up'[d], k, e)
  BY <1>1, <1>3, TakenEffect
<1>5. perf[c] = "none" /\ phase[c] = "joining" /\ up[c] = <<<<"join">>>>
      /\ down[c] = <<>> /\ view[c] = {}
  <2>1. Role(c) /\ perf[c] = "none"
    BY <1>1, <1>4 DEF GraphInv, Roles, Role
  <2> QED
    BY <1>1, <2>1 DEF Role
<1>6. up'[c] = <<>>
  <2>1. Tail(<<<<"join">>>>) = <<>>
    OBVIOUS
  <2> QED
    BY <1>4, <1>5, <2>1
<1>7. <<"joined">> \in Downs /\ <<<<"joined">>>> \in Seq(Downs)
      /\ Els(<<<<"joined">>>>) = {<<"joined">>}
  <2>1. <<"joined">> \in Downs
    BY DEF Downs
  <2> QED
    BY <2>1, ElsShort
<1>8. /\ down' \in [Clients -> Seq(Downs)]
      /\ \A d \in Clients : d # c => down'[d] = down[d]
      /\ down'[c] = <<<<"joined">>>>
      /\ Els(down'[c]) = {<<"joined">>}
  <2>1. /\ down' \in [Clients -> Seq(Downs)]
        /\ \A d \in Clients : d # c => down'[d] = down[d]
        /\ down'[c] = IF Online(c) THEN down[c] \o <<<<"joined">>>> ELSE down[c]
    BY <1>1, <1>3, <1>7, SentTo
  <2>2. Online(c)
    BY <1>5 DEF Online
  <2>3. <<>> \o <<<<"joined">>>> = <<<<"joined">>>>
    BY <1>7, ConcatEmptySeq
  <2> QED
    BY <1>5, <1>7, <2>1, <2>2, <2>3
<1>9. c \in Objects /\ arrivals' \in Seq(Objects) /\ Els(arrivals') = Els(arrivals) \cup {c}
  <2>1. c \in Objects /\ <<c>> \in Seq(Objects) /\ Els(<<c>>) = {c}
    BY ElsShort DEF Objects
  <2>2. Append(arrivals, c) = arrivals \o <<c>>
    BY <1>3, <2>1, AppendIsConcat
  <2>3. PICK q : q = <<c>>
    OBVIOUS
  <2>4. arrivals \o q \in Seq(Objects) /\ Els(arrivals \o q) = Els(arrivals) \cup Els(q)
    <3>1. arrivals \in Seq(Objects) /\ q \in Seq(Objects)
      BY <1>3, <2>1, <2>3
    <3> QED
      BY <3>1, ElsConcat
  <2>5. arrivals' = arrivals \o q
    BY <1>1, <2>2, <2>3
  <2>6. Els(q) = {c}
    BY <2>1, <2>3
  <2> QED
    BY <2>1, <2>4, <2>5, <2>6
<1>10. /\ \A d \in Clients : d # c => perf'[d] = perf[d]
       /\ perf'[c] = "in" /\ perf' \in [Clients -> {"none", "in", "going", "freed"}]
  BY <1>1, <1>3
<1>11. GraphTypes'
  BY <1>1, <1>4, <1>8, <1>9, <1>10 DEF GraphInv, GraphTypes
<1>12. Roles'
  <2> SUFFICES ASSUME NEW d \in Clients PROVE Role(d)'
    BY DEF Roles
  <2>1. CASE d # c
    <3>1. Role(d)
      BY DEF GraphInv, Roles
    <3>2. up'[d] = up[d] /\ down'[d] = down[d] /\ perf'[d] = perf[d]
      BY <1>4, <1>8, <1>10, <2>1
    <3> QED
      BY <1>1, <3>1, <3>2 DEF Role
  <2>2. CASE d = c
    <3>1. Opening(down'[c])
      <4>1. Head(<<<<"joined">>>>) = <<"joined">> /\ Tail(<<<<"joined">>>>) = <<>>
            /\ <<<<"joined">>>> # <<>>
        OBVIOUS
      <4> QED
        BY <1>8, <4>1, ElsShort DEF Opening
    <3>2. Els(up'[c]) = {}
      BY <1>6, ElsShort
    <3> QED
      BY <1>1, <1>5, <1>6, <1>10, <2>2, <3>1, <3>2 DEF Role
  <2> QED
    BY <2>1, <2>2
<1>13. Births'
  BY <1>1, <1>4, GraphAssumption DEF GraphInv, Births, Birth
<1>14. \A d \in Clients : \A m \in Els(down'[d]) : m \in Els(down[d]) \/ m = <<"joined">>
  BY <1>8
<1>15. Makes'
  <2> SUFFICES ASSUME NEW e \in Creatables PROVE Make(e)'
    BY DEF Makes
  <2>1. Make(e)
    BY DEF GraphInv, Makes
  <2>2. \A d \in Clients : \A m \in Els(down'[d]) : Is(m, "make", e) => m \in Els(down[d])
    BY <1>14 DEF Is
  <2>3. Once(down'[c], "make", e)
    <3>1. \A m \in Els(down'[c]) : ~Is(m, "make", e)
      BY <1>8 DEF Is
    <3> QED
      BY <3>1 DEF Once, Els
  <2>4. \A d \in Clients : Once(down'[d], "make", e)
    BY <1>8, <2>1, <2>3 DEF Make
  <2> QED
    BY <1>1, <1>4, <2>1, <2>2, <2>4 DEF Make
<1>16. Known'
  <2> SUFFICES ASSUME NEW e \in Entities, ent[e] = "none" PROVE Unheard(e)'
    BY <1>1 DEF Known
  <2>1. Unheard(e)
    BY DEF GraphInv, Known
  <2>2. \A d \in Clients : \A m \in Els(down'[d]) : ~About(m, e) /\ ~Is(m, "ok", e)
    BY <1>14, <2>1 DEF Unheard, About, Is, Changes
  <2>3. e # c
    BY GraphAssumption
  <2> QED
    BY <1>1, <1>4, <1>9, <2>1, <2>2, <2>3 DEF Unheard
<1>17. Lefts'
  <2> SUFFICES ASSUME NEW d \in Clients, NEW m \in Els(down'[d]), m[1] = "left"
               PROVE  perf'[m[2]] \in {"going", "freed"}
    BY DEF Lefts
  <2>1. m \in Els(down[d])
    BY <1>14
  <2>2. perf[m[2]] \in {"going", "freed"}
    BY <2>1 DEF GraphInv, Lefts
  <2>3. m[2] \in Clients
    BY <1>3, <2>1, ElsOf, DownKinds
  <2> QED
    BY <1>5, <1>10, <2>2, <2>3
<1>18. Goings'
  BY <1>1, <1>5, <1>10, GraphAssumption DEF GraphInv, Goings
<1>19. Sendings'
  BY <1>1 DEF GraphInv, Sendings, Found
<1>20. Acks'
  <2> SUFFICES ASSUME NEW e \in Creatables PROVE Ack(e)'
    BY DEF Acks
  <2>1. Ack(e)
    BY DEF GraphInv, Acks
  <2>2. Failing(down'[c], e)
    <3>1. \A m \in Els(down'[c]) : m # <<"ack", e>>
      BY <1>8
    <3> QED
      BY <3>1, FailingOther
  <2>3. \A d \in Clients : \A m \in Els(down'[d]) :
          m[1] \in {"ack", "error", "empty"} => m \in Els(down[d])
    BY <1>14
  <2> QED
    BY <1>1, <1>8, <2>1, <2>2, <2>3 DEF Ack
<1>21. Mirrors'
  <2> SUFFICES ASSUME NEW d \in Clients, NEW e \in Entities PROVE Mirror(d, e)'
    BY DEF Mirrors
  <2>1. CASE d # c /\ Home[e] # c
    <3>1. Watch(d, e)' => /\ Watch(d, e) /\ (Found(e)' <=> Found(e)) /\ ver'[e] = ver[e]
                          /\ (Pending(e) => Pending(e)' \/ ~Found(e))
      BY <1>1, <1>9, <1>10, <2>1, GraphAssumption DEF Watch, Online, Found, Pending
    <3> QED
      BY <1>1, <1>2, <1>8, <2>1, <3>1, MirrorStays DEF GraphInv, Mirrors
  <2>2. CASE d = c
    <3>1. Seen(c, e)' = {}
      BY <1>1, <1>5 DEF Seen
    <3>2. Replays({}, down'[c], e, {})
      <4>1. \A m \in Els(down'[c]) : ~About(m, e)
        BY <1>8 DEF About, Changes
      <4> QED
        BY <1>8, <4>1, ReplayOther
    <3>3. ~Snap(c)'
      BY <1>1, <1>5, <1>8 DEF Snap
    <3>4. Mirrored(c, e, {})'
      BY <3>1, <3>2, <3>3 DEF Mirrored
    <3> QED
      BY <2>2, <3>4 DEF Mirror
  <2>3. CASE d # c /\ Home[e] = c
    <3>1. ent[e] = "none"
      BY <1>5, <2>3 DEF GraphInv, Births, Birth
    <3>2. Unheard(e)
      BY <3>1 DEF GraphInv, Known
    <3>3. Seen(d, e)' = {}
      BY <1>1, <3>2 DEF Seen, Unheard
    <3>4. Replays({}, down'[d], e, {})
      BY <1>3, <1>8, <2>3, <3>2, ReplayOther DEF Unheard
    <3>5. ~Found(e)'
      BY <1>1, <3>1 DEF Found
    <3>6. Mirrored(d, e, {})'
      BY <3>3, <3>4, <3>5 DEF Mirrored
    <3> QED
      BY <3>6 DEF Mirror
  <2> QED
    BY <2>1, <2>2, <2>3
<1> QED
  BY <1>11, <1>12, <1>13, <1>15, <1>16, <1>17, <1>18, <1>19, <1>20, <1>21 DEF GraphInv

LEMMA ArrivalsAppend ==
  ASSUME arrivals \in Seq(Objects), NEW o \in Objects, arrivals' = Append(arrivals, o)
  PROVE  arrivals' \in Seq(Objects) /\ Els(arrivals') = Els(arrivals) \cup {o}
<1>1. PICK q : q = <<o>>
  OBVIOUS
<1>2. q \in Seq(Objects) /\ Els(q) = {o}
  BY <1>1, ElsShort
<1>3. Append(arrivals, o) = arrivals \o q
  BY <1>1, AppendIsConcat
<1> QED
  BY <1>2, <1>3, ElsConcat

(* An entity arrives: it was not heard of before.                          *)
LEMMA HandleCreateKeeps ==
  ASSUME GraphInv, NEW c \in Clients, HandleCreate(c)
  PROVE  GraphInv'
<1> DEFINE e == Item(c)
           v == Head(up[c])[3]
<1>1. /\ perf' = perf /\ loop' = loop /\ waits' = waits /\ sending' = sending
      /\ phase' = phase /\ own' = own /\ used' = used /\ view' = view /\ answer' = answer
      /\ clash' = clash /\ UNCHANGED client
      /\ Taken(c) /\ up[c] # <<>> /\ Head(up[c])[1] = "create" /\ Head(up[c])[2] = e
      /\ ent' = [ent EXCEPT ![e] = "in"]
      /\ ver' = [ver EXCEPT ![e] = v]
      /\ arrivals' = Append(arrivals, e)
      /\ down' = Sent(To(c, <<<<"ok", e>>>>))
  BY DEF HandleCreate, Request, Item, client
<1>2. GraphTypes
  BY DEF GraphInv
<1>3. /\ up \in [Clients -> Seq(Ups)] /\ down \in [Clients -> Seq(Downs)]
      /\ arrivals \in Seq(Objects)
      /\ ent \in [Entities -> {"none", "in", "going", "parted", "freed"}]
      /\ ver \in [Entities -> 0..MaxVersion]
      /\ \A x \in Entities : ent[x] # "none" => ver[x] \in 1..MaxVersion
  BY <1>2 DEF GraphTypes
<1>4. /\ up' \in [Clients -> Seq(Ups)]
      /\ \A d \in Clients : d # c => up'[d] = up[d]
      /\ \A d \in Clients : Els(up'[d]) \subseteq Els(up[d])
      /\ Head(up[c]) \in Els(up[c]) /\ Head(up[c]) \in Ups
      /\ \A d \in Clients : \A k, x : Once(up[d], k, x) => Once(up'[d], k, x)
      /\ \A k, x : Once(up[c], k, x) /\ Is(Head(up[c]), k, x) =>
           \A n \in Els(up'[c]) : ~Is(n, k, x)
  BY <1>1, <1>3, TakenEffect
<1>5. phase[c] \notin {"out", "joining"} /\ perf[c] # "none"
  BY <1>1, <1>2, Served DEF GraphInv
<1>6. e \in Entities /\ v \in 1..MaxVersion /\ e \in Objects
  BY <1>1, <1>4, UpKinds DEF Changes, Objects
<1> HIDE DEF e, v
<1>7. About(Head(up[c]), e) /\ Is(Head(up[c]), "create", e)
  BY <1>1 DEF About, Is, Changes
<1>8. c = Home[e] /\ ent[e] = "none" /\ e \in used /\ Once(up[c], "create", e)
  BY <1>4, <1>6, <1>7 DEF GraphInv, Births, Birth
<1>9. Unheard(e)
  BY <1>6, <1>8 DEF GraphInv, Known
<1>10. /\ ent' \in [Entities -> {"none", "in", "going", "parted", "freed"}]
       /\ ent'[e] = "in" /\ \A x \in Entities : x # e => ent'[x] = ent[x]
       /\ ver' \in [Entities -> 0..MaxVersion]
       /\ ver'[e] = v /\ \A x \in Entities : x # e => ver'[x] = ver[x]
  BY <1>1, <1>3, <1>6
<1>11. arrivals' \in Seq(Objects) /\ Els(arrivals') = Els(arrivals) \cup {e}
  BY <1>1, <1>3, <1>6, ArrivalsAppend
<1>12. PICK m : m = <<"ok", e>>
  OBVIOUS
<1>13. /\ m \in Downs /\ m[1] = "ok" /\ m[2] = e /\ <<m>> \in Seq(Downs) /\ Els(<<m>>) = {m}
  <2>1. m \in Downs
    BY <1>6, <1>12 DEF Downs
  <2> QED
    BY <1>12, <2>1, ElsShort
<1>14. /\ down' \in [Clients -> Seq(Downs)]
       /\ \A d \in Clients : d # c => down'[d] = down[d]
       /\ down'[c] = IF Online(c) THEN down[c] \o <<m>> ELSE down[c]
       /\ Els(down'[c]) \subseteq Els(down[c]) \cup Els(<<m>>)
       /\ \A k, x : Once(down[c], k, x) /\ (\A n \in Els(<<m>>) : ~Is(n, k, x))
                      => Once(down'[c], k, x)
  <2>1. down' = Sent(To(c, <<m>>))
    BY <1>1, <1>12
  <2> QED
    BY <1>3, <1>13, <2>1, SentTo
<1>15. \A d \in Clients : \A n \in Els(down'[d]) : n \in Els(down[d]) \/ n = m
  BY <1>13, <1>14
<1>16. GraphTypes'
  <2>1. \A x \in Entities : ent'[x] # "none" => ver'[x] \in 1..MaxVersion
    BY <1>3, <1>6, <1>10
  <2> QED
    BY <1>1, <1>2, <1>4, <1>10, <1>11, <1>14, <2>1 DEF GraphTypes
<1>17. Roles'
  <2> SUFFICES ASSUME NEW d \in Clients PROVE Role(d)'
    BY DEF Roles
  <2>1. Role(d) /\ Els(up'[d]) \subseteq Els(up[d])
    BY <1>4 DEF GraphInv, Roles
  <2>2. CASE d # c
    BY <1>1, <1>4, <1>14, <2>1, <2>2 DEF Role
  <2>3. CASE d = c
    <3>1. \A n \in Els(down'[c]) : n[1] = "joined" => n \in Els(down[c])
      BY <1>13, <1>15
    <3>2. phase[c] \in {"left", "dead"} => down'[c] = down[c]
      BY <1>14 DEF Online
    <3> QED
      BY <1>1, <1>5, <2>1, <2>3, <3>1, <3>2 DEF Role
  <2> QED
    BY <2>2, <2>3
<1>18. Births'
  <2> SUFFICES ASSUME NEW x \in Entities PROVE Birth(x)'
    BY DEF Births
  <2>1. Birth(x) /\ Home[x] \in Clients
    BY GraphAssumption DEF GraphInv, Births
  <2>2. CASE x # e
    BY <1>1, <1>4, <1>10, <2>1, <2>2 DEF Birth
  <2>3. CASE x = e
    <3>1. \A n \in Els(up'[c]) : ~Is(n, "create", e)
      BY <1>4, <1>7, <1>8
    <3> QED
      BY <1>1, <1>4, <1>5, <1>8, <2>1, <2>3, <3>1 DEF Birth
  <2> QED
    BY <2>2, <2>3
<1>19. Makes'
  <2> SUFFICES ASSUME NEW x \in Creatables PROVE Make(x)'
    BY DEF Makes
  <2>1. Make(x)
    BY DEF GraphInv, Makes
  <2>2. \A d \in Clients : \A n \in Els(down'[d]) : Is(n, "make", x) => n \in Els(down[d])
    BY <1>13, <1>15 DEF Is
  <2>3. \A d \in Clients : Once(down'[d], "make", x)
    <3>1. \A n \in Els(<<m>>) : ~Is(n, "make", x)
      BY <1>13 DEF Is
    <3> QED
      BY <1>14, <2>1, <3>1 DEF Make
  <2> QED
    BY <1>1, <1>4, <2>1, <2>2, <2>3 DEF Make
<1>20. Known'
  <2> SUFFICES ASSUME NEW x \in Entities, ent'[x] = "none" PROVE Unheard(x)'
    BY DEF Known
  <2>1. x # e /\ Unheard(x)
    BY <1>10 DEF GraphInv, Known
  <2>2. \A d \in Clients : \A n \in Els(down'[d]) : ~About(n, x) /\ ~Is(n, "ok", x)
    BY <1>13, <1>15, <2>1 DEF Unheard, About, Is
  <2> QED
    BY <1>1, <1>4, <1>11, <2>1, <2>2 DEF Unheard
<1>21. Lefts'
  BY <1>1, <1>13, <1>15 DEF GraphInv, Lefts
<1>22. Goings'
  BY <1>1, <1>10 DEF GraphInv, Goings
<1>23. Sendings'
  <2>1. \A s \in sending : s[1] # e
    BY <1>9 DEF Unheard
  <2> QED
    BY <1>1, <1>10, <2>1 DEF GraphInv, Sendings, Found
<1>24. Acks'
  <2> SUFFICES ASSUME NEW x \in Creatables PROVE Ack(x)'
    BY DEF Acks
  <2>1. Ack(x) /\ x \in Entities
    BY GraphAssumption DEF GraphInv, Acks
  <2>2. ent'[x] = "none" => ent[x] = "none"
    BY <1>8, <2>1, <1>10
  <2>3. ASSUME NEW d \in Clients, Failing(down[d], x) PROVE Failing(down'[d], x)
    <3>1. CASE down'[d] = down[d]
      BY <2>3, <3>1
    <3>2. CASE down'[d] = down[d] \o <<m>>
      <4>1. \A n \in Els(<<m>>) : n # <<"ack", x>>
        BY <1>13
      <4>2. Failing(<<m>>, x)
        BY <4>1, FailingOther
      <4>3. down[d] \in Seq(Downs)
        BY <1>3
      <4>4. Failing(down[d] \o <<m>>, x)
        BY <1>13, <2>3, <4>2, <4>3, FailingConcat
      <4> QED
        BY <3>2, <4>4
    <3> QED
      BY <1>14, <3>1, <3>2
  <2>4. \A d \in Clients : \A n \in Els(down'[d]) :
          n[1] \in {"ack", "error", "empty"} => n \in Els(down[d])
    BY <1>13, <1>15
  <2>5. ent[x] # "none" => ent'[x] # "none"
    BY <1>10, <2>1
  <2> QED
    BY <1>1, <2>1, <2>2, <2>3, <2>4, <2>5 DEF Ack
<1>25. Mirrors'
  <2> SUFFICES ASSUME NEW d \in Clients, NEW x \in Entities PROVE Mirror(d, x)'
    BY DEF Mirrors
  <2>1. Watch(d, x)' <=> Watch(d, x)
    BY <1>1 DEF Watch, Online
  <2>2. CASE x # e
    <3>1. Watch(d, x)' => /\ Watch(d, x) /\ (Found(x)' <=> Found(x)) /\ ver'[x] = ver[x]
                          /\ (Pending(x) => Pending(x)' \/ ~Found(x))
      BY <1>1, <1>10, <1>11, <2>1, <2>2 DEF Found, Pending
    <3>2. \/ down'[d] = down[d]
          \/ \E s \in Seq(Downs) : /\ down'[d] = down[d] \o s
                                   /\ \A n \in Els(s) : ~About(n, x) /\ n[1] # "synced"
      <4>1. \A n \in Els(<<m>>) : ~About(n, x) /\ n[1] # "synced"
        BY <1>13 DEF About, Changes
      <4> QED
        BY <1>13, <1>14, <4>1
    <3> QED
      BY <1>1, <1>2, <3>1, <3>2, MirrorStays DEF GraphInv, Mirrors
  <2>3. CASE x = e
    <3> SUFFICES ASSUME Watch(d, x) PROVE \E R : Mirrored(d, x, R)'
      BY <2>1 DEF Mirror
    <3>1. down'[d] = down[d]
      BY <1>8, <1>14, <2>3 DEF Watch
    <3>2. PICK R : Mirrored(d, x, R)
      BY DEF GraphInv, Mirrors, Mirror
    <3>3. R = {}
      BY <1>8, <2>3, <3>2 DEF Mirrored, Found
    <3>4. Pending(x)'
      BY <1>11, <2>3 DEF Pending
    <3>5. Seen(d, x)' = Seen(d, x)
      BY <1>1 DEF Seen
    <3>6. Mirrored(d, x, R)'
      BY <3>1, <3>2, <3>3, <3>4, <3>5 DEF Mirrored
    <3> QED
      BY <3>6
  <2> QED
    BY <2>2, <2>3
<1> QED
  BY <1>16, <1>17, <1>18, <1>19, <1>20, <1>21, <1>22, <1>23, <1>24, <1>25 DEF GraphInv

-----------------------------------------------------------------------------
(* Steps of the clients.                                                   *)

LEMMA ClientQuiet ==
  ASSUME GraphInv, UNCHANGED <<stage, clash>>,
         \A d \in Clients : Els(down'[d]) \subseteq Els(down[d])
  PROVE  Lefts' /\ Goings' /\ Sendings'
  BY DEF GraphInv, stage, Lefts, Goings, Sendings, Found

(* Nothing new is heard of an entity the stage has not had.                *)
LEMMA ClientKnown ==
  ASSUME GraphInv, UNCHANGED stage,
         \A d \in Clients : Els(down'[d]) \subseteq Els(down[d]),
         \A d \in Clients : \A m \in Els(up'[d]) : \A e \in Entities :
           Is(m, "made", e) =>
             m \in Els(up[d]) \/ \E n \in Els(down[d]) : Is(n, "ok", e),
         \A d \in Clients : \A x \in view'[d] : \A e \in Entities :
           x.what = e => \/ \E y \in view[d] : y.what = e
                         \/ \E n \in Els(down[d]) : About(n, e)
  PROVE  Known'
<1> SUFFICES ASSUME NEW e \in Entities, ent'[e] = "none" PROVE Unheard(e)'
  BY DEF Known
<1>1. Unheard(e)
  BY DEF GraphInv, Known, stage
<1>2. \A d \in Clients : \A m \in Els(down'[d]) : ~About(m, e) /\ ~Is(m, "ok", e)
  BY <1>1 DEF Unheard
<1>3. \A d \in Clients : \A m \in Els(up'[d]) : ~Is(m, "made", e)
  BY <1>1 DEF Unheard
<1>4. \A d \in Clients : \A x \in view'[d] : x.what # e
  BY <1>1 DEF Unheard
<1> QED
  BY <1>1, <1>2, <1>3, <1>4 DEF Unheard, stage

LEMMA ClientBirths ==
  ASSUME GraphInv, UNCHANGED <<stage, own, used>>,
         \A d \in Clients : phase[d] \notin {"out", "joining"} => phase'[d] \notin {"out", "joining"},
         \A d \in Clients : \A m \in Els(up'[d]) : m \in Els(up[d]) \/ m[1] \notin Changes,
         \A d \in Clients : \A e : Once(up[d], "create", e) => Once(up'[d], "create", e)
  PROVE  Births'
<1> SUFFICES ASSUME NEW e \in Entities PROVE Birth(e)'
  BY DEF Births
<1>1. Birth(e) /\ Home[e] \in Clients
  BY GraphAssumption DEF GraphInv, Births
<1>2. "create" \in Changes
  BY DEF Changes
<1>3. ent' = ent /\ own' = own /\ used' = used
  BY DEF stage
<1>4. \A d \in Clients : \A m \in Els(up'[d]) : About(m, e) => d = Home[e]
  BY <1>1 DEF Birth, About
<1>5. \A m \in Els(up'[Home[e]]) : Is(m, "create", e) => ent[e] = "none" /\ e \in used
  BY <1>1, <1>2 DEF Birth, Is
<1> QED
  BY <1>1, <1>3, <1>4, <1>5 DEF Birth

LEMMA ClientMakes ==
  ASSUME GraphInv,
         \A e \in Creatables : e \in used' <=> e \in used,
         \A e \in Creatables : answer'[e] = "none" <=> answer[e] = "none",
         \A d \in Clients : Els(down'[d]) \subseteq Els(down[d]),
         \A d \in Clients : \A e : Once(down[d], "make", e) => Once(down'[d], "make", e),
         \A d \in Clients : \A m \in Els(up'[d]) : m \in Els(up[d]) \/ m[1] # "make",
         \A d \in Clients : \A e : Once(up[d], "make", e) => Once(up'[d], "make", e)
  PROVE  Makes'
<1> SUFFICES ASSUME NEW e \in Creatables PROVE Make(e)'
  BY DEF Makes
<1>1. Make(e)
  BY DEF GraphInv, Makes
<1>2. \A d \in Clients : \A m \in Els(up'[d]) : Is(m, "make", e) => m \in Els(up[d])
  BY DEF Is
<1> QED
  BY <1>1, <1>2 DEF Make

(* The mirror of a client that does nothing.                               *)
LEMMA MirrorIdle ==
  ASSUME GraphInv, UNCHANGED <<stage, clash>>, NEW d \in Clients, NEW e \in Entities,
         Online(d)' /\ perf[d] # "none" => Online(d),
         phase'[d] = "synced" => phase[d] = "synced",
         view'[d] = view[d], down'[d] = down[d]
  PROVE  Mirror(d, e)'
<1> SUFFICES ASSUME Watch(d, e)' PROVE \E R : Mirrored(d, e, R)'
  BY DEF Mirror
<1>1. Watch(d, e)
  BY DEF Watch, stage
<1>2. PICK R : Mirrored(d, e, R)
  BY <1>1 DEF GraphInv, Mirrors, Mirror
<1>3. /\ Seen(d, e)' = Seen(d, e) /\ (Snap(d)' => Snap(d)) /\ (Found(e)' <=> Found(e))
      /\ (Pending(e)' <=> Pending(e)) /\ ver' = ver
  BY DEF Seen, Snap, Found, Pending, stage
<1>4. Mirrored(d, e, R)'
  BY <1>2, <1>3 DEF Mirrored
<1> QED
  BY <1>4

(* Client c hears a message and changes what it has accordingly.           *)
LEMMA MirrorsHear ==
  ASSUME GraphInv, UNCHANGED <<stage, clash>>, NEW c \in Clients, down[c] # <<>>, Heard(c),
         \A d \in Clients : d # c => phase'[d] = phase[d] /\ view'[d] = view[d],
         Online(c)' => Online(c),
         phase'[c] = "synced" => phase[c] = "synced" \/ Head(down[c])[1] = "synced",
         \A e \in Entities :
           Watch(c, e) => Seen(c, e)' = After(Seen(c, e), Head(down[c]), e)
  PROVE  Mirrors'
<1>1. down \in [Clients -> Seq(Downs)]
  BY DEF GraphInv, GraphTypes
<1>2. /\ down'[c] = Tail(down[c])
      /\ \A d \in Clients : d # c => down'[d] = down[d]
      /\ Els(down'[c]) \subseteq Els(down[c])
      /\ Head(down[c]) \in Els(down[c])
  BY <1>1, HeardEffect
<1> SUFFICES ASSUME NEW d \in Clients, NEW e \in Entities PROVE Mirror(d, e)'
  BY DEF Mirrors
<1>3. CASE d # c
  <2>1. (Online(d)' => Online(d)) /\ (phase'[d] = "synced" => phase[d] = "synced")
    BY <1>3 DEF Online
  <2> QED
    BY <1>2, <1>3, <2>1, MirrorIdle
<1>4. CASE d = c
  <2> SUFFICES ASSUME Watch(c, e)' PROVE \E R : Mirrored(c, e, R)'
    BY <1>4 DEF Mirror
  <2>1. Watch(c, e)
    BY DEF Watch, stage
  <2>2. PICK R : Mirrored(c, e, R)
    BY <2>1 DEF GraphInv, Mirrors, Mirror
  <2>3. Replays(Seen(c, e)', down'[c], e, R)
    <3>1. down[c] \in Seq(Downs)
      BY <1>1
    <3>2. Replays(After(Seen(c, e), Head(down[c]), e), Tail(down[c]), e, R)
      BY <2>2, <3>1, ReplayHear DEF Mirrored
    <3> QED
      BY <1>2, <2>1, <3>2
  <2>4. Snap(c)' => Snap(c)
    BY <1>2 DEF Snap
  <2>5. (Found(e)' <=> Found(e)) /\ (Pending(e)' <=> Pending(e)) /\ ver' = ver
    BY DEF Found, Pending, stage
  <2>6. Mirrored(c, e, R)'
    BY <2>2, <2>3, <2>4, <2>5 DEF Mirrored
  <2> QED
    BY <2>6
<1> QED
  BY <1>3, <1>4

(* Who hears anything but the reply to its join request has joined.        *)
LEMMA Hearer ==
  ASSUME GraphInv, NEW c \in Clients, down[c] # <<>>, Head(down[c])[1] # "joined"
  PROVE  phase[c] \in {"joined", "synced"} /\ perf[c] # "none"
<1>1. Role(c)
  BY DEF GraphInv, Roles
<1>2. perf[c] # "none" /\ phase[c] \notin {"out", "left", "dead"}
  BY <1>1 DEF Role
<1>3. phase[c] # "joining"
  BY <1>1, <1>2 DEF Role, Opening
<1>4. phase[c] \in {"out", "joining", "joined", "synced", "left", "dead"}
  BY DEF GraphInv, GraphTypes
<1> QED
  BY <1>2, <1>3, <1>4

LEMMA HearRoles ==
  ASSUME GraphInv, UNCHANGED stage, NEW c \in Clients, down[c] # <<>>, Heard(c),
         Head(down[c])[1] # "joined",
         \A d \in Clients : d # c => phase'[d] = phase[d] /\ view'[d] = view[d] /\ up'[d] = up[d],
         phase'[c] \in {"joined", "synced"},
         \A m \in Els(up'[c]) : m \in Els(up[c]) \/ m[1] # "join"
  PROVE  Roles'
<1>1. down \in [Clients -> Seq(Downs)]
  BY DEF GraphInv, GraphTypes
<1>2. /\ \A d \in Clients : d # c => down'[d] = down[d]
      /\ Els(down'[c]) \subseteq Els(down[c])
  BY <1>1, HeardEffect
<1> SUFFICES ASSUME NEW d \in Clients PROVE Role(d)'
  BY DEF Roles
<1>3. Role(d) /\ perf' = perf
  BY DEF GraphInv, Roles, stage
<1>4. CASE d # c
  BY <1>2, <1>3, <1>4 DEF Role
<1>5. CASE d = c
  <2>1. phase[c] \in {"joined", "synced"} /\ perf[c] # "none"
    BY Hearer
  <2> QED
    BY <1>2, <1>3, <1>5, <2>1 DEF Role
<1> QED
  BY <1>4, <1>5

(* Hearing anything but a failure leaves the order of the answers.         *)
LEMMA HearAcks ==
  ASSUME GraphInv, UNCHANGED <<stage, answer>>, NEW c \in Clients, down[c] # <<>>, Heard(c),
         Head(down[c])[1] \notin {"error", "empty"}
  PROVE  Acks'
<1>1. down \in [Clients -> Seq(Downs)]
  BY DEF GraphInv, GraphTypes
<1>2. /\ \A d \in Clients : d # c => down'[d] = down[d]
      /\ \A d \in Clients : Els(down'[d]) \subseteq Els(down[d])
      /\ down'[c] = Tail(down[c])
  BY <1>1, HeardEffect
<1> SUFFICES ASSUME NEW e \in Creatables PROVE Ack(e)'
  BY DEF Acks
<1>3. Ack(e)
  BY DEF GraphInv, Acks
<1>4. Failing(down[c], e) => Failing(down'[c], e)
  <2>1. down[c] \in Seq(Downs)
    BY <1>1
  <2> QED
    BY <1>2, <2>1, FailingTail
<1> QED
  BY <1>2, <1>3, <1>4 DEF Ack, stage

(* A message that changes what the client has, or tells the stage.         *)
LEMMA HearDone ==
  ASSUME GraphInv, GraphTypes', NEW c \in Clients, down[c] # <<>>, Head(down[c])[1] # "joined",
         Heard(c), UNCHANGED <<stage, clash, own, used>>,
         \A d \in Clients : d # c => phase'[d] = phase[d] /\ view'[d] = view[d] /\ up'[d] = up[d],
         phase'[c] \in {phase[c], "synced"},
         \A e \in Creatables : answer'[e] = "none" <=> answer[e] = "none",
         \/ up'[c] = up[c]
         \/ \E s \in Seq(Ups) :
              /\ up'[c] = up[c] \o s
              /\ \A m \in Els(s) : \/ m[1] = "unmade"
                                   \/ m[1] = "made" /\ Is(Head(down[c]), "ok", m[2]),
         \A x \in view'[c] : (\E y \in view[c] : y.what = x.what) \/ About(Head(down[c]), x.what),
         Acks', Mirrors'
  PROVE  GraphInv'
<1>1. down \in [Clients -> Seq(Downs)] /\ up \in [Clients -> Seq(Ups)]
  BY DEF GraphInv, GraphTypes
<1>2. /\ \A d \in Clients : Els(down'[d]) \subseteq Els(down[d])
      /\ Head(down[c]) \in Els(down[c])
      /\ \A d \in Clients : \A k, e : Once(down[d], k, e) => Once(down'[d], k, e)
  BY <1>1, HeardEffect
<1>3. phase[c] \in {"joined", "synced"}
  BY Hearer
<1>4. ASSUME NEW m \in Els(up'[c])
      PROVE  \/ m \in Els(up[c]) \/ m[1] = "unmade"
             \/ m[1] = "made" /\ Is(Head(down[c]), "ok", m[2])
  <2>1. CASE up'[c] = up[c]
    BY <1>4, <2>1
  <2>2. CASE up'[c] # up[c]
    <3>1. PICK s \in Seq(Ups) :
            /\ up'[c] = up[c] \o s
            /\ \A n \in Els(s) : \/ n[1] = "unmade"
                                 \/ n[1] = "made" /\ Is(Head(down[c]), "ok", n[2])
      BY <2>2
    <3>2. up[c] \in Seq(Ups)
      BY <1>1
    <3>3. Els(up[c] \o s) = Els(up[c]) \cup Els(s)
      BY <3>1, <3>2, ElsConcat
    <3> QED
      BY <1>4, <3>1, <3>3
  <2> QED
    BY <2>1, <2>2
<1>5. ASSUME NEW k, NEW e, k \notin {"made", "unmade"}, Once(up[c], k, e)
      PROVE  Once(up'[c], k, e)
  <2>1. CASE up'[c] = up[c]
    BY <1>5, <2>1
  <2>2. CASE up'[c] # up[c]
    <3>1. PICK s \in Seq(Ups) : up'[c] = up[c] \o s /\ \A n \in Els(s) : n[1] \in {"made", "unmade"}
      BY <2>2
    <3>2. up[c] \in Seq(Ups) /\ \A n \in Els(s) : ~Is(n, k, e)
      BY <1>1, <1>5, <3>1 DEF Is
    <3> QED
      BY <1>5, <3>1, <3>2, OnceConcat
  <2> QED
    BY <2>1, <2>2
<1>6. Roles'
  <2>1. \A m \in Els(up'[c]) : m \in Els(up[c]) \/ m[1] # "join"
    BY <1>4
  <2>2. phase'[c] \in {"joined", "synced"}
    BY <1>3
  <2> QED
    BY <2>1, <2>2, HearRoles
<1>7. Births'
  <2>1. \A d \in Clients : phase[d] \notin {"out", "joining"} => phase'[d] \notin {"out", "joining"}
    BY <1>3
  <2>2. \A d \in Clients : \A m \in Els(up'[d]) : m \in Els(up[d]) \/ m[1] \notin Changes
    BY <1>4 DEF Changes
  <2>3. \A d \in Clients : \A e : Once(up[d], "create", e) => Once(up'[d], "create", e)
    BY <1>5
  <2> QED
    BY <2>1, <2>2, <2>3, ClientBirths
<1>8. Makes'
  <2>1. \A d \in Clients : \A m \in Els(up'[d]) : m \in Els(up[d]) \/ m[1] # "make"
    BY <1>4
  <2>2. \A d \in Clients : \A e : Once(up[d], "make", e) => Once(up'[d], "make", e)
    BY <1>5
  <2>3. \A d \in Clients : \A e : Once(down[d], "make", e) => Once(down'[d], "make", e)
    BY <1>2
  <2> QED
    BY <1>2, <2>1, <2>2, <2>3, ClientMakes
<1>9. Known'
  <2>1. \A d \in Clients : \A m \in Els(up'[d]) : \A e \in Entities :
          Is(m, "made", e) => m \in Els(up[d]) \/ \E n \in Els(down[d]) : Is(n, "ok", e)
    <3> SUFFICES ASSUME NEW d \in Clients, NEW m \in Els(up'[d]), NEW e \in Entities,
                        Is(m, "made", e)
                 PROVE  m \in Els(up[d]) \/ \E n \in Els(down[d]) : Is(n, "ok", e)
      OBVIOUS
    <3>1. CASE d # c
      BY <3>1
    <3>2. CASE d = c
      BY <1>2, <1>4, <3>2 DEF Is
    <3> QED
      BY <3>1, <3>2
  <2>2. \A d \in Clients : \A x \in view'[d] : \A e \in Entities :
          x.what = e => \/ \E y \in view[d] : y.what = e
                        \/ \E n \in Els(down[d]) : About(n, e)
    BY <1>2
  <2> QED
    BY <1>2, <2>1, <2>2, ClientKnown
<1>10. Lefts' /\ Goings' /\ Sendings'
  BY <1>2, ClientQuiet
<1> QED
  BY <1>6, <1>7, <1>8, <1>9, <1>10 DEF GraphInv

LEMMA HearSyncedKeeps ==
  ASSUME GraphInv, NEW c \in Clients, HearSynced(c)
  PROVE  GraphInv'
<1>1. /\ UNCHANGED <<stage, own, used, view, answer, up, clash>> /\ Heard(c)
      /\ down[c] # <<>> /\ Head(down[c])[1] \in {"synced", "refused"}
      /\ phase' = [phase EXCEPT ![c] = IF Head(down[c])[1] = "synced" THEN "synced" ELSE @]
  BY DEF HearSynced, Hears
<1>2. /\ down \in [Clients -> Seq(Downs)]
      /\ phase \in [Clients -> {"out", "joining", "joined", "synced", "left", "dead"}]
  BY DEF GraphInv, GraphTypes
<1>3. down' \in [Clients -> Seq(Downs)]
  BY <1>1, <1>2, HeardEffect
<1>4. /\ phase'[c] = IF Head(down[c])[1] = "synced" THEN "synced" ELSE phase[c]
      /\ \A d \in Clients : d # c => phase'[d] = phase[d]
      /\ phase' \in [Clients -> {"out", "joining", "joined", "synced", "left", "dead"}]
  BY <1>1, <1>2
<1>5. GraphTypes'
  BY <1>1, <1>3, <1>4 DEF GraphInv, GraphTypes, stage
<1>6. Acks'
  BY <1>1, HearAcks
<1>7. phase[c] \in {"joined", "synced"}
  BY <1>1, Hearer
<1>8. Mirrors'
  <2>1. Online(c)
    BY <1>7 DEF Online
  <2>2. phase'[c] = "synced" => phase[c] = "synced" \/ Head(down[c])[1] = "synced"
    BY <1>4
  <2>3. \A e \in Entities : Seen(c, e)' = After(Seen(c, e), Head(down[c]), e)
    BY <1>1 DEF Seen, After, About, Changes
  <2> QED
    BY <1>1, <1>4, <2>1, <2>2, <2>3, MirrorsHear
<1>9. phase'[c] \in {phase[c], "synced"}
  BY <1>4
<1> QED
  BY <1>1, <1>4, <1>5, <1>6, <1>8, <1>9, HearDone

LEMMA HearCreateKeeps ==
  ASSUME GraphInv, NEW c \in Clients, HearCreate(c)
  PROVE  GraphInv'
<1> DEFINE m == Head(down[c])
           o == m[2]
           v == m[3]
           tied == o \in Entities /\ \E x \in view[c] : x.what = Home[o]
           mine == o = c \/ (o \in Entities /\ Home[o] = c)
           new == [what |-> o, ver |-> v, tied |-> tied]
           V == IF mine \/ \E x \in view[c] : x.what = o /\ x.ver = v
                THEN view[c] ELSE view[c] \cup {new}
<1>1. /\ UNCHANGED <<stage, own, used, answer, up, clash, phase>> /\ Heard(c)
      /\ down[c] # <<>> /\ m[1] = "create"
      /\ view' = [view EXCEPT ![c] = V]
  BY DEF HearCreate, Hears, News
<1>2. /\ down \in [Clients -> Seq(Downs)] /\ view \in [Clients -> SUBSET Proxies]
  BY DEF GraphInv, GraphTypes
<1>3. down' \in [Clients -> Seq(Downs)] /\ m \in Downs
  BY <1>1, <1>2, HeardEffect
<1>4. o \in Objects /\ v \in 1..MaxVersion /\ m[1] \in Changes
  BY <1>1, <1>3, DownKinds DEF Changes
<1>5. new \in Proxies /\ new.what = o /\ new.ver = v
  <2>1. tied \in BOOLEAN
    OBVIOUS
  <2> HIDE DEF tied, o, v
  <2> QED
    BY <1>4, <2>1 DEF Proxies
<1> HIDE DEF new
<1>6. V \subseteq Proxies
  BY <1>2, <1>5
<1>7. view' \in [Clients -> SUBSET Proxies] /\ view'[c] = V
      /\ \A d \in Clients : d # c => view'[d] = view[d]
  <2> HIDE DEF V
  <2> QED
    BY <1>1, <1>2, <1>6
<1>8. GraphTypes'
  BY <1>1, <1>3, <1>7 DEF GraphInv, GraphTypes, stage
<1>9. Acks'
  BY <1>1, HearAcks
<1>10. Mirrors'
  <2>1. ASSUME NEW e \in Entities, Watch(c, e)
        PROVE  Seen(c, e)' = After(Seen(c, e), m, e)
    <3>1. Seen(c, e)' = {x.ver : x \in {y \in V : y.what = e}}
      BY <1>7 DEF Seen
    <3>2. CASE o # e
      <4>1. {y \in V : y.what = e} = {y \in view[c] : y.what = e}
        BY <1>5, <3>2
      <4>2. ~About(m, e)
        BY <3>2 DEF About
      <4> QED
        BY <3>1, <4>1, <4>2 DEF After, Seen
    <3>3. CASE o = e
      <4>1. ~mine
        BY <2>1, <3>3, GraphAssumption DEF Watch
      <4>2. After(Seen(c, e), m, e) = Seen(c, e) \cup {v}
        BY <1>1, <1>4, <3>3 DEF After, About
      <4>3. CASE \E x \in view[c] : x.what = o /\ x.ver = v
        <5>1. V = view[c]
          BY <4>3
        <5>2. v \in Seen(c, e)
          BY <3>3, <4>3 DEF Seen
        <5> HIDE DEF V, v
        <5>3. Seen(c, e)' = Seen(c, e)
          BY <3>1, <5>1 DEF Seen
        <5>4. Seen(c, e) \cup {v} = Seen(c, e)
          BY <5>2
        <5> QED
          BY <4>2, <5>3, <5>4
      <4>4. CASE ~(\E x \in view[c] : x.what = o /\ x.ver = v)
        <5>1. V = view[c] \cup {new}
          BY <4>1, <4>4
        <5>2. new.what = e /\ new.ver = v
          BY <1>5, <3>3
        <5> HIDE DEF V, v
        <5>3. {y \in V : y.what = e} = {y \in view[c] : y.what = e} \cup {new}
          BY <5>1, <5>2
        <5> QED
          BY <3>1, <4>2, <5>2, <5>3 DEF Seen
      <4> QED
        BY <4>3, <4>4
    <3> QED
      BY <3>2, <3>3
  <2>2. phase' = phase
    BY <1>1
  <2>3. Online(c)' => Online(c)
    BY <2>2 DEF Online
  <2> HIDE DEF V
  <2> QED
    BY <1>1, <1>7, <2>1, <2>2, <2>3, MirrorsHear
<1>11. \A x \in view'[c] : (\E y \in view[c] : y.what = x.what) \/ About(m, x.what)
  <2>1. \A x \in V : x \in view[c] \/ x = new
    OBVIOUS
  <2>2. About(m, new.what)
    BY <1>4, <1>5 DEF About
  <2> HIDE DEF V
  <2> QED
    BY <1>7, <2>1, <2>2
<1> HIDE DEF V
<1> QED
  BY <1>1, <1>7, <1>8, <1>9, <1>10, <1>11, HearDone

LEMMA HearChangeKeeps ==
  ASSUME GraphInv, NEW c \in Clients, HearChange(c)
  PROVE  GraphInv'
<1> DEFINE m == Head(down[c])
           o == m[2]
           v == m[3]
           X == {x \in view[c] : x.what = o /\ x.ver = v}
           Y == IF m[1] = "update" THEN {[x EXCEPT !.ver = @ + 1] : x \in X} ELSE {}
           V == (view[c] \ X) \cup Y
<1>1. /\ UNCHANGED <<stage, own, used, answer, up, clash, phase>> /\ Heard(c)
      /\ down[c] # <<>> /\ m[1] \in {"update", "destroy"}
      /\ view' = [view EXCEPT ![c] = V]
  BY DEF HearChange, Hears, News
<1>2. /\ down \in [Clients -> Seq(Downs)] /\ view \in [Clients -> SUBSET Proxies]
      /\ view[c] \subseteq Proxies
  BY DEF GraphInv, GraphTypes
<1>3. down' \in [Clients -> Seq(Downs)] /\ m \in Downs
  BY <1>1, <1>2, HeardEffect
<1>4. /\ m[1] \in Changes /\ v \in 1..MaxVersion
      /\ m[1] = "update" => v \in 1..(MaxVersion - 1)
  BY <1>1, <1>3, DownKinds DEF Changes
<1>5. ASSUME NEW x \in X
      PROVE  /\ x \in Proxies /\ x.what = o /\ x.ver = v
             /\ m[1] = "update" => [x EXCEPT !.ver = @ + 1] \in Proxies
             /\ [x EXCEPT !.ver = @ + 1].what = o
             /\ [x EXCEPT !.ver = @ + 1].ver = v + 1
  <2>1. x \in Proxies /\ x.what = o /\ x.ver = v
    BY <1>2
  <2>2. m[1] = "update" => v + 1 \in 1..MaxVersion
    BY <1>4, GraphAssumption
  <2> HIDE DEF o, v, m
  <2> QED
    BY <2>1, <2>2 DEF Proxies
<1>6. \A y \in Y : y \in Proxies /\ y.what = o /\ y.ver = v + 1 /\ m[1] = "update" /\ X # {}
  BY <1>5
<1>7. m[1] = "update" /\ X # {} => \E y \in Y : y.what = o /\ y.ver = v + 1
  BY <1>5
<1> HIDE DEF Y
<1>8. V \subseteq Proxies
  BY <1>2, <1>6
<1>9. view' \in [Clients -> SUBSET Proxies] /\ view'[c] = V
      /\ \A d \in Clients : d # c => view'[d] = view[d]
  <2> HIDE DEF V
  <2> QED
    BY <1>1, <1>2, <1>8
<1>10. GraphTypes'
  BY <1>1, <1>3, <1>9 DEF GraphInv, GraphTypes, stage
<1>11. Acks'
  BY <1>1, HearAcks
<1>12. Mirrors'
  <2>1. ASSUME NEW e \in Entities, Watch(c, e)
        PROVE  Seen(c, e)' = After(Seen(c, e), m, e)
    <3>1. Seen(c, e)' = {x.ver : x \in {y \in V : y.what = e}}
      BY <1>9 DEF Seen
    <3>2. CASE o # e
      <4>1. {y \in V : y.what = e} = {y \in view[c] : y.what = e}
        BY <1>6, <3>2
      <4>2. ~About(m, e)
        BY <3>2 DEF About
      <4> QED
        BY <3>1, <4>1, <4>2 DEF After, Seen
    <3>3. CASE o = e
      <4>1. {y \in V : y.what = e} = ({y \in view[c] : y.what = e} \ X) \cup Y
        BY <1>6, <3>3
      <4>2. {x.ver : x \in {y \in view[c] : y.what = e} \ X} = Seen(c, e) \ {v}
        BY <3>3 DEF Seen
      <4>3. {x.ver : x \in Y} = IF m[1] = "update" /\ v \in Seen(c, e) THEN {v + 1} ELSE {}
        <5>1. X # {} <=> v \in Seen(c, e)
          BY <3>3 DEF Seen
        <5> HIDE DEF X, v, m, o
        <5> QED
          BY <1>6, <1>7, <5>1
      <4>4. Seen(c, e)' = (Seen(c, e) \ {v}) \cup {x.ver : x \in Y}
        <5> HIDE DEF V, X, v
        <5> QED
          BY <3>1, <4>1, <4>2
      <4>5. After(Seen(c, e), m, e) =
              IF m[1] = "destroy" THEN Seen(c, e) \ {v}
              ELSE IF v \in Seen(c, e) THEN (Seen(c, e) \ {v}) \cup {v + 1} ELSE Seen(c, e)
        BY <1>1, <1>4, <3>3 DEF After, About
      <4> HIDE DEF v, m
      <4> QED
        BY <1>1, <4>3, <4>4, <4>5
    <3> QED
      BY <3>2, <3>3
  <2>2. phase' = phase
    BY <1>1
  <2>3. Online(c)' => Online(c)
    BY <2>2 DEF Online
  <2> HIDE DEF V
  <2> QED
    BY <1>1, <1>9, <2>1, <2>2, <2>3, MirrorsHear
<1>13. \A x \in view'[c] : (\E y \in view[c] : y.what = x.what) \/ About(m, x.what)
  <2>1. \A x \in V : x \in view[c] \/ x \in Y
    OBVIOUS
  <2>2. \A y \in Y : About(m, y.what)
    BY <1>4, <1>6 DEF About
  <2> HIDE DEF V
  <2> QED
    BY <1>9, <2>1, <2>2
<1> HIDE DEF V
<1>14. m[1] # "joined" /\ phase'[c] = phase[c]
  BY <1>1
<1> QED
  BY <1>1, <1>9, <1>10, <1>11, <1>12, <1>13, <1>14, HearDone

LEMMA HearLeftKeeps ==
  ASSUME GraphInv, NEW c \in Clients, HearLeft(c)
  PROVE  GraphInv'
<1> DEFINE m == Head(down[c])
           V == {x \in view[c] : x.what # m[2] /\ ~(x.tied /\ Home[x.what] = m[2])}
<1>1. /\ UNCHANGED <<stage, own, used, answer, up, clash, phase>> /\ Heard(c)
      /\ down[c] # <<>> /\ m[1] = "left"
      /\ view' = [view EXCEPT ![c] = V]
  BY DEF HearLeft, Hears, News
<1>2. /\ down \in [Clients -> Seq(Downs)] /\ view \in [Clients -> SUBSET Proxies]
  BY DEF GraphInv, GraphTypes
<1>3. down' \in [Clients -> Seq(Downs)] /\ m \in Downs /\ m \in Els(down[c])
  BY <1>1, <1>2, HeardEffect
<1>4. m[2] \in Clients /\ perf[m[2]] \in {"going", "freed"}
  BY <1>1, <1>3, DownKinds DEF GraphInv, Lefts
<1>5. V \subseteq view[c]
  OBVIOUS
<1>6. view' \in [Clients -> SUBSET Proxies] /\ view'[c] = V
      /\ \A d \in Clients : d # c => view'[d] = view[d]
  <2> HIDE DEF V
  <2> QED
    BY <1>1, <1>2, <1>5
<1>7. GraphTypes'
  BY <1>1, <1>3, <1>6 DEF GraphInv, GraphTypes, stage
<1>8. Acks'
  BY <1>1, HearAcks
<1>9. Mirrors'
  <2>1. ASSUME NEW e \in Entities, Watch(c, e)
        PROVE  Seen(c, e)' = After(Seen(c, e), m, e)
    <3>1. Seen(c, e)' = {x.ver : x \in {y \in V : y.what = e}}
      BY <1>6 DEF Seen
    <3>2. e # m[2] /\ Home[e] # m[2]
      BY <1>4, <2>1, GraphAssumption DEF Watch
    <3>3. {y \in V : y.what = e} = {y \in view[c] : y.what = e}
      BY <3>2
    <3>4. ~About(m, e)
      BY <1>1 DEF About, Changes
    <3> QED
      BY <3>1, <3>3, <3>4 DEF After, Seen
  <2>2. phase' = phase
    BY <1>1
  <2>3. Online(c)' => Online(c)
    BY <2>2 DEF Online
  <2> HIDE DEF V
  <2> QED
    BY <1>1, <1>6, <2>1, <2>2, <2>3, MirrorsHear
<1>10. \A x \in view'[c] : (\E y \in view[c] : y.what = x.what) \/ About(m, x.what)
  <2> HIDE DEF V
  <2> QED
    BY <1>5, <1>6
<1> HIDE DEF V
<1>11. m[1] # "joined" /\ phase'[c] = phase[c]
  BY <1>1
<1> QED
  BY <1>1, <1>6, <1>7, <1>8, <1>9, <1>10, <1>11, HearDone

LEMMA HearOKKeeps ==
  ASSUME GraphInv, NEW c \in Clients, HearOK(c)
  PROVE  GraphInv'
<1> DEFINE m == Head(down[c])
           s == IF m[2] \in Creatables THEN <<<<"made", m[2]>>>> ELSE <<>>
<1>1. /\ UNCHANGED <<stage, own, used, answer, view, clash, phase>> /\ Heard(c)
      /\ down[c] # <<>> /\ m[1] = "ok" /\ Ask(c, s)
  BY DEF HearOK, Hears, News, client
<1>2. down \in [Clients -> Seq(Downs)] /\ up \in [Clients -> Seq(Ups)]
  BY DEF GraphInv, GraphTypes
<1>3. down' \in [Clients -> Seq(Downs)]
  BY <1>1, <1>2, HeardEffect
<1>4. s \in Seq(Ups) /\ \A n \in Els(s) : n = <<"made", m[2]>>
  <2>1. CASE m[2] \in Creatables
    <3>1. <<"made", m[2]>> \in Ups
      BY <2>1 DEF Ups
    <3>2. Els(<<<<"made", m[2]>>>>) = {<<"made", m[2]>>}
      BY ElsShort
    <3> HIDE DEF m
    <3> QED
      BY <2>1, <3>1, <3>2
  <2>2. CASE m[2] \notin Creatables
    <3>1. <<>> \in Seq(Ups) /\ Els(<<>>) = {}
      BY ElsShort, EmptySeq
    <3> QED
      BY <2>2, <3>1
  <2> QED
    BY <2>1, <2>2
<1>5. \A n \in Els(s) : n[1] = "made" /\ Is(m, "ok", n[2])
  BY <1>1, <1>4 DEF Is
<1> HIDE DEF s
<1>6. /\ up' \in [Clients -> Seq(Ups)] /\ up'[c] = up[c] \o s
      /\ \A d \in Clients : d # c => up'[d] = up[d]
  BY <1>1, <1>2, <1>4, AskEffect
<1>7. GraphTypes'
  BY <1>1, <1>3, <1>6 DEF GraphInv, GraphTypes, stage
<1>8. Acks'
  BY <1>1, HearAcks
<1>9. Mirrors'
  <2>1. \A e \in Entities : Seen(c, e)' = After(Seen(c, e), m, e)
    BY <1>1 DEF Seen, After, About, Changes
  <2>2. Online(c)' => Online(c)
    BY <1>1 DEF Online
  <2> QED
    BY <1>1, <2>1, <2>2, MirrorsHear
<1>10. m[1] # "joined" /\ phase'[c] = phase[c] /\ view'[c] = view[c]
  BY <1>1
<1> QED
  BY <1>1, <1>4, <1>5, <1>6, <1>7, <1>8, <1>9, <1>10, HearDone

LEMMA HearAnswerKeeps ==
  ASSUME GraphInv, NEW c \in Clients, HearAnswer(c)
  PROVE  GraphInv'
<1> DEFINE m == Head(down[c])
           e == m[2]
<1>1. /\ UNCHANGED <<stage, own, used, view, up, clash, phase>> /\ Heard(c)
      /\ down[c] # <<>> /\ m[1] \in {"ack", "error", "empty"}
      /\ answer' = [answer EXCEPT ![e] = IF @ = "asked" THEN m[1] ELSE @]
  BY DEF HearAnswer, Hears, News
<1>2. /\ down \in [Clients -> Seq(Downs)]
      /\ answer \in [Creatables -> {"none", "asked", "ack", "error", "empty"}]
  BY DEF GraphInv, GraphTypes
<1>3. /\ down' \in [Clients -> Seq(Downs)] /\ m \in Downs /\ m \in Els(down[c])
      /\ \A d \in Clients : d # c => down'[d] = down[d]
      /\ \A d \in Clients : Els(down'[d]) \subseteq Els(down[d])
      /\ down'[c] = Tail(down[c])
  BY <1>1, <1>2, HeardEffect
<1>4. e \in Creatables /\ m = <<m[1], e>>
  BY <1>1, <1>3, DownKinds
<1>5. /\ answer' \in [Creatables -> {"none", "asked", "ack", "error", "empty"}]
      /\ answer'[e] = IF answer[e] = "asked" THEN m[1] ELSE answer[e]
      /\ \A x \in Creatables : x # e => answer'[x] = answer[x]
  BY <1>1, <1>2, <1>4
<1>6. GraphTypes'
  BY <1>1, <1>3, <1>5 DEF GraphInv, GraphTypes, stage
<1>7. \A x \in Creatables : Ack(x)
  BY DEF GraphInv, Acks
<1>8. answer[e] # "none"
  BY <1>1, <1>3, <1>4, <1>7 DEF Ack
<1>9. down[c] \in Seq(Downs) /\ ent' = ent /\ waits' = waits
  BY <1>1, <1>2 DEF stage
<1>10. Acks'
  <2> SUFFICES ASSUME NEW x \in Creatables PROVE Ack(x)'
    BY DEF Acks
  <2>1. CASE x # e
    <3>1. Failing(down[c], x) => Failing(down'[c], x)
      BY <1>1, <1>3, <1>9, <2>1, FailingTail
    <3> QED
      BY <1>3, <1>5, <1>7, <1>9, <2>1, <3>1 DEF Ack
  <2>2. CASE x = e
    <3>1. answer'[e] # "asked" /\ answer'[e] # "none"
      BY <1>1, <1>5, <1>8
    <3>2. ASSUME answer[e] = "asked", m[1] = "ack", ent[e] = "none" PROVE FALSE
      <4>1. Failing(down[c], e)
        BY <1>4, <1>7, <3>2 DEF Ack
      <4>2. ~(m[1] \in {"error", "empty"} /\ m[2] = e)
        BY <3>2
      <4>3. m # <<"ack", e>>
        BY <1>1, <1>9, <4>1, <4>2, FailingTail
      <4> QED
        BY <1>4, <3>2, <4>3
    <3>3. answer'[e] = "ack" => ent[e] # "none"
      BY <1>4, <1>5, <1>7, <3>2 DEF Ack
    <3> QED
      BY <1>9, <2>2, <3>1, <3>3 DEF Ack
  <2> QED
    BY <2>1, <2>2
<1>11. Mirrors'
  <2>1. \A x \in Entities : Seen(c, x)' = After(Seen(c, x), m, x)
    BY <1>1 DEF Seen, After, About, Changes
  <2>2. Online(c)' => Online(c)
    BY <1>1 DEF Online
  <2> QED
    BY <1>1, <2>1, <2>2, MirrorsHear
<1>12. m[1] # "joined" /\ phase'[c] = phase[c] /\ view'[c] = view[c]
  BY <1>1
<1>13. \A x \in Creatables : answer'[x] = "none" <=> answer[x] = "none"
  BY <1>1, <1>5, <1>8
<1> QED
  BY <1>1, <1>6, <1>10, <1>11, <1>12, <1>13, HearDone

(* A factory request reaches the client of the factory.                    *)
LEMMA HearMakeKeeps ==
  ASSUME GraphInv, NEW c \in Clients, HearMake(c)
  PROVE  GraphInv'
<1> DEFINE m == Head(down[c])
           e == m[2]
<1>1. /\ UNCHANGED <<stage, view, answer, clash, phase>> /\ Heard(c)
      /\ down[c] # <<>> /\ m[1] = "make"
  BY DEF HearMake, Hears
<1>2. \/ UNCHANGED <<own, used, up>>
      \/ Ask(c, <<<<"unmade", e>>>>) /\ UNCHANGED <<own, used>>
      \/ /\ own' = [own EXCEPT ![e] = 1] /\ used' = used \cup {e}
         /\ Ask(c, <<<<"create", e, 1>>>>)
  BY DEF HearMake, News
<1>3. down \in [Clients -> Seq(Downs)] /\ up \in [Clients -> Seq(Ups)]
  BY DEF GraphInv, GraphTypes
<1>4. /\ down' \in [Clients -> Seq(Downs)] /\ m \in Downs /\ m \in Els(down[c])
      /\ \A d \in Clients : d # c => down'[d] = down[d]
      /\ \A d \in Clients : Els(down'[d]) \subseteq Els(down[d])
      /\ \A d \in Clients : \A k, x : Once(down[d], k, x) => Once(down'[d], k, x)
      /\ \A k, x : Once(down[c], k, x) /\ Is(m, k, x) => \A n \in Els(down'[c]) : ~Is(n, k, x)
  BY <1>1, <1>3, HeardEffect
<1>5. e \in Creatables /\ e \in Entities /\ Is(m, "make", e)
  BY <1>1, <1>4, DownKinds, GraphAssumption DEF Is
<1>6. Make(e)
  BY <1>5 DEF GraphInv, Makes
<1>7. c = Home[e] /\ e \notin used /\ answer[e] # "none" /\ Once(down[c], "make", e)
  BY <1>4, <1>5, <1>6 DEF Make
<1>8. Acks'
  BY <1>1, HearAcks
<1>9. Mirrors'
  <2>1. \A x \in Entities : Seen(c, x)' = After(Seen(c, x), m, x)
    BY <1>1 DEF Seen, After, About, Changes
  <2>2. Online(c)' => Online(c)
    BY <1>1 DEF Online
  <2> QED
    BY <1>1, <2>1, <2>2, MirrorsHear
<1>10. m[1] # "joined" /\ phase' = phase /\ view' = view
  BY <1>1
<1> HIDE DEF m, e
<1>11. CASE UNCHANGED <<own, used, up>>
  <2>1. GraphTypes'
    BY <1>1, <1>4, <1>11 DEF GraphInv, GraphTypes, stage
  <2>2. GraphInv /\ Head(down[c])[1] # "joined" /\ phase'[c] \in {phase[c], "synced"}
    BY <1>10 DEF m
  <2> QED
    BY <1>1, <1>8, <1>9, <1>10, <1>11, <2>1, <2>2, HearDone
<1>12. CASE Ask(c, <<<<"unmade", e>>>>) /\ UNCHANGED <<own, used>>
  <2>1. PICK n, s : n = <<"unmade", e>> /\ s = <<n>>
    OBVIOUS
  <2>2. s \in Seq(Ups) /\ \A k \in Els(s) : k[1] = "unmade"
    <3>1. n \in Ups
      BY <1>5, <2>1 DEF Ups
    <3>2. Els(<<n>>) = {n} /\ n[1] = "unmade"
      BY <2>1, ElsShort
    <3> QED
      BY <2>1, <3>1, <3>2
  <2>3. /\ up' \in [Clients -> Seq(Ups)] /\ up'[c] = up[c] \o s
        /\ \A d \in Clients : d # c => up'[d] = up[d]
    BY <1>3, <1>12, <2>1, <2>2, AskEffect
  <2>4. GraphTypes'
    BY <1>1, <1>4, <1>12, <2>3 DEF GraphInv, GraphTypes, stage
  <2>5. GraphInv /\ Head(down[c])[1] # "joined" /\ phase'[c] \in {phase[c], "synced"}
    BY <1>10 DEF m
  <2> QED
    BY <1>1, <1>8, <1>9, <1>10, <1>12, <2>2, <2>3, <2>4, <2>5, HearDone
<1>13. CASE /\ own' = [own EXCEPT ![e] = 1] /\ used' = used \cup {e}
            /\ Ask(c, <<<<"create", e, 1>>>>)
  <2>1. PICK n, s : n = <<"create", e, 1>> /\ s = <<n>>
    OBVIOUS
  <2>2. /\ s \in Seq(Ups) /\ Els(s) = {n} /\ n[1] = "create" /\ n[2] = e
        /\ \A k, x : Once(s, k, x)
    <3>1. n \in {"create", "destroy"} \X Entities \X (1..MaxVersion)
      BY <1>5, <2>1, GraphAssumption
    <3>2. n \in Ups
      BY <3>1 DEF Ups
    <3>3. Els(<<n>>) = {n} /\ n[1] = "create" /\ n[2] = e
      BY <2>1, ElsShort
    <3>4. Len(s) = 1
      BY <2>1
    <3> QED
      BY <2>1, <3>2, <3>3, <3>4 DEF Once
  <2>3. /\ up' \in [Clients -> Seq(Ups)] /\ up'[c] = up[c] \o s
        /\ Els(up'[c]) = Els(up[c]) \cup Els(s)
        /\ \A d \in Clients : d # c => up'[d] = up[d]
        /\ \A k, x : Once(up[c], k, x) /\ (\A z \in Els(s) : ~Is(z, k, x)) => Once(up'[c], k, x)
        /\ \A k, x : Once(s, k, x) /\ (\A z \in Els(up[c]) : ~Is(z, k, x)) => Once(up'[c], k, x)
    BY <1>3, <1>13, <2>1, <2>2, AskEffect
  <2>4. \A d \in Clients : \A z \in Els(up'[d]) : z \in Els(up[d]) \/ (d = c /\ z = n)
    BY <2>2, <2>3
  <2>5. own' \in [Entities -> 0..MaxVersion] /\ used' \subseteq Entities
        /\ \A x \in Entities : x # e => own'[x] = own[x]
    <3>1. 1 \in 0..MaxVersion
      BY GraphAssumption
    <3>2. own \in [Entities -> 0..MaxVersion] /\ used \subseteq Entities
      BY DEF GraphInv, GraphTypes
    <3> QED
      BY <1>5, <1>13, <3>1, <3>2
  <2>6. GraphTypes'
    BY <1>1, <1>4, <2>3, <2>5 DEF GraphInv, GraphTypes, stage
  <2>7. Roles'
    <3>1. phase[c] \in {"joined", "synced"} /\ Head(down[c])[1] # "joined"
      BY <1>1, <1>10, Hearer DEF m
    <3>2. \A z \in Els(up'[c]) : z \in Els(up[c]) \/ z[1] # "join"
      BY <2>2, <2>4
    <3> QED
      BY <1>1, <1>10, <2>3, <3>1, <3>2, HearRoles
  <2>8. Births'
    <3> SUFFICES ASSUME NEW x \in Entities PROVE Birth(x)'
      BY DEF Births
    <3>1. Birth(x) /\ ent' = ent /\ Home[x] \in Clients
      BY <1>1, GraphAssumption DEF GraphInv, Births, stage
    <3>2. CASE x # e
      <4>1. ~About(n, x) /\ ~Is(n, "create", x)
        BY <2>2, <3>2 DEF About, Is
      <4>2. x \in used' <=> x \in used
        BY <1>13, <3>2
      <4>3. Once(up[Home[x]], "create", x) => Once(up'[Home[x]], "create", x)
        BY <2>2, <2>3, <3>1, <4>1
      <4> QED
        BY <1>10, <2>4, <2>5, <3>1, <3>2, <4>1, <4>2, <4>3 DEF Birth
    <3>3. CASE x = e
      <4>1. ent[e] = "none" /\ \A z \in Els(up[c]) : ~Is(z, "create", e)
        BY <1>7, <3>1, <3>3 DEF Birth
      <4>2. Once(up'[c], "create", e)
        BY <2>2, <2>3, <4>1
      <4>3. e \in used'
        BY <1>13
      <4> QED
        BY <1>7, <2>4, <3>1, <3>3, <4>1, <4>2, <4>3 DEF Birth
    <3> QED
      BY <3>2, <3>3
  <2>9. Makes'
    <3> SUFFICES ASSUME NEW x \in Creatables PROVE Make(x)'
      BY DEF Makes
    <3>1. Make(x) /\ answer' = answer
      BY <1>1 DEF GraphInv, Makes
    <3>2. /\ \A d \in Clients : \A z \in Els(up'[d]) : Is(z, "make", x) => z \in Els(up[d])
          /\ ~Is(n, "make", x)
      BY <2>2, <2>4 DEF Is
    <3>3. \A d \in Clients : Once(up'[d], "make", x) /\ Once(down'[d], "make", x)
      <4>1. \A d \in Clients : Once(up[d], "make", x) /\ Once(down[d], "make", x)
        BY <3>1 DEF Make
      <4>2. Once(up'[c], "make", x)
        <5>1. \A z \in Els(s) : ~Is(z, "make", x)
          BY <2>2, <3>2
        <5> QED
          BY <2>3, <4>1, <5>1
      <4>3. \A d \in Clients : Once(up'[d], "make", x)
        BY <2>3, <4>1, <4>2
      <4>4. \A d \in Clients : Once(down'[d], "make", x)
        BY <1>4, <4>1
      <4> QED
        BY <4>3, <4>4
    <3>4. CASE x # e
      <4>1. x \in used' <=> x \in used
        BY <1>13, <3>4
      <4> QED
        BY <1>4, <3>1, <3>2, <3>3, <4>1 DEF Make
    <3>5. CASE x = e
      <4>1. \A d \in Clients : \A z \in Els(up'[d]) : ~Is(z, "make", e)
        BY <1>4, <1>5, <3>1, <3>2, <3>5 DEF Make
      <4>2. \A d \in Clients : \A z \in Els(down'[d]) : ~Is(z, "make", e)
        <5> SUFFICES ASSUME NEW d \in Clients, NEW z \in Els(down'[d]), Is(z, "make", e)
                     PROVE  FALSE
          OBVIOUS
        <5>1. d = c
          BY <1>4, <1>7, <3>1, <3>5 DEF Make
        <5> QED
          BY <1>4, <1>5, <1>7, <5>1
      <4> QED
        BY <1>7, <3>1, <3>3, <3>5, <4>1, <4>2 DEF Make
    <3> QED
      BY <3>4, <3>5
  <2>10. Known'
    <3>1. \A d \in Clients : \A z \in Els(up'[d]) : \A x \in Entities :
            Is(z, "made", x) => z \in Els(up[d]) \/ \E y \in Els(down[d]) : Is(y, "ok", x)
      BY <2>2, <2>4 DEF Is
    <3>2. \A d \in Clients : \A x \in view'[d] : \A y \in Entities :
            x.what = y => \/ \E z \in view[d] : z.what = y
                          \/ \E z \in Els(down[d]) : About(z, y)
      BY <1>10
    <3> QED
      BY <1>1, <1>4, <3>1, <3>2, ClientKnown
  <2>11. Lefts' /\ Goings' /\ Sendings'
    BY <1>1, <1>4, ClientQuiet
  <2> QED
    BY <1>8, <1>9, <2>6, <2>7, <2>8, <2>9, <2>10, <2>11 DEF GraphInv
<1> QED
  BY <1>2, <1>11, <1>12, <1>13

-----------------------------------------------------------------------------
(* Calls of the applications.                                              *)

(* A call that only speaks to the stage, of entities.                      *)
LEMMA CallStill ==
  ASSUME GraphInv, UNCHANGED <<stage, phase, view, down, clash>>,
         NEW c \in Clients, NEW s \in Seq(Ups), Ask(c, s),
         s = <<>> \/ phase[c] \in {"joined", "synced"},
         \A m \in Els(s) : m[1] \notin {"join", "made"}
  PROVE  Roles' /\ Known' /\ Lefts' /\ Goings' /\ Sendings' /\ Mirrors'
<1>1. up \in [Clients -> Seq(Ups)]
  BY DEF GraphInv, GraphTypes
<1>2. /\ up'[c] = up[c] \o s /\ Els(up'[c]) = Els(up[c]) \cup Els(s)
      /\ \A d \in Clients : d # c => up'[d] = up[d]
  BY <1>1, AskEffect
<1>3. s = <<>> => up'[c] = up[c]
  BY <1>1, <1>2, ConcatEmptySeq
<1>4. Roles'
  <2> SUFFICES ASSUME NEW d \in Clients PROVE Role(d)'
    BY DEF Roles
  <2>1. Role(d) /\ perf' = perf
    BY DEF GraphInv, Roles, stage
  <2>2. CASE up'[d] = up[d]
    BY <2>1, <2>2 DEF Role
  <2>3. CASE up'[d] # up[d]
    <3>1. d = c /\ phase[c] \in {"joined", "synced"}
      BY <1>2, <1>3, <2>3
    <3> QED
      BY <1>2, <2>1, <3>1 DEF Role
  <2> QED
    BY <2>2, <2>3
<1>5. Known'
  <2>1. \A d \in Clients : \A m \in Els(up'[d]) : \A e \in Entities :
          Is(m, "made", e) => m \in Els(up[d]) \/ \E n \in Els(down[d]) : Is(n, "ok", e)
    BY <1>2 DEF Is
  <2>2. \A d \in Clients : \A x \in view'[d] : \A e \in Entities :
          x.what = e => \/ \E y \in view[d] : y.what = e
                        \/ \E n \in Els(down[d]) : About(n, e)
    OBVIOUS
  <2> QED
    BY <2>1, <2>2, ClientKnown
<1>6. Lefts' /\ Goings' /\ Sendings'
  BY ClientQuiet
<1>7. Mirrors'
  <2> SUFFICES ASSUME NEW d \in Clients, NEW e \in Entities PROVE Mirror(d, e)'
    BY DEF Mirrors
  <2>1. Online(d)' => Online(d)
    BY DEF Online
  <2> QED
    BY <2>1, MirrorIdle
<1> QED
  BY <1>4, <1>5, <1>6, <1>7

(* A call about one entity, which is created before.                       *)
LEMMA CallBirths ==
  ASSUME GraphInv, UNCHANGED <<stage, phase>>, NEW c \in Clients, NEW e \in Entities,
         Home[e] = c, NEW s \in Seq(Ups), Ask(c, s),
         \A m \in Els(s) : m[2] = e /\ (m[1] = "create" => e \notin used),
         \A k, x : Once(s, k, x),
         e \in used', used' \subseteq used \cup {e}, used \subseteq used',
         \A x \in Entities : x # e => own'[x] = own[x]
  PROVE  Births'
<1>1. up \in [Clients -> Seq(Ups)]
  BY DEF GraphInv, GraphTypes
<1>2. /\ Els(up'[c]) = Els(up[c]) \cup Els(s)
      /\ \A d \in Clients : d # c => up'[d] = up[d]
      /\ \A k, x : Once(up[c], k, x) /\ (\A m \in Els(s) : ~Is(m, k, x)) => Once(up'[c], k, x)
      /\ \A k, x : Once(s, k, x) /\ (\A m \in Els(up[c]) : ~Is(m, k, x)) => Once(up'[c], k, x)
  BY <1>1, AskEffect
<1> SUFFICES ASSUME NEW x \in Entities PROVE Birth(x)'
  BY DEF Births
<1>3. Birth(x) /\ ent' = ent /\ Home[x] \in Clients
  BY GraphAssumption DEF GraphInv, Births, stage
<1>4. CASE x # e
  <2>1. \A m \in Els(s) : ~About(m, x) /\ ~Is(m, "create", x)
    BY <1>4 DEF About, Is
  <2>2. x \in used' <=> x \in used
    BY <1>4
  <2>3. Once(up'[Home[x]], "create", x)
    BY <1>2, <1>3, <2>1 DEF Birth
  <2> QED
    BY <1>2, <1>3, <1>4, <2>1, <2>2, <2>3 DEF Birth
<1>5. CASE x = e
  <2>1. \A m \in Els(up'[c]) : Is(m, "create", e) => ent[e] = "none"
    BY <1>2, <1>3, <1>5 DEF Birth, Is
  <2>2. Once(up'[c], "create", e)
    <3>1. CASE e \in used
      BY <1>2, <1>3, <1>5, <3>1 DEF Birth, Is
    <3>2. CASE e \notin used
      BY <1>2, <1>3, <1>5, <3>2 DEF Birth
    <3> QED
      BY <3>1, <3>2
  <2>3. \A d \in Clients : \A m \in Els(up'[d]) : About(m, e) => d = c
    BY <1>2, <1>3, <1>5 DEF Birth
  <2> QED
    BY <1>3, <1>5, <2>1, <2>2, <2>3 DEF Birth
<1> QED
  BY <1>4, <1>5

(* ... and is not made by a factory for it.                                *)
LEMMA CallMakes ==
  ASSUME GraphInv, UNCHANGED <<answer, down>>, NEW c \in Clients, NEW s \in Seq(Ups), Ask(c, s),
         \A m \in Els(s) : m[1] # "make",
         \A x \in Creatables : x \in used' <=> x \in used
  PROVE  Makes'
<1>1. up \in [Clients -> Seq(Ups)]
  BY DEF GraphInv, GraphTypes
<1>2. /\ Els(up'[c]) = Els(up[c]) \cup Els(s)
      /\ \A d \in Clients : d # c => up'[d] = up[d]
      /\ \A k, x : Once(up[c], k, x) /\ (\A m \in Els(s) : ~Is(m, k, x)) => Once(up'[c], k, x)
  BY <1>1, AskEffect
<1>3. \A d \in Clients : \A m \in Els(up'[d]) : m \in Els(up[d]) \/ m[1] # "make"
  BY <1>2
<1>4. \A d \in Clients : \A x : Once(up[d], "make", x) => Once(up'[d], "make", x)
  <2> SUFFICES ASSUME NEW d \in Clients, NEW x, Once(up[d], "make", x)
               PROVE  Once(up'[d], "make", x)
    OBVIOUS
  <2>1. \A m \in Els(s) : ~Is(m, "make", x)
    BY DEF Is
  <2> QED
    BY <1>2, <2>1
<1> QED
  BY <1>3, <1>4, ClientMakes

LEMMA CallAcks ==
  ASSUME GraphInv, UNCHANGED <<stage, answer, down>>
  PROVE  Acks'
  BY DEF GraphInv, Acks, Ack, stage

(* One message about an entity.                                            *)
LEMMA OneMessage ==
  ASSUME NEW m \in Ups
  PROVE  <<m>> \in Seq(Ups) /\ Els(<<m>>) = {m} /\ \A k, x : Once(<<m>>, k, x)
<1>1. <<m>> \in Seq(Ups) /\ Els(<<m>>) = {m} /\ Len(<<m>>) = 1
  BY ElsShort
<1> QED
  BY <1>1 DEF Once

LEMMA AddEntityKeeps ==
  ASSUME GraphInv, NEW c \in Clients, NEW e \in Entities, AddEntity(c, e)
  PROVE  GraphInv'
<1>1. /\ UNCHANGED <<stage, phase, view, answer, down, clash>>
      /\ Home[e] = c /\ e \notin used \cup Creatables
      /\ phase[c] \in {"out", "joined", "synced"}
      /\ own' = [own EXCEPT ![e] = 1] /\ used' = used \cup {e}
  BY DEF AddEntity
<1>2. PICK m : m = <<"create", e, 1>>
  OBVIOUS
<1>3. m \in Ups /\ m[1] = "create" /\ m[2] = e
  <2>1. m \in {"create", "destroy"} \X Entities \X (1..MaxVersion)
    BY <1>2, GraphAssumption
  <2> QED
    BY <1>2, <2>1 DEF Ups
<1>4. PICK s : s = IF phase[c] = "out" THEN <<>> ELSE <<m>>
  OBVIOUS
<1>5. /\ s \in Seq(Ups) /\ Ask(c, s) /\ (\A k, x : Once(s, k, x)) /\ Els(s) \subseteq {m}
      /\ s = <<>> \/ phase[c] \in {"joined", "synced"}
  <2>1. <<>> \in Seq(Ups) /\ Els(<<>>) = {} /\ Len(<<>>) = 0
    BY ElsShort, EmptySeq
  <2>2. \A k, x : Once(<<>>, k, x)
    BY <2>1 DEF Once
  <2>3. Ask(c, s)
    BY <1>2, <1>4 DEF AddEntity
  <2> QED
    BY <1>1, <1>3, <1>4, <2>1, <2>2, <2>3, OneMessage
<1>6. up \in [Clients -> Seq(Ups)] /\ own \in [Entities -> 0..MaxVersion] /\ used \subseteq Entities
  BY DEF GraphInv, GraphTypes
<1>7. up' \in [Clients -> Seq(Ups)]
  BY <1>5, <1>6, AskEffect
<1>8. own' \in [Entities -> 0..MaxVersion] /\ \A x \in Entities : x # e => own'[x] = own[x]
  <2>1. 1 \in 0..MaxVersion
    BY GraphAssumption
  <2> QED
    BY <1>1, <1>6, <2>1
<1>9. GraphTypes'
  BY <1>1, <1>6, <1>7, <1>8 DEF GraphInv, GraphTypes, stage
<1>10. Roles' /\ Known' /\ Lefts' /\ Goings' /\ Sendings' /\ Mirrors'
  <2>1. \A n \in Els(s) : n[1] \notin {"join", "made"}
    BY <1>3, <1>5
  <2> QED
    BY <1>1, <1>5, <2>1, CallStill
<1>11. Births'
  <2>1. \A n \in Els(s) : n[2] = e /\ (n[1] = "create" => e \notin used)
    BY <1>1, <1>3, <1>5
  <2>2. e \in used' /\ used' \subseteq used \cup {e} /\ used \subseteq used'
    BY <1>1
  <2> QED
    BY <1>1, <1>5, <1>8, <2>1, <2>2, CallBirths
<1>12. Makes'
  <2>1. \A n \in Els(s) : n[1] # "make"
    BY <1>3, <1>5
  <2>2. \A x \in Creatables : x \in used' <=> x \in used
    BY <1>1
  <2> QED
    BY <1>1, <1>5, <2>1, <2>2, CallMakes
<1>13. Acks'
  BY <1>1, CallAcks
<1> QED
  BY <1>9, <1>10, <1>11, <1>12, <1>13 DEF GraphInv

(* A rename or a destruction.                                              *)
LEMMA ChangeCallKeeps ==
  ASSUME GraphInv, NEW c \in Clients, NEW e \in Entities, Home[e] = c, own[e] > 0,
         phase[c] \in {"joined", "synced"}, NEW m \in Ups, m[1] \in {"update", "destroy"}, m[2] = e,
         NEW s, s = <<m>>, Ask(c, s), NEW v \in 0..MaxVersion, own' = [own EXCEPT ![e] = v],
         UNCHANGED <<stage, phase, used, view, answer, down, clash>>
  PROVE  GraphInv'
<1>1. s \in Seq(Ups) /\ Els(s) = {m} /\ \A k, x : Once(s, k, x)
  BY OneMessage
<1>2. up \in [Clients -> Seq(Ups)] /\ own \in [Entities -> 0..MaxVersion] /\ used \subseteq Entities
  BY DEF GraphInv, GraphTypes
<1>3. up' \in [Clients -> Seq(Ups)]
  BY <1>1, <1>2, AskEffect
<1>4. own' \in [Entities -> 0..MaxVersion] /\ \A x \in Entities : x # e => own'[x] = own[x]
  BY <1>2
<1>5. e \in used
  BY DEF GraphInv, Births, Birth
<1>6. GraphTypes'
  BY <1>2, <1>3, <1>4 DEF GraphInv, GraphTypes, stage
<1>7. Roles' /\ Known' /\ Lefts' /\ Goings' /\ Sendings' /\ Mirrors'
  <2>1. \A n \in Els(s) : n[1] \notin {"join", "made"}
    BY <1>1
  <2> QED
    BY <1>1, <2>1, CallStill
<1>8. Births'
  <2>1. \A n \in Els(s) : n[2] = e /\ (n[1] = "create" => e \notin used)
    BY <1>1
  <2>2. e \in used' /\ used' \subseteq used \cup {e} /\ used \subseteq used'
    BY <1>5
  <2>3. UNCHANGED <<stage, phase>>
    OBVIOUS
  <2>4. \A x \in Entities : x # e => own'[x] = own[x]
    BY <1>4
  <2> QED
    BY <1>1, <2>1, <2>2, <2>3, <2>4, CallBirths
<1>9. Makes'
  <2>1. \A n \in Els(s) : n[1] # "make"
    BY <1>1
  <2> QED
    BY <1>1, <2>1, CallMakes
<1>10. Acks'
  BY CallAcks
<1> QED
  BY <1>6, <1>7, <1>8, <1>9, <1>10 DEF GraphInv

LEMMA RenameKeeps ==
  ASSUME GraphInv, NEW c \in Clients, NEW e \in Entities, Rename(c, e)
  PROVE  GraphInv'
<1>1. PICK m, s : m = <<"update", e, own[e]>> /\ s = <<m>>
  OBVIOUS
<1>2. /\ Ask(c, s) /\ Home[e] = c /\ own[e] \in 1..(MaxVersion - 1)
      /\ phase[c] \in {"joined", "synced"}
      /\ own' = [own EXCEPT ![e] = @ + 1]
      /\ UNCHANGED <<stage, phase, used, view, answer, down, clash>>
  BY <1>1 DEF Rename
<1>3. m \in Ups /\ m[1] \in {"update", "destroy"} /\ m[2] = e
  BY <1>1, <1>2 DEF Ups
<1>4. own[e] > 0 /\ own[e] + 1 \in 0..MaxVersion
  BY <1>2, GraphAssumption
<1>5. PICK v : v = own[e] + 1
  OBVIOUS
<1>6. v \in 0..MaxVersion /\ own' = [own EXCEPT ![e] = v]
  BY <1>2, <1>4, <1>5
<1> QED
  BY <1>1, <1>2, <1>3, <1>4, <1>6, ChangeCallKeeps

LEMMA DestroyEntityKeeps ==
  ASSUME GraphInv, NEW c \in Clients, NEW e \in Entities, DestroyEntity(c, e)
  PROVE  GraphInv'
<1>1. PICK m, s : m = <<"destroy", e, own[e]>> /\ s = <<m>>
  OBVIOUS
<1>2. /\ Ask(c, s) /\ Home[e] = c /\ own[e] > 0
      /\ phase[c] \in {"joined", "synced"}
      /\ own' = [own EXCEPT ![e] = 0]
      /\ UNCHANGED <<stage, phase, used, view, answer, down, clash>>
  BY <1>1 DEF DestroyEntity
<1>3. own \in [Entities -> 0..MaxVersion]
  BY DEF GraphInv, GraphTypes
<1>4. own[e] \in 1..MaxVersion
  BY <1>2, <1>3, GraphAssumption
<1>5. m \in Ups /\ m[1] \in {"update", "destroy"} /\ m[2] = e
  BY <1>1, <1>4 DEF Ups
<1>6. 0 \in 0..MaxVersion
  BY GraphAssumption
<1> QED
  BY <1>1, <1>2, <1>5, <1>6, ChangeCallKeeps

(* The first and only request for an entity of a factory.                  *)
LEMMA AskMakeKeeps ==
  ASSUME GraphInv, NEW c \in Clients, NEW e \in Creatables, AskMake(c, e)
  PROVE  GraphInv'
<1>1. /\ UNCHANGED <<stage, phase, own, used, view, down, clash>>
      /\ phase[c] = "synced" /\ answer[e] = "none"
      /\ answer' = [answer EXCEPT ![e] = "asked"]
  BY DEF AskMake
<1>2. PICK m, s : m = <<"make", e>> /\ s = <<m>>
  OBVIOUS
<1>3. m \in Ups /\ m[1] = "make" /\ m[2] = e
  BY <1>2 DEF Ups
<1>4. s \in Seq(Ups) /\ Els(s) = {m} /\ (\A k, x : Once(s, k, x)) /\ Ask(c, s)
  BY <1>2, <1>3, OneMessage DEF AskMake
<1>5. up \in [Clients -> Seq(Ups)] /\ answer \in [Creatables -> {"none", "asked", "ack", "error", "empty"}]
  BY DEF GraphInv, GraphTypes
<1>6. /\ up' \in [Clients -> Seq(Ups)]
      /\ Els(up'[c]) = Els(up[c]) \cup {m}
      /\ \A d \in Clients : d # c => up'[d] = up[d]
      /\ \A k, x : Once(up[c], k, x) /\ (\A n \in Els(s) : ~Is(n, k, x)) => Once(up'[c], k, x)
      /\ \A k, x : Once(s, k, x) /\ (\A n \in Els(up[c]) : ~Is(n, k, x)) => Once(up'[c], k, x)
  BY <1>4, <1>5, AskEffect
<1>7. /\ answer' \in [Creatables -> {"none", "asked", "ack", "error", "empty"}]
      /\ answer'[e] = "asked" /\ \A x \in Creatables : x # e => answer'[x] = answer[x]
  BY <1>1, <1>5
<1>8. GraphTypes'
  BY <1>1, <1>6, <1>7 DEF GraphInv, GraphTypes, stage
<1>9. Roles' /\ Known' /\ Lefts' /\ Goings' /\ Sendings' /\ Mirrors'
  <2>1. \A n \in Els(s) : n[1] \notin {"join", "made"}
    BY <1>3, <1>4
  <2> QED
    BY <1>1, <1>4, <2>1, CallStill
<1>10. Births'
  <2>1. \A d \in Clients : \A n \in Els(up'[d]) : n \in Els(up[d]) \/ n[1] \notin Changes
    BY <1>3, <1>6 DEF Changes
  <2>2. \A d \in Clients : \A x : Once(up[d], "create", x) => Once(up'[d], "create", x)
    <3> SUFFICES ASSUME NEW d \in Clients, NEW x, Once(up[d], "create", x)
                 PROVE  Once(up'[d], "create", x)
      OBVIOUS
    <3>1. \A n \in Els(s) : ~Is(n, "create", x)
      BY <1>3, <1>4 DEF Is
    <3> QED
      BY <1>6, <3>1
  <2> QED
    BY <1>1, <2>1, <2>2, ClientBirths
<1>11. Makes'
  <2> SUFFICES ASSUME NEW x \in Creatables PROVE Make(x)'
    BY DEF Makes
  <2>1. Make(x)
    BY DEF GraphInv, Makes
  <2>2. CASE x # e
    <3>1. \A n \in Els(s) : ~Is(n, "make", x)
      BY <1>3, <1>4, <2>2 DEF Is
    <3>2. \A d \in Clients : \A n \in Els(up'[d]) : Is(n, "make", x) => n \in Els(up[d])
      BY <1>4, <1>6, <3>1
    <3>3. \A d \in Clients : Once(up'[d], "make", x)
      BY <1>6, <2>1, <3>1 DEF Make
    <3> QED
      BY <1>1, <1>7, <2>1, <2>2, <3>2, <3>3 DEF Make
  <2>3. CASE x = e
    <3>1. /\ \A d \in Clients : \A n \in Els(up[d]) : ~Is(n, "make", e)
          /\ \A d \in Clients : \A n \in Els(down[d]) : ~Is(n, "make", e)
          /\ e \notin used
      BY <1>1, <2>1, <2>3 DEF Make
    <3>2. \A d \in Clients : \A n \in Els(up'[d]) : Is(n, "make", e) => d = c
      BY <1>6, <3>1
    <3>3. \A d \in Clients : Once(up'[d], "make", e)
      BY <1>4, <1>6, <2>1, <2>3, <3>1 DEF Make
    <3> QED
      BY <1>1, <1>7, <2>1, <2>3, <3>1, <3>2, <3>3 DEF Make
  <2> QED
    BY <2>2, <2>3
<1>12. Acks'
  <2> SUFFICES ASSUME NEW x \in Creatables PROVE Ack(x)'
    BY DEF Acks
  <2>1. Ack(x)
    BY DEF GraphInv, Acks
  <2>2. CASE x # e
    BY <1>1, <1>7, <2>1, <2>2 DEF Ack, stage
  <2>3. CASE x = e
    <3>1. ASSUME NEW d \in Clients PROVE Failing(down[d], e)
      <4>1. \A n \in Els(down[d]) : n # <<"ack", e>>
        BY <1>1, <2>1, <2>3 DEF Ack
      <4> QED
        BY <4>1, FailingOther
    <3> QED
      BY <1>1, <1>7, <2>3, <3>1 DEF Ack, stage
  <2> QED
    BY <2>2, <2>3
<1> QED
  BY <1>8, <1>9, <1>10, <1>11, <1>12 DEF GraphInv

LEMMA JoinKeeps ==
  ASSUME GraphInv, NEW c \in Clients, Join(c)
  PROVE  GraphInv'
<1>1. /\ UNCHANGED <<stage, own, used, view, answer, down, clash>>
      /\ phase[c] = "out" /\ phase' = [phase EXCEPT ![c] = "joining"]
  BY DEF Join
<1>2. PICK m, s : m = <<"join">> /\ s = <<m>>
  OBVIOUS
<1>3. m \in Ups /\ m[1] = "join"
  BY <1>2 DEF Ups
<1>4. s \in Seq(Ups) /\ Els(s) = {m} /\ Ask(c, s)
  BY <1>2, <1>3, OneMessage DEF Join
<1>5. /\ up \in [Clients -> Seq(Ups)]
      /\ phase \in [Clients -> {"out", "joining", "joined", "synced", "left", "dead"}]
  BY DEF GraphInv, GraphTypes
<1>6. /\ up' \in [Clients -> Seq(Ups)]
      /\ up'[c] = up[c] \o s /\ Els(up'[c]) = Els(up[c]) \cup {m}
      /\ \A d \in Clients : d # c => up'[d] = up[d]
      /\ \A k, x : Once(up[c], k, x) /\ (\A n \in Els(s) : ~Is(n, k, x)) => Once(up'[c], k, x)
  BY <1>4, <1>5, AskEffect
<1>7. /\ phase' \in [Clients -> {"out", "joining", "joined", "synced", "left", "dead"}]
      /\ phase'[c] = "joining" /\ \A d \in Clients : d # c => phase'[d] = phase[d]
  BY <1>1, <1>5
<1>8. Role(c) /\ perf[c] = "none" /\ up[c] = <<>>
  BY <1>1 DEF GraphInv, Roles, Role
<1>9. up'[c] = <<<<"join">>>>
  BY <1>2, <1>4, <1>6, <1>8, ConcatEmptySeq
<1>10. GraphTypes'
  BY <1>1, <1>6, <1>7 DEF GraphInv, GraphTypes, stage
<1>11. Roles'
  <2> SUFFICES ASSUME NEW d \in Clients PROVE Role(d)'
    BY DEF Roles
  <2>1. Role(d) /\ perf' = perf
    BY <1>1 DEF GraphInv, Roles, stage
  <2>2. CASE d # c
    BY <1>1, <1>6, <1>7, <2>1, <2>2 DEF Role
  <2>3. CASE d = c
    BY <1>1, <1>7, <1>8, <1>9, <2>1, <2>3 DEF Role
  <2> QED
    BY <2>2, <2>3
<1>12. \A d \in Clients : \A n \in Els(up'[d]) : n \in Els(up[d]) \/ n[1] = "join"
  BY <1>3, <1>6
<1>13. \A d \in Clients : \A k, x : k # "join" /\ Once(up[d], k, x) => Once(up'[d], k, x)
  <2> SUFFICES ASSUME NEW d \in Clients, NEW k, NEW x, k # "join", Once(up[d], k, x)
               PROVE  Once(up'[d], k, x)
    OBVIOUS
  <2>1. \A n \in Els(s) : ~Is(n, k, x)
    BY <1>3, <1>4 DEF Is
  <2> QED
    BY <1>6, <2>1
<1>14. Births'
  <2>1. \A d \in Clients : phase[d] \notin {"out", "joining"} => phase'[d] \notin {"out", "joining"}
    BY <1>1, <1>7
  <2>2. \A d \in Clients : \A n \in Els(up'[d]) : n \in Els(up[d]) \/ n[1] \notin Changes
    BY <1>12 DEF Changes
  <2>3. \A d \in Clients : \A x : Once(up[d], "create", x) => Once(up'[d], "create", x)
    BY <1>13
  <2> QED
    BY <1>1, <2>1, <2>2, <2>3, ClientBirths
<1>15. Makes'
  <2>1. \A d \in Clients : \A n \in Els(up'[d]) : n \in Els(up[d]) \/ n[1] # "make"
    BY <1>12
  <2>2. \A d \in Clients : \A x : Once(up[d], "make", x) => Once(up'[d], "make", x)
    BY <1>13
  <2> QED
    BY <1>1, <2>1, <2>2, ClientMakes
<1>16. Known'
  <2>1. \A d \in Clients : \A n \in Els(up'[d]) : \A x \in Entities :
          Is(n, "made", x) => n \in Els(up[d]) \/ \E y \in Els(down[d]) : Is(y, "ok", x)
    BY <1>12 DEF Is
  <2>2. \A d \in Clients : \A x \in view'[d] : \A y \in Entities :
          x.what = y => \/ \E z \in view[d] : z.what = y
                        \/ \E z \in Els(down[d]) : About(z, y)
    BY <1>1
  <2> QED
    BY <1>1, <2>1, <2>2, ClientKnown
<1>17. Lefts' /\ Goings' /\ Sendings'
  BY <1>1, ClientQuiet
<1>18. Acks'
  BY <1>1, CallAcks
<1>19. Mirrors'
  <2> SUFFICES ASSUME NEW d \in Clients, NEW x \in Entities PROVE Mirror(d, x)'
    BY DEF Mirrors
  <2>1. Online(d)' /\ perf[d] # "none" => Online(d)
    BY <1>7, <1>8 DEF Online
  <2>2. phase'[d] = "synced" => phase[d] = "synced"
    BY <1>7
  <2> QED
    BY <1>1, <2>1, <2>2, MirrorIdle
<1> QED
  BY <1>10, <1>11, <1>14, <1>15, <1>16, <1>17, <1>18, <1>19 DEF GraphInv

(* Leaving and dying: what is on the way to the client is lost.            *)
LEMMA DepartKeeps ==
  ASSUME GraphInv, NEW c \in Clients, NEW how \in {"left", "dead"}, Depart(c, how)
  PROVE  GraphInv'
<1>1. /\ UNCHANGED <<stage, own, used, view, answer, clash>>
      /\ phase[c] \in {"joined", "synced"} /\ phase' = [phase EXCEPT ![c] = how]
      /\ down' = [down EXCEPT ![c] = <<>>]
  BY DEF Depart
<1>2. PICK m : m = <<"leave">>
  OBVIOUS
<1>3. m \in Ups /\ m[1] = "leave"
  BY <1>2 DEF Ups
<1>4. PICK s : s = IF how = "left" THEN <<m>> ELSE <<>>
  OBVIOUS
<1>5. s \in Seq(Ups) /\ Els(s) \subseteq {m} /\ Ask(c, s)
  <2>1. <<>> \in Seq(Ups) /\ Els(<<>>) = {}
    BY ElsShort, EmptySeq
  <2>2. Ask(c, s)
    BY <1>2, <1>4 DEF Depart
  <2> QED
    BY <1>3, <1>4, <2>1, <2>2, OneMessage
<1>6. /\ up \in [Clients -> Seq(Ups)] /\ down \in [Clients -> Seq(Downs)]
      /\ phase \in [Clients -> {"out", "joining", "joined", "synced", "left", "dead"}]
  BY DEF GraphInv, GraphTypes
<1>7. /\ up' \in [Clients -> Seq(Ups)] /\ Els(up'[c]) = Els(up[c]) \cup Els(s)
      /\ \A d \in Clients : d # c => up'[d] = up[d]
      /\ \A k, x : Once(up[c], k, x) /\ (\A n \in Els(s) : ~Is(n, k, x)) => Once(up'[c], k, x)
  BY <1>5, <1>6, AskEffect
<1>8. /\ phase' \in [Clients -> {"out", "joining", "joined", "synced", "left", "dead"}]
      /\ phase'[c] \in {"left", "dead"} /\ \A d \in Clients : d # c => phase'[d] = phase[d]
  BY <1>1, <1>6
<1>9. /\ down' \in [Clients -> Seq(Downs)] /\ down'[c] = <<>>
      /\ \A d \in Clients : d # c => down'[d] = down[d]
  <2>1. <<>> \in Seq(Downs)
    BY EmptySeq
  <2> QED
    BY <1>1, <1>6, <2>1
<1>10. Els(down'[c]) = {} /\ Len(down'[c]) = 0
  BY <1>9, ElsShort
<1>11. GraphTypes'
  BY <1>1, <1>7, <1>8, <1>9 DEF GraphInv, GraphTypes, stage
<1>12. Roles'
  <2> SUFFICES ASSUME NEW d \in Clients PROVE Role(d)'
    BY DEF Roles
  <2>1. Role(d) /\ perf' = perf
    BY <1>1 DEF GraphInv, Roles, stage
  <2>2. CASE d # c
    BY <1>1, <1>7, <1>8, <1>9, <2>1, <2>2 DEF Role
  <2>3. CASE d = c
    <3>1. \A n \in Els(up'[c]) : n \in Els(up[c]) \/ n[1] # "join"
      BY <1>3, <1>5, <1>7
    <3> QED
      BY <1>1, <1>8, <1>9, <1>10, <2>1, <2>3, <3>1 DEF Role
  <2> QED
    BY <2>2, <2>3
<1>13. \A d \in Clients : \A n \in Els(up'[d]) : n \in Els(up[d]) \/ n[1] = "leave"
  BY <1>3, <1>5, <1>7
<1>14. \A d \in Clients : \A k, x : k # "leave" /\ Once(up[d], k, x) => Once(up'[d], k, x)
  <2> SUFFICES ASSUME NEW d \in Clients, NEW k, NEW x, k # "leave", Once(up[d], k, x)
               PROVE  Once(up'[d], k, x)
    OBVIOUS
  <2>1. \A n \in Els(s) : ~Is(n, k, x)
    BY <1>3, <1>5 DEF Is
  <2> QED
    BY <1>7, <2>1
<1>15. /\ \A d \in Clients : Els(down'[d]) \subseteq Els(down[d])
       /\ \A d \in Clients : \A x : Once(down[d], "make", x) => Once(down'[d], "make", x)
  <2>1. \A x : Once(down'[c], "make", x)
    <3>1. 1..0 = {}
      OBVIOUS
    <3> QED
      BY <1>10, <3>1 DEF Once
  <2> QED
    BY <1>9, <1>10, <2>1
<1>16. Births'
  <2>1. \A d \in Clients : phase[d] \notin {"out", "joining"} => phase'[d] \notin {"out", "joining"}
    BY <1>1, <1>8
  <2>2. \A d \in Clients : \A n \in Els(up'[d]) : n \in Els(up[d]) \/ n[1] \notin Changes
    BY <1>13 DEF Changes
  <2>3. \A d \in Clients : \A x : Once(up[d], "create", x) => Once(up'[d], "create", x)
    BY <1>14
  <2> QED
    BY <1>1, <2>1, <2>2, <2>3, ClientBirths
<1>17. Makes'
  <2>1. \A d \in Clients : \A n \in Els(up'[d]) : n \in Els(up[d]) \/ n[1] # "make"
    BY <1>13
  <2>2. \A d \in Clients : \A x : Once(up[d], "make", x) => Once(up'[d], "make", x)
    BY <1>14
  <2> QED
    BY <1>1, <1>15, <2>1, <2>2, ClientMakes
<1>18. Known'
  <2>1. \A d \in Clients : \A n \in Els(up'[d]) : \A x \in Entities :
          Is(n, "made", x) => n \in Els(up[d]) \/ \E y \in Els(down[d]) : Is(y, "ok", x)
    BY <1>13 DEF Is
  <2>2. \A d \in Clients : \A x \in view'[d] : \A y \in Entities :
          x.what = y => \/ \E z \in view[d] : z.what = y
                        \/ \E z \in Els(down[d]) : About(z, y)
    BY <1>1
  <2> QED
    BY <1>1, <1>15, <2>1, <2>2, ClientKnown
<1>19. Lefts' /\ Goings' /\ Sendings'
  BY <1>1, <1>15, ClientQuiet
<1>20. Acks'
  <2> SUFFICES ASSUME NEW x \in Creatables PROVE Ack(x)'
    BY DEF Acks
  <2>1. Ack(x)
    BY DEF GraphInv, Acks
  <2>2. Failing(down'[c], x)
    BY <1>10 DEF Failing
  <2> QED
    BY <1>1, <1>9, <1>15, <2>1, <2>2 DEF Ack, stage
<1>21. Mirrors'
  <2> SUFFICES ASSUME NEW d \in Clients, NEW x \in Entities PROVE Mirror(d, x)'
    BY DEF Mirrors
  <2>1. CASE d = c
    BY <1>8, <2>1 DEF Mirror, Watch, Online
  <2>2. CASE d # c
    <3>1. (Online(d)' => Online(d)) /\ (phase'[d] = "synced" => phase[d] = "synced")
      BY <1>8, <2>2 DEF Online
    <3> QED
      BY <1>1, <1>9, <2>2, <3>1, MirrorIdle
  <2> QED
    BY <2>1, <2>2
<1> QED
  BY <1>11, <1>12, <1>16, <1>17, <1>18, <1>19, <1>20, <1>21 DEF GraphInv

(* What a client asks for when it has joined.                              *)
LEMMA OpeningAsks ==
  ASSUME GraphInv, NEW c \in Clients,
         NEW s, s = <<<<"sync">>>> \o SetToSeq({Create(e) : e \in {x \in Of(c) : own[x] > 0}})
  PROVE  /\ s \in Seq(Ups)
         /\ \A m \in Els(s) : \/ m = <<"sync">>
                              \/ m[1] = "create" /\ m[2] \in Entities /\ Home[m[2]] = c /\ m[2] \in used
         /\ \A e : Once(s, "create", e)
<1> DEFINE X == {x \in Of(c) : own[x] > 0}
           C == {Create(e) : e \in X}
           r == SetToSeq(C)
<1>1. X \subseteq Entities /\ IsFiniteSet(X)
  <2>1. X \subseteq Entities
    BY DEF Of
  <2> QED
    BY <2>1, FS_Subset, GraphAssumption
<1>2. \A e \in X : Home[e] = c /\ e \in used /\ own[e] \in 1..MaxVersion
  BY GraphAssumption DEF Of, GraphInv, GraphTypes, Births, Birth
<1> HIDE DEF X
<1>3. \A m \in C : /\ m \in Ups /\ m[1] = "create" /\ m[2] \in Entities /\ Home[m[2]] = c
                   /\ m[2] \in used
  <2> SUFFICES ASSUME NEW e \in X
               PROVE  /\ Create(e) \in Ups /\ Create(e)[1] = "create" /\ Create(e)[2] = e
                      /\ e \in Entities /\ Home[e] = c /\ e \in used
    OBVIOUS
  <2>1. Create(e) \in {"create", "destroy"} \X Entities \X (1..MaxVersion)
    BY <1>1, <1>2 DEF Create
  <2> QED
    BY <1>1, <1>2, <2>1 DEF Create, Ups
<1>4. \A m, n \in C : m[2] = n[2] => m = n
  BY DEF Create
<1>5. IsFiniteSet(C)
  <2>1. [e \in X |-> Create(e)] \in Surjection(X, C)
    BY DEF Surjection
  <2> QED
    BY <1>1, <2>1, FS_Surjection
<1> HIDE DEF C
<1>6. /\ r \in Seq(C) /\ Els(r) = C
      /\ \A i, j \in 1..Len(r) : r[i] = r[j] => i = j
  BY <1>5, SetToSeqLists
<1> HIDE DEF r
<1>7. r \in Seq(Ups)
  BY <1>3, <1>6
<1>8. ASSUME NEW e PROVE Once(r, "create", e)
  <2>1. \A i \in 1..Len(r) : r[i] \in C
    BY <1>6 DEF Els
  <2> QED
    BY <1>4, <1>6, <2>1 DEF Once, Is
<1>9. PICK m, q : m = <<"sync">> /\ q = <<m>>
  OBVIOUS
<1>10. m \in Ups /\ m[1] = "sync"
  BY <1>9 DEF Ups
<1>11. q \in Seq(Ups) /\ Els(q) = {m}
  BY <1>9, <1>10, OneMessage
<1>12. s = q \o r
  BY <1>9 DEF r, C, X
<1>13. q \o r \in Seq(Ups) /\ Els(q \o r) = {m} \cup C
  BY <1>6, <1>7, <1>11, ElsConcat
<1>14. ASSUME NEW e PROVE Once(q \o r, "create", e)
  <2>1. \A n \in Els(q) : ~Is(n, "create", e)
    BY <1>10, <1>11 DEF Is
  <2> QED
    BY <1>7, <1>8, <1>11, <2>1, OnceConcat
<1> QED
  BY <1>3, <1>9, <1>12, <1>13, <1>14

(* The reply to the join request.                                          *)
LEMMA HearJoinedKeeps ==
  ASSUME GraphInv, NEW c \in Clients, HearJoined(c)
  PROVE  GraphInv'
<1>1. /\ UNCHANGED <<stage, own, used, view, answer, clash>> /\ Heard(c)
      /\ down[c] # <<>> /\ Head(down[c])[1] = "joined"
      /\ phase' = [phase EXCEPT ![c] = "joined"]
  BY DEF HearJoined, Hears
<1>2. PICK s : s = <<<<"sync">>>> \o SetToSeq({Create(e) : e \in {x \in Of(c) : own[x] > 0}})
  OBVIOUS
<1>3. /\ s \in Seq(Ups) /\ Ask(c, s)
      /\ \A m \in Els(s) : \/ m = <<"sync">>
                           \/ m[1] = "create" /\ m[2] \in Entities /\ Home[m[2]] = c /\ m[2] \in used
      /\ \A e : Once(s, "create", e)
  BY <1>2, OpeningAsks DEF HearJoined
<1>4. /\ up \in [Clients -> Seq(Ups)] /\ down \in [Clients -> Seq(Downs)]
      /\ phase \in [Clients -> {"out", "joining", "joined", "synced", "left", "dead"}]
  BY DEF GraphInv, GraphTypes
<1>5. /\ up' \in [Clients -> Seq(Ups)] /\ Els(up'[c]) = Els(up[c]) \cup Els(s)
      /\ \A d \in Clients : d # c => up'[d] = up[d]
      /\ \A k, x : Once(up[c], k, x) /\ (\A n \in Els(s) : ~Is(n, k, x)) => Once(up'[c], k, x)
      /\ \A k, x : Once(s, k, x) /\ (\A n \in Els(up[c]) : ~Is(n, k, x)) => Once(up'[c], k, x)
  BY <1>3, <1>4, AskEffect
<1>6. /\ down' \in [Clients -> Seq(Downs)] /\ down'[c] = Tail(down[c])
      /\ \A d \in Clients : d # c => down'[d] = down[d]
      /\ \A d \in Clients : Els(down'[d]) \subseteq Els(down[d])
      /\ Head(down[c]) \in Els(down[c])
      /\ \A d \in Clients : \A k, x : Once(down[d], k, x) => Once(down'[d], k, x)
  BY <1>1, <1>4, HeardEffect
<1>7. /\ phase' \in [Clients -> {"out", "joining", "joined", "synced", "left", "dead"}]
      /\ phase'[c] = "joined" /\ \A d \in Clients : d # c => phase'[d] = phase[d]
  BY <1>1, <1>4
<1>8. phase[c] = "joining" /\ perf[c] # "none" /\ up[c] = <<>> /\ Opening(down[c])
  <2>1. Role(c)
    BY DEF GraphInv, Roles
  <2>2. phase[c] = "joining" /\ perf[c] # "none"
    BY <1>1, <1>6, <2>1 DEF Role
  <2> QED
    BY <2>1, <2>2 DEF Role
<1>9. Els(up[c]) = {}
  BY <1>8, ElsShort
<1>10. GraphTypes'
  BY <1>1, <1>5, <1>6, <1>7 DEF GraphInv, GraphTypes, stage
<1>11. Roles'
  <2> SUFFICES ASSUME NEW d \in Clients PROVE Role(d)'
    BY DEF Roles
  <2>1. Role(d) /\ perf' = perf
    BY <1>1 DEF GraphInv, Roles, stage
  <2>2. CASE d # c
    BY <1>1, <1>5, <1>6, <1>7, <2>1, <2>2 DEF Role
  <2>3. CASE d = c
    <3>1. \A m \in Els(up'[c]) : m[1] # "join"
      BY <1>3, <1>5, <1>9
    <3>2. \A m \in Els(down'[c]) : m[1] # "joined"
      BY <1>6, <1>8 DEF Opening
    <3> QED
      BY <1>7, <1>8, <2>1, <2>3, <3>1, <3>2 DEF Role
  <2> QED
    BY <2>2, <2>3
<1>12. Births'
  <2> SUFFICES ASSUME NEW e \in Entities PROVE Birth(e)'
    BY DEF Births
  <2>1. Birth(e) /\ ent' = ent /\ Home[e] \in Clients
    BY <1>1, GraphAssumption DEF GraphInv, Births, stage
  <2>2. \A m \in Els(up'[c]) : About(m, e) => c = Home[e] /\ e \in used
    BY <1>3, <1>5, <1>9 DEF About, Changes
  <2>3. "create" \in Changes
    BY DEF Changes
  <2>4. CASE Home[e] # c
    BY <1>1, <1>5, <1>7, <2>1, <2>2, <2>4 DEF Birth
  <2>5. CASE Home[e] = c
    <3>1. ent[e] = "none"
      BY <1>8, <2>1, <2>5 DEF Birth
    <3>2. Once(up'[c], "create", e)
      BY <1>3, <1>5, <1>9
    <3>3. \A m \in Els(up'[c]) : Is(m, "create", e) => e \in used
      BY <2>2, <2>3 DEF Is, About
    <3> QED
      BY <1>1, <1>5, <2>1, <2>2, <2>5, <3>1, <3>2, <3>3 DEF Birth
  <2> QED
    BY <2>4, <2>5
<1>13. Makes'
  <2>1. \A m \in Els(s) : m[1] # "make"
    BY <1>3
  <2>2. \A d \in Clients : \A m \in Els(up'[d]) : m \in Els(up[d]) \/ m[1] # "make"
    BY <1>5, <2>1
  <2>3. \A d \in Clients : \A e : Once(up[d], "make", e) => Once(up'[d], "make", e)
    BY <1>5, <2>1 DEF Is
  <2>4. \A d \in Clients : \A e : Once(down[d], "make", e) => Once(down'[d], "make", e)
    BY <1>6
  <2> QED
    BY <1>1, <1>6, <2>2, <2>3, <2>4, ClientMakes
<1>14. Known'
  <2>1. \A d \in Clients : \A m \in Els(up'[d]) : \A e \in Entities :
          Is(m, "made", e) => m \in Els(up[d]) \/ \E n \in Els(down[d]) : Is(n, "ok", e)
    BY <1>3, <1>5 DEF Is
  <2>2. \A d \in Clients : \A x \in view'[d] : \A e \in Entities :
          x.what = e => \/ \E y \in view[d] : y.what = e
                        \/ \E n \in Els(down[d]) : About(n, e)
    BY <1>1
  <2> QED
    BY <1>1, <1>6, <2>1, <2>2, ClientKnown
<1>15. Lefts' /\ Goings' /\ Sendings'
  BY <1>1, <1>6, ClientQuiet
<1>16. Acks'
  BY <1>1, HearAcks
<1>17. Mirrors'
  <2>1. Online(c)
    BY <1>8 DEF Online
  <2>2. phase'[c] # "synced"
    BY <1>7
  <2>3. \A e \in Entities : Seen(c, e)' = After(Seen(c, e), Head(down[c]), e)
    BY <1>1 DEF Seen, After, About, Changes
  <2> QED
    BY <1>1, <1>7, <2>1, <2>2, <2>3, MirrorsHear
<1> QED
  BY <1>10, <1>11, <1>12, <1>13, <1>14, <1>15, <1>16, <1>17 DEF GraphInv

-----------------------------------------------------------------------------
(* The invariant holds.                                                    *)

LEMMA GraphStarts == Init => GraphInv
<1> SUFFICES ASSUME Init PROVE GraphInv
  OBVIOUS
<1>1. /\ \A c \in Clients : phase[c] = "out" /\ perf[c] = "none" /\ up[c] = <<>> /\ down[c] = <<>>
      /\ \A c \in Clients : view[c] = {}
      /\ \A e \in Entities : ent[e] = "none" /\ own[e] = 0
      /\ \A e \in Creatables : answer[e] = "none"
      /\ used = {} /\ arrivals = <<>> /\ sending = {} /\ waits = {} /\ loop = "arrive"
  BY DEF Init
<1>2. /\ Els(<<>>) = {} /\ Len(<<>>) = 0 /\ 1..0 = {}
      /\ <<>> \in Seq(Ups) /\ <<>> \in Seq(Downs) /\ <<>> \in Seq(Objects)
  BY ElsShort, EmptySeq
<1>3. \A k, e : Once(<<>>, k, e)
  BY <1>2 DEF Once
<1>4. GraphTypes
  <2>1. 0 \in 0..MaxVersion
    BY GraphAssumption
  <2> QED
    BY <1>1, <1>2, <2>1 DEF Init, GraphTypes
<1>5. Roles
  BY <1>1, <1>2 DEF Roles, Role
<1>6. Births
  BY <1>1, <1>2, <1>3, GraphAssumption DEF Births, Birth
<1>7. Makes
  BY <1>1, <1>2, <1>3 DEF Makes, Make
<1>8. Known
  BY <1>1, <1>2 DEF Known, Unheard
<1>9. Lefts /\ Goings /\ Sendings
  BY <1>1, <1>2 DEF Lefts, Goings, Sendings
<1>10. Acks
  BY <1>1, <1>2 DEF Acks, Ack
<1>11. Mirrors
  BY <1>1 DEF Mirrors, Mirror, Watch, Online
<1> QED
  BY <1>4, <1>5, <1>6, <1>7, <1>8, <1>9, <1>10, <1>11 DEF GraphInv

LEMMA GraphRests ==
  ASSUME GraphInv, UNCHANGED vars
  PROVE  GraphInv'
<1>1. /\ UNCHANGED <<stage, phase, own, used, view, answer, clash>> /\ up' = up /\ down' = down
  BY DEF vars, client
<1>2. GraphTypes' /\ Roles'
  BY <1>1 DEF GraphInv, GraphTypes, Roles, Role, stage
<1>3. Births' /\ Makes'
  BY <1>1 DEF GraphInv, Births, Birth, Makes, Make, stage
<1>4. Known'
  BY <1>1 DEF GraphInv, Known, Unheard, stage
<1>5. Lefts' /\ Goings' /\ Sendings'
  BY <1>1, ClientQuiet
<1>6. Acks'
  BY <1>1, CallAcks
<1>7. Mirrors'
  <2> SUFFICES ASSUME NEW c \in Clients, NEW e \in Entities PROVE Mirror(c, e)'
    BY DEF Mirrors
  <2>1. Online(c)' => Online(c)
    BY <1>1 DEF Online
  <2> QED
    BY <1>1, <2>1, MirrorIdle
<1> QED
  BY <1>2, <1>3, <1>4, <1>5, <1>6, <1>7 DEF GraphInv

(* Every step of the stage and of the clients keeps the invariant.         *)
LEMMA GraphStep ==
  ASSUME GraphInv, [Next]_vars
  PROVE  GraphInv'
<1>1. ASSUME NEW c \in Clients, Router(c) PROVE GraphInv'
  BY <1>1, HandleJoinKeeps, HandleSyncKeeps, NoSenderKeeps, HandleLeaveKeeps, HandleCreateKeeps,
     HandleUpdateKeeps, HandleDestroyKeeps, HandleMakeKeeps, HandleMadeKeeps DEF Router
<1>2. ASSUME NEW c \in Clients, Application(c) PROVE GraphInv'
  <2>1. CASE Join(c)
    BY <2>1, JoinKeeps
  <2>2. CASE Depart(c, "left") \/ Depart(c, "dead")
    BY <2>2, DepartKeeps
  <2>3. ASSUME NEW e \in Entities, AddEntity(c, e) \/ Rename(c, e) \/ DestroyEntity(c, e)
        PROVE  GraphInv'
    BY <2>3, AddEntityKeeps, RenameKeeps, DestroyEntityKeeps
  <2>4. ASSUME NEW e \in Creatables, AskMake(c, e) PROVE GraphInv'
    BY <2>4, AskMakeKeeps
  <2> QED
    BY <1>2, <2>1, <2>2, <2>3, <2>4 DEF Application
<1>3. ASSUME NEW c \in Clients, Transport(c) PROVE GraphInv'
  BY <1>3, HearJoinedKeeps, HearSyncedKeeps, HearCreateKeeps, HearChangeKeeps, HearLeftKeeps,
     HearMakeKeeps, HearOKKeeps, HearAnswerKeeps DEF Transport
<1>4. ASSUME NEW w \in waits, MakeTimesOut(w) PROVE GraphInv'
  BY <1>4, MakeTimesOutKeeps
<1>5. ASSUME NEW c \in Clients, Evict(c) PROVE GraphInv'
  BY <1>5, EvictKeeps
<1>6. CASE Loop
  BY <1>6, LoopArriveKeeps, LoopSendKeeps, LoopDrainedKeeps, LoopReapKeeps DEF Loop
<1>7. CASE UNCHANGED vars
  BY <1>7, GraphRests
<1> QED
  BY <1>1, <1>2, <1>3, <1>4, <1>5, <1>6, <1>7 DEF Next

(* The inductive invariant of the graph: what is known of each entity at   *)
(* the stage, on the way to a client and at the client fits together.      *)
THEOREM GraphInvariant == Spec => []GraphInv
<1>1. GraphInv /\ [Next]_vars => GraphInv'
  BY GraphStep
<1> QED
  BY GraphStarts, <1>1, PTL DEF Spec

(* The stage's and the clients' records keep their types, in particular    *)
(* every proxy has an object and a name that was given.                    *)
THEOREM GraphTypeCorrect == Spec => []TypeOK
<1>1. GraphInv => TypeOK
  BY ElementOfSeq DEF GraphInv, GraphTypes, TypeOK, Proxies
<1> QED
  BY <1>1, GraphInvariant, PTL

(* Whatever the order of snapshots, broadcasts, renames and destructions:  *)
(* a client that has the graph, and has heard all there was about an       *)
(* entity, has it under the stage's name, once, exactly if the stage does. *)
THEOREM MirrorsConverge == Spec => []ViewsAgree
<1>1. ASSUME GraphInv PROVE ViewsAgree
  <2> SUFFICES ASSUME NEW c \in Clients, NEW e \in Entities,
                      phase[c] = "synced", perf[c] = "in", Home[e] # c, perf[Home[e]] = "in",
                      e \notin clash, Settled(c, e)
               PROVE  Seen(c, e) = IF Found(e) THEN {ver[e]} ELSE {}
    BY DEF ViewsAgree, Seen
  <2>1. Watch(c, e) /\ Snap(c)
    BY DEF Watch, Online, Snap
  <2>2. PICK R : Mirrored(c, e, R)
    BY <1>1, <2>1 DEF GraphInv, Mirrors, Mirror
  <2>3. down[c] \in Seq(Downs)
    BY <1>1 DEF GraphInv, GraphTypes
  <2>4. \A m \in Els(down[c]) : ~About(m, e)
    <3> SUFFICES ASSUME NEW m \in Els(down[c]), About(m, e) PROVE FALSE
      OBVIOUS
    <3>1. m \in Downs
      BY <2>3, ElsOf
    <3>2. Len(m) = 3 /\ m[2] = e
      BY <3>1, DownKinds DEF About
    <3> QED
      BY <3>2 DEF Settled, Els
  <2>5. R = Seen(c, e)
    BY <2>2, <2>3, <2>4, ReplayQuiet DEF Mirrored
  <2>6. ~Pending(e)
    BY DEF Pending, Settled, Els
  <2> QED
    BY <2>1, <2>2, <2>5, <2>6 DEF Mirrored
<1> QED
  BY <1>1, GraphInvariant, PTL

(* A requester that acts on an ACK has got an entity that was created at   *)
(* the stage: the news of a failure is ahead of the ACK that follows it.   *)
THEOREM AcksTrue == Spec => []AckMeansCreated
<1>1. GraphInv => AckMeansCreated
  BY DEF GraphInv, Acks, Ack, AckMeansCreated
<1> QED
  BY <1>1, GraphInvariant, PTL

(* What has gone from the stage's graph.                                   *)
StaysGone ==
  /\ \A c \in Clients : perf[c] \in {"going", "freed"} => perf'[c] \in {"going", "freed"}
  /\ \A e \in Entities :
       ent[e] \in {"going", "parted", "freed"} => ent'[e] \in {"going", "parted", "freed"}

(* No request that comes late or twice brings back a performer or an       *)
(* entity the stage has let go.                                            *)
THEOREM GoneForGood == Spec => [][StaysGone]_vars
<1>1. ASSUME GraphInv, Next PROVE StaysGone
  <2>1. /\ perf \in [Clients -> {"none", "in", "going", "freed"}]
        /\ ent \in [Entities -> {"none", "in", "going", "parted", "freed"}]
        /\ up \in [Clients -> Seq(Ups)]
    BY <1>1 DEF GraphInv, GraphTypes
  <2>2. ASSUME perf' = perf, ent' = ent PROVE StaysGone
    BY <2>2 DEF StaysGone
  <2>3. ASSUME NEW R, Leave(R) PROVE StaysGone
    BY <2>1, <2>3 DEF Leave, StaysGone
  <2>4. ASSUME NEW c \in Clients, Router(c) PROVE StaysGone
    <3>1. CASE HandleJoin(c)
      <4>1. Head(up[c])[1] = "join" /\ up[c] # <<>> /\ perf' = [perf EXCEPT ![c] = "in"] /\ ent' = ent
        BY <3>1 DEF HandleJoin, Request
      <4>2. Head(up[c]) \in Els(up[c])
        BY <2>1, <4>1, ElsTail
      <4>3. perf[c] = "none"
        BY <1>1, <4>1, <4>2 DEF GraphInv, Roles, Role
      <4> QED
        BY <2>1, <4>1, <4>3 DEF StaysGone
    <3>2. CASE HandleCreate(c)
      <4>1. PICK e : /\ Head(up[c])[1] = "create" /\ Head(up[c])[2] = e /\ up[c] # <<>>
                     /\ ent' = [ent EXCEPT ![e] = "in"] /\ perf' = perf
        BY <3>2 DEF HandleCreate, Request, Item
      <4>2. Head(up[c]) \in Els(up[c]) /\ Head(up[c]) \in Ups
        BY <2>1, <4>1, ElsTail
      <4>3. e \in Entities /\ About(Head(up[c]), e) /\ Is(Head(up[c]), "create", e)
        BY <4>1, <4>2, UpKinds DEF Changes, About, Is
      <4>4. Birth(e)
        BY <1>1, <4>3 DEF GraphInv, Births
      <4>5. ent[e] = "none"
        BY <4>2, <4>3, <4>4 DEF Birth
      <4> QED
        BY <2>1, <4>1, <4>5 DEF StaysGone
    <3>3. CASE HandleDestroy(c)
      BY <2>1, <3>3 DEF HandleDestroy, StaysGone
    <3>4. CASE HandleLeave(c)
      BY <2>3, <3>4 DEF HandleLeave
    <3>5. CASE HandleSync(c) \/ NoSender(c)
      BY <2>2, <3>5 DEF HandleSync, NoSender, stage
    <3>6. CASE HandleUpdate(c) \/ HandleMake(c) \/ HandleMade(c)
      BY <2>2, <3>6 DEF HandleUpdate, HandleMake, HandleMade
    <3> QED
      BY <2>4, <3>1, <3>2, <3>3, <3>4, <3>5, <3>6 DEF Router
  <2>5. ASSUME NEW c \in Clients, Application(c) PROVE StaysGone
    BY <2>2, <2>5
       DEF Application, Join, Depart, AddEntity, Rename, DestroyEntity, AskMake, stage
  <2>6. ASSUME NEW c \in Clients, Transport(c) PROVE StaysGone
    BY <2>2, <2>6
       DEF Transport, HearJoined, HearSynced, HearCreate, HearChange, HearLeft, HearMake, HearOK,
           HearAnswer, stage
  <2>7. ASSUME NEW w \in waits, MakeTimesOut(w) PROVE StaysGone
    BY <2>2, <2>7 DEF MakeTimesOut
  <2>8. ASSUME NEW c \in Clients, Evict(c) PROVE StaysGone
    BY <2>3, <2>8 DEF Evict
  <2>9. CASE Loop
    <3>1. CASE LoopReap
      BY <2>1, <3>1 DEF LoopReap, StaysGone
    <3>2. CASE LoopArrive \/ LoopSend \/ LoopDrained
      BY <2>2, <3>2 DEF LoopArrive, LoopSend, LoopDrained
    <3> QED
      BY <2>9, <3>1, <3>2 DEF Loop
  <2> QED
    BY <1>1, <2>4, <2>5, <2>6, <2>7, <2>8, <2>9 DEF Next
<1>2. GraphInv /\ [Next]_vars => [StaysGone]_vars
  BY <1>1
<1> QED
  BY <1>2, GraphInvariant, PTL DEF Spec

=============================================================================
