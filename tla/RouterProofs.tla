---------------------------- MODULE RouterProofs ----------------------------
(***************************************************************************)
(* Proofs about Router, for any bytes, lengths and memory of a string:     *)
(* percent_decode yields what a path stands for, what check_path accepts   *)
(* stays below the document root, get_service_and_url_path loses nothing   *)
(* unless its copies overrun, and a plain request is redirected to its     *)
(* target.                                                                 *)
(*                                                                         *)
(* percent_decode's loop and the reference it is held against are          *)
(* recursive functions.  SuffixRecursion gives both their equations, for   *)
(* strings that are as long as one likes.  FromTheEnd, induction over the  *)
(* places of a string from its end, then shows that what the loop yields   *)
(* from any place on continues what the reference does from there: it is   *)
(* the same, or goes on with a terminator, which is where the bytes that   *)
(* the loop copied too many begin (DecodesAlike).                          *)
(***************************************************************************)
EXTENDS Router, SequenceTheorems, TLAPS, WellFoundedInduction

NatLess == {p \in Nat \X Nat : p[1] < p[2]}

LEMMA NatLessWellFounded == IsWellFoundedOn(NatLess, Nat)
  BY NatLessThanWellFounded DEF OpToRel, NatLess

\* Induction, over a set.
LEMMA NatSetInduction ==
  ASSUME NEW T, 0 \in T, \A n \in Nat : n \in T => n + 1 \in T
  PROVE  Nat \subseteq T
<1> SUFFICES ASSUME Nat \ T # {} PROVE FALSE
  OBVIOUS
<1>1. Nat \ T \subseteq Nat
  OBVIOUS
<1>2. PICK x \in Nat \ T : \A y \in Nat \ T : <<y, x>> \notin NatLess
  BY <1>1, NatLessWellFounded, WFMin
<1>3. PICK k \in Nat : x = k + 1
  <2>1. x \in Nat /\ x # 0
    BY <1>2
  <2>2. x - 1 \in Nat /\ x = (x - 1) + 1
    BY <2>1
  <2> QED
    BY <2>2
<1>4. <<k, x>> \in NatLess
  BY <1>3 DEF NatLess
<1>5. k \in T
  BY <1>2, <1>3, <1>4
<1> QED
  BY <1>2, <1>3, <1>5

\* Find yields the first place of a byte if there is one.
LEMMA FindIsFirst ==
  ASSUME NEW s, Len(s) \in Nat, NEW c, NEW i \in Nat \ {0}
  PROVE  \/ /\ Find(s, c, i) = 0
            /\ \A j \in i..Len(s) : s[j] # c
         \/ /\ Find(s, c, i) \in i..Len(s)
            /\ s[Find(s, c, i)] = c
            /\ \A j \in i..Len(s) : s[j] = c => Find(s, c, i) <= j
<1> DEFINE places == {j \in i..Len(s) : s[j] = c}
<1>1. CASE places = {}
  BY <1>1 DEF Find
<1>2. CASE places # {}
  <2>1. places \subseteq Nat
    OBVIOUS
  <2>2. PICK x \in places : \A y \in places : <<y, x>> \notin NatLess
    BY <1>2, <2>1, NatLessWellFounded, WFMin
  <2>3. \A y \in places : x <= y
    <3> SUFFICES ASSUME NEW y \in places, y < x PROVE FALSE
      BY <2>1
    <3>1. <<y, x>> \in NatLess
      BY <2>1 DEF NatLess
    <3>2. QED
      BY <2>2, <3>1
  <2> DEFINE first == CHOOSE j \in places : \A k \in places : j <= k
  <2>4. first \in places /\ \A k \in places : first <= k
    BY <2>3
  <2>5. Find(s, c, i) = first
    BY <1>2 DEF Find
  <2> HIDE DEF first
  <2>6. QED
    BY <2>4, <2>5
<1>3. QED
  BY <1>1, <1>2

\* Containing two bytes in a row.
LEMMA ContainsPair ==
  ASSUME NEW s, Len(s) \in Nat, NEW a, NEW b
  PROVE  Contains(s, <<a, b>>) <=>
           \E i \in 1..(Len(s) - 1) : s[i] = a /\ s[i + 1] = b
<1>1. Len(<<a, b>>) = 2 /\ <<a, b>>[1] = a /\ <<a, b>>[2] = b
  OBVIOUS
<1>2. \A i \in 1..Len(s) :
        (\A j \in 1..2 : s[i + j - 1] = <<a, b>>[j]) <=> s[i] = a /\ s[i + 1] = b
  <2> SUFFICES ASSUME NEW i \in 1..Len(s)
               PROVE  (\A j \in 1..2 : s[i + j - 1] = <<a, b>>[j])
                        <=> s[i] = a /\ s[i + 1] = b
    OBVIOUS
  <2>1. 1..2 = {1, 2} /\ i + 1 - 1 = i /\ i + 2 - 1 = i + 1
    OBVIOUS
  <2>2. QED
    BY <1>1, <2>1
<1>3. Contains(s, <<a, b>>) <=>
        \E i \in 1..Len(s) : i + 1 <= Len(s) /\ s[i] = a /\ s[i + 1] = b
  <2> DEFINE t == <<a, b>>
  <2>1. \A i \in 1..Len(s) : i + Len(t) - 1 = i + 1
    BY <1>1
  <2>2. Len(t) = 2
    BY <1>1
  <2>3. \A i \in 1..Len(s) :
          (\A j \in 1..2 : s[i + j - 1] = t[j]) <=> s[i] = a /\ s[i + 1] = b
    BY <1>2
  <2> HIDE DEF t
  <2>4. Contains(s, t) <=>
          \E i \in 1..Len(s) : i + 1 <= Len(s) /\ s[i] = a /\ s[i + 1] = b
    BY <2>1, <2>2, <2>3 DEF Contains
  <2>5. QED
    BY <2>4 DEF t
<1>4. QED
  BY <1>3

NoHiddenSegment(s) == s # <<>> => s[1] # Dot /\ ~Contains(s, <<Slash, Dot>>)

Recomposed(path, service, url) ==
  IF service = <<Slash>>
  THEN path = <<Slash>> \/ path = <<Slash>> \o url
  ELSE /\ \E between \in {<<>>, <<Slash>>} :
            path = <<Slash>> \o service \o between \o url
       /\ Slash \notin {service[i] : i \in 1..Len(service)}

\* What get_service_and_url_path makes of a path that check_path accepted.
LEMMA AcceptedPath ==
  ASSUME NEW S, NEW url \in Seq(S), Len(url) >= 2, CheckPath(url)
  PROVE  /\ NoHiddenSegment(ServiceAndUrl(url).service)
         /\ NoHiddenSegment(ServiceAndUrl(url).url)
         /\ Recomposed(SubSeq(url, 1, Len(url) - 1), ServiceAndUrl(url).service,
                       ServiceAndUrl(url).url)
<1> DEFINE path == SubSeq(url, 1, Len(url) - 1)
           p == Find(path, Slash, 2)
<1>1. /\ path \in Seq(S)
      /\ Len(path) = Len(url) - 1
      /\ \A i \in 1..Len(path) : path[i] = url[i]
  OBVIOUS
<1>2. /\ url[1] = Slash
      /\ \A i \in 1..(Len(url) - 1) : ~(url[i] = Slash /\ url[i + 1] = Dot)
  BY ContainsPair DEF CheckPath
<1>3. /\ path[1] = Slash
      /\ \A i \in 1..(Len(path) - 1) : ~(path[i] = Slash /\ path[i + 1] = Dot)
  BY <1>1, <1>2
<1>4. ASSUME NEW m \in 2..Len(path) + 1, NEW n \in 0..Len(path),
             n < m \/ path[m] # Dot
      PROVE  NoHiddenSegment(SubSeq(path, m, n))
  <2> DEFINE t == SubSeq(path, m, n)
  <2>1. /\ t \in Seq(S)
        /\ Len(t) = IF m <= n THEN n - m + 1 ELSE 0
        /\ \A i \in 1..Len(t) : t[i] = path[m + i - 1]
    BY <1>1
  <2>6. /\ Len(t) \in Nat /\ Len(path) \in Nat
        /\ Len(t) >= 1 => Len(t) = n - m + 1
    BY <1>1, <2>1
  <2>2. ASSUME NEW i \in 1..(Len(t) - 1) PROVE ~(t[i] = Slash /\ t[i + 1] = Dot)
    <3> DEFINE k == m + i - 1
    <3>0. /\ i \in 1..Len(t) /\ i + 1 \in 1..Len(t)
          /\ Len(t) = n - m + 1
      BY <2>6
    <3>1. /\ i \in 1..Len(t) /\ i + 1 \in 1..Len(t)
          /\ k \in 1..(Len(path) - 1) /\ m + (i + 1) - 1 = k + 1
      BY <2>6, <3>0
    <3>2. t[i] = path[k] /\ t[i + 1] = path[k + 1]
      BY <2>1, <3>1
    <3> HIDE DEF k
    <3> QED
      BY <1>3, <3>1, <3>2
  <2>3. t # <<>> => t[1] # Dot
    BY <1>1, <1>4, <2>1
  <2>0. Len(t) \in Nat
    BY <2>1
  <2> HIDE DEF t
  <2>4. ~Contains(t, <<Slash, Dot>>)
    BY <2>0, <2>2, ContainsPair
  <2>5. QED
    BY <2>3, <2>4 DEF NoHiddenSegment, t
<1>5. Len(path) \in Nat /\ Len(path) >= 1
  BY <1>1
<1> HIDE DEF path
<1>6. \/ p = 0
      \/ /\ p \in 2..Len(path)
         /\ path[p] = Slash
         /\ \A j \in 2..Len(path) : path[j] = Slash => p <= j
  BY <1>5, FindIsFirst
<1> HIDE DEF p
<1>7. ServiceAndUrl(url) =
        IF path = <<Slash>> THEN [service |-> <<Slash>>, url |-> <<Slash>>]
        ELSE IF p = 0
        THEN [service |-> <<Slash>>, url |-> SubSeq(path, 2, Len(path))]
        ELSE [service |-> SubSeq(path, 2, p - 1), url |-> SubSeq(path, p, Len(path))]
  BY DEF ServiceAndUrl, SplitAt, WithoutLast, p, path
<1>8. NoHiddenSegment(<<Slash>>)
  <2>1. ~Contains(<<Slash>>, <<Slash, Dot>>)
    BY ContainsPair
  <2>2. QED
    BY <2>1 DEF NoHiddenSegment, Slash, Dot
<1>9. Slash # Dot
  BY DEF Slash, Dot
<1>10. Len(path) >= 2 => path[2] # Dot
  BY <1>1, <1>3
<1>11. CASE path = <<Slash>>
  BY <1>7, <1>8, <1>11 DEF Recomposed, path
<1>12. CASE path # <<Slash>> /\ p = 0
  <2> DEFINE u == SubSeq(path, 2, Len(path))
  <2>1. NoHiddenSegment(u)
    BY <1>4, <1>5, <1>10
  <2>2. path = <<Slash>> \o u
    BY <1>1, <1>3, <1>5
  <2>3. QED
    BY <1>7, <1>8, <1>12, <2>1, <2>2 DEF Recomposed, path
<1>13. CASE path # <<Slash>> /\ p # 0
  <2> DEFINE s == SubSeq(path, 2, p - 1)
             u == SubSeq(path, p, Len(path))
  <2>0. p \in 2..Len(path) /\ path[p] = Slash
    BY <1>6, <1>13
  <2>1. NoHiddenSegment(s) /\ NoHiddenSegment(u)
    BY <1>4, <1>5, <1>9, <1>10, <2>0
  <2>2. path = <<Slash>> \o s \o <<>> \o u
    BY <1>1, <1>3, <1>5, <2>0
  <2>3. /\ s \in Seq(S) /\ Len(s) = p - 2
        /\ \A i \in 1..Len(s) : s[i] = path[i + 1]
    BY <1>1, <2>0
  <2>4. Slash \notin {s[i] : i \in 1..Len(s)}
    BY <1>1, <1>6, <1>13, <2>0, <2>3
  <2> HIDE DEF s
  <2>5. s # <<Slash>>
    <3> SUFFICES ASSUME s = <<Slash>> PROVE FALSE
      OBVIOUS
    <3>1. Len(s) = 1 /\ s[1] = Slash
      OBVIOUS
    <3>2. QED
      BY <2>4, <3>1
  <2>6. ServiceAndUrl(url) = [service |-> s, url |-> u]
    BY <1>7, <1>13 DEF s
  <2> HIDE DEF u
  <2>7. ServiceAndUrl(url).service = s /\ ServiceAndUrl(url).url = u
    BY <2>6
  <2>8. Recomposed(path, s, u)
    BY <2>2, <2>4, <2>5 DEF Recomposed
  <2>9. QED
    BY <2>1, <2>7, <2>8 DEF path
<1>14. QED
  BY <1>11, <1>12, <1>13

---------------------------------------------------------------------------
(* Recursion from the end of a string: both percent_decode's loop and the  *)
(* reference prepend a piece to what follows further on.                   *)

Unrolled(n, last, tail, head, next, k, f) ==
  f = [i \in (n + 1 - k)..(n + 1) |->
         IF i > last THEN tail[i] ELSE head[i] \o f[next[i]]]

LEMMA SuffixRecursion ==
  ASSUME NEW n \in Nat, NEW last \in Int, NEW tail, NEW head, NEW next,
         last <= n,
         \A i \in 1..(n + 1) : i <= last => next[i] \in (i + 1)..(n + 1)
  PROVE  \E f : Unrolled(n, last, tail, head, next, n, f)
<1> DEFINE T == {k \in Nat :
                   k <= n => \E f : Unrolled(n, last, tail, head, next, k, f)}
<1>1. 0 \in T
  <2> DEFINE f == [i \in (n + 1)..(n + 1) |-> tail[i]]
  <2>1. \A i \in (n + 1)..(n + 1) : i > last
    OBVIOUS
  <2>2. Unrolled(n, last, tail, head, next, 0, f)
    BY <2>1 DEF Unrolled
  <2> QED
    BY <2>2
<1>2. ASSUME NEW k \in Nat, k \in T
      PROVE  k + 1 \in T
  <2> SUFFICES ASSUME k + 1 <= n
               PROVE  \E f : Unrolled(n, last, tail, head, next, k + 1, f)
    OBVIOUS
  <2>1. PICK f : Unrolled(n, last, tail, head, next, k, f)
    BY <1>2
  <2> DEFINE here == n + 1 - (k + 1)
             g == [i \in here..(n + 1) |->
                     IF i = here
                     THEN IF i > last THEN tail[i] ELSE head[i] \o f[next[i]]
                     ELSE f[i]]
  <2>2. /\ here \in 1..n /\ here + 1 = n + 1 - k
        /\ \A i \in (here + 1)..(n + 1) : i \in 1..(n + 1)
    OBVIOUS
  <2>3. \A i \in (here + 1)..(n + 1) :
          f[i] = IF i > last THEN tail[i] ELSE head[i] \o f[next[i]]
    BY <2>1, <2>2 DEF Unrolled
  <2>4. \A i \in (here + 1)..(n + 1) : g[i] = f[i]
    BY <2>2
  <2>5. \A i \in here..(n + 1) : i <= last => next[i] \in (here + 1)..(n + 1)
    BY <2>2
  <2>6. g[here] = IF here > last THEN tail[here] ELSE head[here] \o f[next[here]]
    BY <2>2
  <2>7. DOMAIN g = here..(n + 1) /\ g = [i \in here..(n + 1) |-> g[i]]
    OBVIOUS
  <2> HIDE DEF g, here
  <2>8. \A i \in here..(n + 1) :
          g[i] = IF i > last THEN tail[i] ELSE head[i] \o g[next[i]]
    <3> SUFFICES ASSUME NEW i \in here..(n + 1)
                 PROVE  g[i] = IF i > last THEN tail[i] ELSE head[i] \o g[next[i]]
      OBVIOUS
    <3>1. i <= last => g[next[i]] = f[next[i]]
      BY <2>4, <2>5
    <3>2. CASE i = here
      BY <2>2, <2>6, <3>1, <3>2
    <3>3. CASE i # here
      <4>1. i \in (here + 1)..(n + 1)
        BY <2>2, <3>3
      <4> QED
        BY <2>2, <2>3, <2>4, <3>1, <4>1
    <3> QED
      BY <3>2, <3>3
  <2>9. Unrolled(n, last, tail, head, next, k + 1, g)
    BY <2>7, <2>8 DEF Unrolled, here
  <2> QED
    BY <2>9
<1> HIDE DEF T
<1>3. Nat \subseteq T
  BY <1>1, <1>2, NatSetInduction
<1> QED
  BY <1>3 DEF T

\* What percent_decode's loop computes satisfies its equations.
DecodeStep(memory, n, f) ==
  \A i \in 1..(n + 1) :
    f[i] = IF i > n - 2 THEN SubSeq(memory, i, i + 1)
           ELSE IF IsEscape(memory, i)
                THEN <<Unescaped(memory, i)>> \o f[i + 3]
                ELSE <<memory[i]>> \o f[i + 1]

LEMMA DecodeLoop ==
  ASSUME NEW memory, NEW n \in Nat
  PROVE  \E f : DecodeStep(memory, n, f) /\ DecodeFrom(memory, n) = f[1]
<1> DEFINE Of(f) == f = [i \in 1..(n + 1) |->
             IF i > n - 2 THEN SubSeq(memory, i, i + 1)
             ELSE IF IsEscape(memory, i)
                  THEN <<Unescaped(memory, i)>> \o f[i + 3]
                  ELSE <<memory[i]>> \o f[i + 1]]
           tail == [i \in 1..(n + 1) |-> SubSeq(memory, i, i + 1)]
           head == [i \in 1..(n + 1) |-> IF IsEscape(memory, i)
                      THEN <<Unescaped(memory, i)>> ELSE <<memory[i]>>]
           next == [i \in 1..(n + 1) |->
                      IF IsEscape(memory, i) THEN i + 3 ELSE i + 1]
<1>1. \E f : Of(f)
  <2>1. \A i \in 1..(n + 1) : i <= n - 2 => next[i] \in (i + 1)..(n + 1)
    OBVIOUS
  <2>2. n - 2 \in Int /\ n - 2 <= n
    OBVIOUS
  <2>3. \A i \in 1..(n + 1) :
          /\ tail[i] = SubSeq(memory, i, i + 1)
          /\ IsEscape(memory, i) =>
               head[i] = <<Unescaped(memory, i)>> /\ next[i] = i + 3
          /\ ~IsEscape(memory, i) => head[i] = <<memory[i]>> /\ next[i] = i + 1
    OBVIOUS
  <2> HIDE DEF tail, head, next
  <2>4. PICK f : Unrolled(n, n - 2, tail, head, next, n, f)
    BY <2>1, <2>2, SuffixRecursion
  <2>5. f = [i \in 1..(n + 1) |->
               IF i > n - 2 THEN tail[i] ELSE head[i] \o f[next[i]]]
    <3>1. n + 1 - n = 1
      OBVIOUS
    <3> QED
      BY <2>4, <3>1, Zenon DEF Unrolled
  <2>6. \A i \in 1..(n + 1) :
          (IF i > n - 2 THEN tail[i] ELSE head[i] \o f[next[i]])
          = IF i > n - 2 THEN SubSeq(memory, i, i + 1)
            ELSE IF IsEscape(memory, i)
                 THEN <<Unescaped(memory, i)>> \o f[i + 3]
                 ELSE <<memory[i]>> \o f[i + 1]
    BY <2>3
  <2> DEFINE A(i) == IF i > n - 2 THEN tail[i] ELSE head[i] \o f[next[i]]
             B(i) == IF i > n - 2 THEN SubSeq(memory, i, i + 1)
                     ELSE IF IsEscape(memory, i)
                          THEN <<Unescaped(memory, i)>> \o f[i + 3]
                          ELSE <<memory[i]>> \o f[i + 1]
  <2>7. f = [i \in 1..(n + 1) |-> A(i)]
    BY <2>5
  <2>8. \A i \in 1..(n + 1) : A(i) = B(i)
    BY <2>6
  <2>9. f = [i \in 1..(n + 1) |-> B(i)]
    <3> HIDE DEF A, B
    <3> QED
      BY <2>7, <2>8
  <2> QED
    BY <2>9
<1> DEFINE decode == CHOOSE f : Of(f)
<1>2. Of(decode)
  BY <1>1
<1>3. DecodeFrom(memory, n) = decode[1]
  BY DEF DecodeFrom
<1> HIDE DEF decode
<1>4. DecodeStep(memory, n, decode)
  BY <1>2 DEF DecodeStep
<1> QED
  BY <1>3, <1>4

\* And so does the reference.
ReferenceStep(s, g) ==
  \A i \in 1..(Len(s) + 1) :
    g[i] = IF i > Len(s) THEN <<>>
           ELSE IF Escaped(s, i) = {} THEN <<s[i]>> \o g[i + 1]
           ELSE <<CHOOSE b \in Escaped(s, i) : TRUE>> \o g[i + 3]

LEMMA ReferenceLoop ==
  ASSUME NEW s, Len(s) \in Nat
  PROVE  \E g : ReferenceStep(s, g) /\ Reference(s) = g[1]
<1> DEFINE n == Len(s)
           Of(g) == g = [i \in 1..(Len(s) + 1) |->
             IF i > Len(s) THEN <<>>
             ELSE IF Escaped(s, i) = {} THEN <<s[i]>> \o g[i + 1]
             ELSE <<CHOOSE b \in Escaped(s, i) : TRUE>> \o g[i + 3]]
           tail == [i \in 1..(n + 1) |-> <<>>]
           head == [i \in 1..(n + 1) |-> IF Escaped(s, i) = {} THEN <<s[i]>>
                      ELSE <<CHOOSE b \in Escaped(s, i) : TRUE>>]
           next == [i \in 1..(n + 1) |->
                      IF Escaped(s, i) = {} THEN i + 1 ELSE i + 3]
<1>1. \E g : Of(g)
  <2>1. \A i \in 1..(n + 1) : i <= n => next[i] \in (i + 1)..(n + 1)
    BY DEF Escaped
  <2>2. n \in Nat /\ n \in Int /\ n <= n
    OBVIOUS
  <2>3. \A i \in 1..(n + 1) :
          /\ tail[i] = <<>>
          /\ Escaped(s, i) = {} => head[i] = <<s[i]>> /\ next[i] = i + 1
          /\ Escaped(s, i) # {} =>
               /\ head[i] = <<CHOOSE b \in Escaped(s, i) : TRUE>>
               /\ next[i] = i + 3
    OBVIOUS
  <2> HIDE DEF tail, head, next, n
  <2>4. PICK g : Unrolled(n, n, tail, head, next, n, g)
    BY <2>1, <2>2, SuffixRecursion
  <2>5. g = [i \in 1..(n + 1) |->
               IF i > n THEN tail[i] ELSE head[i] \o g[next[i]]]
    <3>1. n + 1 - n = 1
      BY <2>2
    <3> QED
      BY <2>4, <3>1, Zenon DEF Unrolled
  <2>6. \A i \in 1..(n + 1) :
          (IF i > n THEN tail[i] ELSE head[i] \o g[next[i]])
          = IF i > n THEN <<>>
            ELSE IF Escaped(s, i) = {} THEN <<s[i]>> \o g[i + 1]
            ELSE <<CHOOSE b \in Escaped(s, i) : TRUE>> \o g[i + 3]
    BY <2>3
  <2> DEFINE A(i) == IF i > n THEN tail[i] ELSE head[i] \o g[next[i]]
             B(i) == IF i > n THEN <<>>
                     ELSE IF Escaped(s, i) = {} THEN <<s[i]>> \o g[i + 1]
                     ELSE <<CHOOSE b \in Escaped(s, i) : TRUE>> \o g[i + 3]
  <2>7. g = [i \in 1..(n + 1) |-> A(i)]
    BY <2>5
  <2>8. \A i \in 1..(n + 1) : A(i) = B(i)
    BY <2>6
  <2>9. g = [i \in 1..(n + 1) |-> B(i)]
    <3> HIDE DEF A, B
    <3> QED
      BY <2>7, <2>8
  <2> QED
    BY <2>9 DEF n
<1> DEFINE decode == CHOOSE g : Of(g)
<1>2. Of(decode)
  BY <1>1
<1>3. Reference(s) = decode[1]
  BY DEF Reference
<1> HIDE DEF decode
<1>4. ReferenceStep(s, decode)
  BY <1>2 DEF ReferenceStep
<1> QED
  BY <1>3, <1>4

---------------------------------------------------------------------------
(* What percent_decode yields: bytes, no more than it was given.           *)

\* Induction from the end.
LEMMA FromTheEnd ==
  ASSUME NEW n \in Nat, NEW T,
         \A i \in 1..n : (\A j \in (i + 1)..n : j \in T) => i \in T
  PROVE  1..n \subseteq T
<1> DEFINE D == {k \in Nat : \A j \in 1..n : j > n - k => j \in T}
<1>1. 0 \in D
  OBVIOUS
<1>2. ASSUME NEW k \in Nat, k \in D PROVE k + 1 \in D
  <2> SUFFICES ASSUME NEW j \in 1..n, j > n - (k + 1) PROVE j \in T
    OBVIOUS
  <2>1. CASE j > n - k
    BY <1>2, <2>1
  <2>2. CASE ~(j > n - k)
    <3>1. \A i \in (j + 1)..n : i \in 1..n /\ i > n - k
      BY <2>2
    <3>2. \A i \in (j + 1)..n : i \in T
      BY <1>2, <3>1
    <3> QED
      BY <3>2
  <2> QED
    BY <2>1, <2>2
<1> HIDE DEF D
<1>3. Nat \subseteq D
  BY <1>1, <1>2, NatSetInduction
<1> QED
  BY <1>3 DEF D

LEMMA BytesAre ==
  ASSUME NEW s \in Bytes
  PROVE  Len(s) \in Nat /\ \A i \in 1..Len(s) : s[i] \in 0..255
  BY ElementOfSeq, LenProperties DEF Bytes

\* A byte before bytes.
LEMMA Prepended ==
  ASSUME NEW x \in 0..255, NEW s \in Bytes
  PROVE  /\ <<x>> \o s \in Bytes
         /\ Len(<<x>> \o s) = Len(s) + 1
         /\ (<<x>> \o s)[1] = x
         /\ \A j \in 1..Len(s) : (<<x>> \o s)[j + 1] = s[j]
<1>1. <<x>> \in Bytes /\ Len(<<x>>) = 1 /\ <<x>>[1] = x
  BY DEF Bytes
<1>2. Len(s) \in Nat
  BY DEF Bytes
<1> DEFINE h == <<x>>
           t == h \o s
<1>3. /\ t \in Bytes /\ Len(t) = Len(h) + Len(s)
      /\ \A i \in 1..Len(h) + Len(s) :
           t[i] = IF i <= Len(h) THEN h[i] ELSE s[i - Len(h)]
  BY <1>1, ConcatProperties DEF Bytes
<1>4. Len(h) = 1 /\ h[1] = x
  BY <1>1
<1> HIDE DEF t, h
<1>5. \A j \in 1..Len(s) : j + 1 \in 1..1 + Len(s) /\ ~(j + 1 <= 1) /\ j + 1 - 1 = j
  BY <1>2
<1>6. \A j \in 1..Len(s) : t[j + 1] = s[j]
  BY <1>3, <1>4, <1>5
<1>7. t[1] = x
  BY <1>2, <1>3, <1>4
<1>8. t \in Bytes /\ Len(t) = Len(s) + 1
  BY <1>2, <1>3, <1>4
<1> QED
  BY <1>6, <1>7, <1>8 DEF t, h

LEMMA UnescapedIsByte ==
  ASSUME NEW s \in Bytes, NEW i \in Nat \ {0}, i + 2 <= Len(s)
  PROVE  Unescaped(s, i) \in 0..255
<1>1. i + 1 \in 1..Len(s) /\ i + 2 \in 1..Len(s)
  BY BytesAre
<1>2. s[i + 1] \in 0..255 /\ s[i + 2] \in 0..255
  <2>1. \A j \in 1..Len(s) : s[j] \in 0..255
    BY BytesAre
  <2> QED
    BY <1>1, <2>1
<1>3. \A c \in 0..255 : HexToUint(c) \in Int
  BY DEF HexToUint
<1>4. \A x \in Int, y \in Int : (x * 16 + y) % 256 \in 0..255
  OBVIOUS
<1>5. HexToUint(s[i + 1]) \in Int /\ HexToUint(s[i + 2]) \in Int
  BY <1>2, <1>3
<1> QED
  BY <1>4, <1>5 DEF Unescaped

LEMMA DecodedBytes ==
  ASSUME NEW memory \in Bytes, NEW n \in Nat, n >= 2, n + 2 <= Len(memory),
         NEW f, DecodeStep(memory, n, f)
  PROVE  \A i \in 1..(n + 1) :
           f[i] \in Bytes /\ Len(f[i]) <= (IF i < n THEN n + 1 - i ELSE 2)
<1> DEFINE Most(i) == IF i < n THEN n + 1 - i ELSE 2
           T == {i \in 1..(n + 1) : f[i] \in Bytes /\ Len(f[i]) <= Most(i)}
<1>1. ASSUME NEW i \in 1..(n + 1), \A j \in (i + 1)..(n + 1) : j \in T
      PROVE  i \in T
  <2>1. CASE i > n - 2
    <3>1. f[i] = SubSeq(memory, i, i + 1)
      BY <2>1 DEF DecodeStep
    <3>2. \A j \in i..(i + 1) : memory[j] \in 0..255
      <4>1. \A j \in 1..Len(memory) : memory[j] \in 0..255
        BY BytesAre
      <4>2. \A j \in i..(i + 1) : j \in 1..Len(memory)
        BY BytesAre
      <4> QED
        BY <4>1, <4>2
    <3>3. i \in Int /\ i + 1 \in Int /\ i <= i + 1 /\ i + 1 - i + 1 = 2
      OBVIOUS
    <3>5. SubSeq(memory, i, i + 1) \in Bytes /\ Len(SubSeq(memory, i, i + 1)) = 2
      BY <3>2, <3>3, SubSeqProperties DEF Bytes
    <3>4. 2 <= Most(i)
      BY <2>1
    <3> QED
      BY <3>1, <3>5, <3>4
  <2>2. CASE ~(i > n - 2)
    <3>1. i \in Nat \ {0} /\ i + 2 <= Len(memory) /\ memory[i] \in 0..255
      BY <2>2, BytesAre
    <3>2. i + 1 \in T /\ i + 3 \in T
      BY <1>1, <2>2
    <3>3. CASE IsEscape(memory, i)
      <4>1. f[i] = <<Unescaped(memory, i)>> \o f[i + 3]
        BY <2>2, <3>3 DEF DecodeStep
      <4>2. f[i] \in Bytes /\ Len(f[i]) = Len(f[i + 3]) + 1
        <5>1. Unescaped(memory, i) \in 0..255
          BY <3>1, UnescapedIsByte
        <5>2. f[i + 3] \in Bytes
          BY <3>2
        <5>3. /\ <<Unescaped(memory, i)>> \o f[i + 3] \in Bytes
              /\ Len(<<Unescaped(memory, i)>> \o f[i + 3]) = Len(f[i + 3]) + 1
          BY <5>1, <5>2, Prepended
        <5> QED
          BY <4>1, <5>3
      <4>3. Len(f[i + 3]) \in Nat /\ Len(f[i + 3]) <= Most(i + 3)
        BY <3>2 DEF Bytes
      <4>4. Most(i + 3) + 1 <= Most(i)
        BY <2>2
      <4> HIDE DEF Most
      <4>5. Most(i) \in Int /\ Most(i + 3) \in Int
        BY DEF Most
      <4> QED
        BY <4>2, <4>3, <4>4, <4>5
    <3>4. CASE ~IsEscape(memory, i)
      <4>1. f[i] = <<memory[i]>> \o f[i + 1]
        BY <2>2, <3>4 DEF DecodeStep
      <4>2. f[i] \in Bytes /\ Len(f[i]) = Len(f[i + 1]) + 1
        <5>1. f[i + 1] \in Bytes
          BY <3>2
        <5>2. /\ <<memory[i]>> \o f[i + 1] \in Bytes
              /\ Len(<<memory[i]>> \o f[i + 1]) = Len(f[i + 1]) + 1
          BY <3>1, <5>1, Prepended
        <5> QED
          BY <4>1, <5>2
      <4>3. Len(f[i + 1]) \in Nat /\ Len(f[i + 1]) <= Most(i + 1)
        BY <3>2 DEF Bytes
      <4>4. Most(i + 1) + 1 <= Most(i)
        BY <2>2
      <4> HIDE DEF Most
      <4>5. Most(i) \in Int /\ Most(i + 1) \in Int
        BY DEF Most
      <4> QED
        BY <4>2, <4>3, <4>4, <4>5
    <3> QED
      BY <3>3, <3>4
  <2> QED
    BY <2>1, <2>2
<1>2. n + 1 \in Nat
  OBVIOUS
<1> HIDE DEF T
<1>3. 1..(n + 1) \subseteq T
  BY <1>1, <1>2, FromTheEnd
<1> QED
  BY <1>3 DEF T

\* Padded bytes are bytes, those there were and terminators.
LEMMA Padded ==
  ASSUME NEW s \in Bytes, NEW m \in Nat
  PROVE  /\ PadTo(s, m) \in Bytes
         /\ Len(PadTo(s, m)) = m
         /\ \A i \in 1..m : PadTo(s, m)[i] = IF i <= Len(s) THEN s[i] ELSE NUL
<1>1. \A i \in 1..m : (IF i <= Len(s) THEN s[i] ELSE NUL) \in 0..255
  BY BytesAre DEF NUL
<1> DEFINE p == PadTo(s, m)
<1>2. p = [i \in 1..m |-> IF i <= Len(s) THEN s[i] ELSE NUL]
  BY DEF PadTo
<1>3. p \in [1..m -> 0..255]
  BY <1>1, <1>2
<1>4. \A i \in 1..m : p[i] = IF i <= Len(s) THEN s[i] ELSE NUL
  BY <1>2
<1> HIDE DEF p
<1>5. p \in Bytes /\ Len(p) = m
  BY <1>3 DEF Bytes
<1> QED
  BY <1>4, <1>5 DEF p

---------------------------------------------------------------------------
(* percent_decode against the reference: what it yields starts with what   *)
(* the path stands for, and if it goes on, it does with a terminator.      *)

LEMMA HexDigits ==
  ASSUME NEW c \in 0..255, NEW k \in 0..15
  PROVE  c \in DigitsOf(k) <=> IsXDigit(c) /\ HexToUint(c) = k
<1>1. CASE k < 10
  BY <1>1 DEF DigitsOf, IsXDigit, HexToUint
<1>2. CASE ~(k < 10)
  BY <1>2 DEF DigitsOf, IsXDigit, HexToUint
<1> QED
  BY <1>1, <1>2

\* A byte is the one of two hexadecimal digits.
IsByteOf(u, h, l) == u = (h * 16 + l) % 256

OnlyByteOf(u, h, l) ==
  \A b \in 0..255 : (h = b \div 16 /\ l = b % 16) <=> b = u

LEMMA ByteOfDigits ==
  ASSUME NEW h \in 0..15, NEW l \in 0..15, NEW u, IsByteOf(u, h, l)
  PROVE  /\ u \in 0..255
         /\ OnlyByteOf(u, h, l)
<1>1. u = h * 16 + l /\ u \in 0..255
  BY DEF IsByteOf
<1>2. ASSUME NEW b \in 0..255, h = b \div 16, l = b % 16 PROVE b = u
  <2>1. b = h * 16 + l
    BY <1>2
  <2> QED
    BY <1>1, <2>1
<1>3. h = u \div 16 /\ l = u % 16
  <2> DEFINE q == u \div 16
             m == u % 16
  <2>1. q \in Int /\ m \in 0..15 /\ u = q * 16 + m
    BY <1>1
  <2> HIDE DEF q, m
  <2>2. q = h /\ m = l
    BY <1>1, <2>1
  <2> QED
    BY <2>2 DEF q, m
<1> QED
  BY <1>1, <1>2, <1>3 DEF OnlyByteOf

\* An escape stands for the byte it is replaced by, and for no other.
LEMMA EscapeStandsForOne ==
  ASSUME NEW memory \in Bytes, NEW r \in Bytes, NEW i \in Nat \ {0},
         i + 2 <= Len(r), i + 2 <= Len(memory),
         \A j \in i..(i + 2) : memory[j] = r[j]
  PROVE  /\ IsEscape(memory, i) <=> IsEscape(r, i)
         /\ ~IsEscape(memory, i) => Escaped(r, i) = {}
         /\ IsEscape(memory, i) => Escaped(r, i) = {Unescaped(memory, i)}
<1> DEFINE c == r[i]  d == r[i + 1]  e == r[i + 2]
<1>1. c \in 0..255 /\ d \in 0..255 /\ e \in 0..255
  <2>1. \A j \in 1..Len(r) : r[j] \in 0..255
    BY BytesAre
  <2>2. i \in 1..Len(r) /\ i + 1 \in 1..Len(r) /\ i + 2 \in 1..Len(r)
    BY BytesAre
  <2> QED
    BY <2>1, <2>2
<1>2. memory[i] = c /\ memory[i + 1] = d /\ memory[i + 2] = e
  OBVIOUS
<1>3. /\ IsEscape(memory, i) <=> c = Percent /\ IsXDigit(d) /\ IsXDigit(e)
      /\ IsEscape(r, i) <=> c = Percent /\ IsXDigit(d) /\ IsXDigit(e)
  BY <1>2 DEF IsEscape
<1>4. Escaped(r, i) =
        IF c # Percent THEN {}
        ELSE {b \in 0..255 : d \in DigitsOf(b \div 16) /\ e \in DigitsOf(b % 16)}
  <2>1. ~(i + 2 > Len(r))
    BY BytesAre
  <2> QED
    BY <2>1 DEF Escaped
<1>5. Unescaped(memory, i) = (HexToUint(d) * 16 + HexToUint(e)) % 256
  BY <1>2 DEF Unescaped
<1> HIDE DEF c, d, e
<1>6. \A b \in 0..255 :
        (d \in DigitsOf(b \div 16) /\ e \in DigitsOf(b % 16))
          <=> /\ IsXDigit(d) /\ HexToUint(d) = b \div 16
              /\ IsXDigit(e) /\ HexToUint(e) = b % 16
  <2>1. \A b \in 0..255 : b \div 16 \in 0..15 /\ b % 16 \in 0..15
    OBVIOUS
  <2> QED
    BY <1>1, <2>1, HexDigits
<1>7. /\ IsXDigit(d) => HexToUint(d) \in 0..15
      /\ IsXDigit(e) => HexToUint(e) \in 0..15
  BY <1>1 DEF IsXDigit, HexToUint
<1>9. CASE IsEscape(memory, i)
  <2>1. /\ c = Percent /\ IsXDigit(d) /\ IsXDigit(e)
        /\ HexToUint(d) \in 0..15 /\ HexToUint(e) \in 0..15
    BY <1>3, <1>7, <1>9
  <2> DEFINE u == Unescaped(memory, i)
             h == HexToUint(d)
             l == HexToUint(e)
  <2>6. h \in 0..15 /\ l \in 0..15 /\ IsByteOf(u, h, l)
    BY <1>5, <2>1 DEF IsByteOf
  <2> HIDE DEF u, h, l
  <2>2. u \in 0..255
    BY <2>6, ByteOfDigits
  <2>7. OnlyByteOf(u, h, l)
    BY <2>6, ByteOfDigits
  <2>3. \A b \in 0..255 :
          (HexToUint(d) = b \div 16 /\ HexToUint(e) = b % 16) <=> b = u
    BY <2>7 DEF OnlyByteOf, h, l
  <2>4. \A b \in 0..255 :
          (d \in DigitsOf(b \div 16) /\ e \in DigitsOf(b % 16)) <=> b = u
    BY <1>6, <2>1, <2>3
  <2>5. Escaped(r, i) = {u}
    <3> DEFINE E == {b \in 0..255 : d \in DigitsOf(b \div 16) /\ e \in DigitsOf(b % 16)}
    <3>1. Escaped(r, i) = E
      BY <1>4, <2>1
    <3>2. u \in E /\ \A b \in E : b = u
      BY <2>2, <2>4
    <3> HIDE DEF E
    <3> QED
      BY <3>1, <3>2
  <2> QED
    BY <1>3, <1>9, <2>5 DEF u
<1>10. CASE ~IsEscape(memory, i)
  <2>1. Escaped(r, i) = {}
    BY <1>3, <1>4, <1>6, <1>10
  <2> QED
    BY <1>3, <1>10, <2>1
<1> QED
  BY <1>9, <1>10

LEMMA ReferenceBytes ==
  ASSUME NEW s \in Bytes, NEW g, ReferenceStep(s, g)
  PROVE  \A i \in 1..(Len(s) + 1) : g[i] \in Bytes
<1> DEFINE n == Len(s)
           T == {i \in 1..(n + 1) : g[i] \in Bytes}
<1>0. n \in Nat /\ \A j \in 1..n : s[j] \in 0..255
  BY BytesAre
<1>1. ASSUME NEW i \in 1..(n + 1), \A j \in (i + 1)..(n + 1) : j \in T
      PROVE  i \in T
  <2>1. CASE i > n
    <3>1. g[i] = <<>>
      BY <2>1 DEF ReferenceStep
    <3>2. <<>> \in Bytes
      BY EmptySeq DEF Bytes
    <3> QED
      BY <3>1, <3>2
  <2>2. CASE ~(i > n) /\ Escaped(s, i) = {}
    <3>1. g[i] = <<s[i]>> \o g[i + 1]
      BY <2>2 DEF ReferenceStep
    <3>2. s[i] \in 0..255 /\ g[i + 1] \in Bytes
      BY <1>0, <1>1, <2>2
    <3>3. <<s[i]>> \o g[i + 1] \in Bytes
      BY <3>2, Prepended
    <3> QED
      BY <3>1, <3>3
  <2>3. CASE ~(i > n) /\ Escaped(s, i) # {}
    <3> DEFINE u == CHOOSE b \in Escaped(s, i) : TRUE
    <3>1. g[i] = <<u>> \o g[i + 3]
      BY <2>3 DEF ReferenceStep
    <3>2. u \in 0..255 /\ i + 2 <= n
      <4>1. Escaped(s, i) \subseteq 0..255 /\ ~(i + 2 > n)
        BY <2>3 DEF Escaped
      <4>2. u \in Escaped(s, i)
        BY <2>3
      <4>3. i + 2 <= n
        BY <1>0, <4>1
      <4>4. u \in 0..255
        BY <4>1, <4>2, Zenon
      <4> QED
        BY <4>3, <4>4
    <3> HIDE DEF u
    <3>3. g[i + 3] \in Bytes
      BY <1>0, <1>1, <3>2
    <3>4. <<u>> \o g[i + 3] \in Bytes
      BY <3>2, <3>3, Prepended
    <3> QED
      BY <3>1, <3>4
  <2> QED
    BY <2>1, <2>2, <2>3
<1>2. n + 1 \in Nat
  BY <1>0
<1> HIDE DEF T, n
<1>3. 1..(n + 1) \subseteq T
  BY <1>1, <1>2, FromTheEnd
<1> QED
  BY <1>3 DEF T, n

\* p is q, or goes on with a terminator.
Continues(p, q) ==
  /\ Len(p) >= Len(q)
  /\ \A j \in 1..Len(q) : p[j] = q[j]
  /\ Len(p) > Len(q) => p[Len(q) + 1] = NUL

LEMMA ContinuesPrepended ==
  ASSUME NEW x \in 0..255, NEW p \in Bytes, NEW q \in Bytes, Continues(p, q)
  PROVE  Continues(<<x>> \o p, <<x>> \o q)
<1> DEFINE P == <<x>> \o p
           Q == <<x>> \o q
<1>1. /\ Len(P) = Len(p) + 1 /\ P[1] = x
      /\ \A j \in 1..Len(p) : P[j + 1] = p[j]
  BY Prepended
<1>2. /\ Len(Q) = Len(q) + 1 /\ Q[1] = x
      /\ \A j \in 1..Len(q) : Q[j + 1] = q[j]
  BY Prepended
<1>3. Len(p) \in Nat /\ Len(q) \in Nat
  BY BytesAre
<1> HIDE DEF P, Q
<1>4. ASSUME NEW j \in 1..Len(Q) PROVE P[j] = Q[j]
  <2>1. CASE j = 1
    BY <1>1, <1>2, <2>1
  <2>2. CASE j # 1
    <3>1. PICK k \in 1..Len(q) : j = k + 1
      <4>1. j - 1 \in 1..Len(q) /\ j = (j - 1) + 1
        BY <1>2, <1>3, <2>2
      <4> QED
        BY <4>1
    <3>2. k \in 1..Len(p) /\ p[k] = q[k]
      BY <1>3 DEF Continues
    <3> QED
      BY <1>1, <1>2, <3>1, <3>2
  <2> QED
    BY <2>1, <2>2
<1>5. Len(P) > Len(Q) => P[Len(Q) + 1] = NUL
  <2> SUFFICES ASSUME Len(P) > Len(Q) PROVE P[Len(Q) + 1] = NUL
    OBVIOUS
  <2>1. Len(p) > Len(q) /\ Len(q) + 1 \in 1..Len(p)
    BY <1>1, <1>2, <1>3
  <2>2. P[(Len(q) + 1) + 1] = p[Len(q) + 1]
    BY <1>1, <2>1
  <2> QED
    BY <1>2, <2>1, <2>2 DEF Continues
<1>6. Len(P) >= Len(Q)
  BY <1>1, <1>2, <1>3 DEF Continues
<1>7. Continues(P, Q)
  BY <1>4, <1>5, <1>6 DEF Continues
<1> QED
  BY <1>7 DEF P, Q

\* The end of the reference's result: no escape fits in.
LEMMA ReferenceEnd ==
  ASSUME NEW s \in Bytes, Len(s) >= 2, NEW g, ReferenceStep(s, g)
  PROVE  LET n == Len(s)
         IN  /\ g[n + 1] = <<>>
             /\ g[n] \in Bytes /\ Len(g[n]) = 1 /\ g[n][1] = s[n]
             /\ g[n - 1] \in Bytes /\ Len(g[n - 1]) = 2
             /\ g[n - 1][1] = s[n - 1] /\ g[n - 1][2] = s[n]
<1> DEFINE n == Len(s)
<1>1. n \in Nat /\ n >= 2 /\ \A j \in 1..n : s[j] \in 0..255
  BY BytesAre
<1>2. g[n + 1] = <<>>
  <2>1. n + 1 \in 1..(n + 1) /\ n + 1 > n
    BY <1>1
  <2> QED
    BY <2>1 DEF ReferenceStep
<1>3. \A i \in (n - 1)..n : Escaped(s, i) = {}
  BY <1>1 DEF Escaped
<1>4. \A i \in (n - 1)..n : g[i] = <<s[i]>> \o g[i + 1]
  <2> SUFFICES ASSUME NEW i \in (n - 1)..n PROVE g[i] = <<s[i]>> \o g[i + 1]
    OBVIOUS
  <2>1. i \in 1..(n + 1) /\ ~(i > n)
    BY <1>1
  <2> QED
    BY <1>3, <2>1 DEF ReferenceStep
<1>5. n \in (n - 1)..n /\ n - 1 \in (n - 1)..n /\ (n - 1) + 1 = n
      /\ s[n] \in 0..255 /\ s[n - 1] \in 0..255
  BY <1>1
<1> HIDE DEF n
<1>6. g[n] = <<s[n]>> \o <<>> /\ g[n - 1] = <<s[n - 1]>> \o g[n]
  BY <1>2, <1>4, <1>5
<1>7. <<>> \in Bytes /\ Len(<<>>) = 0
  BY EmptySeq DEF Bytes
<1>8. g[n] \in Bytes /\ Len(g[n]) = 1 /\ g[n][1] = s[n]
  <2> DEFINE t == <<s[n]>> \o <<>>
  <2>1. t \in Bytes /\ Len(t) = Len(<<>>) + 1 /\ t[1] = s[n]
    BY <1>5, <1>7, Prepended
  <2> QED
    BY <1>6, <1>7, <2>1
<1>9. g[n - 1] \in Bytes /\ Len(g[n - 1]) = 2
      /\ g[n - 1][1] = s[n - 1] /\ g[n - 1][2] = s[n]
  <2> DEFINE u == g[n]
             t == <<s[n - 1]>> \o u
  <2>0. u \in Bytes /\ Len(u) = 1 /\ u[1] = s[n]
    BY <1>8
  <2>1. t \in Bytes /\ Len(t) = Len(u) + 1 /\ t[1] = s[n - 1]
        /\ \A j \in 1..Len(u) : t[j + 1] = u[j]
    BY <1>5, <2>0, Prepended
  <2>2. g[n - 1] = t
    BY <1>6
  <2> HIDE DEF t, u
  <2>3. 1 \in 1..Len(u)
    BY <2>0
  <2>4. Len(t) = 2 /\ t[2] = s[n]
    BY <2>0, <2>1, <2>3
  <2> QED
    BY <2>1, <2>2, <2>4
<1> QED
  BY <1>2, <1>8, <1>9 DEF n

\* What the loop copies at its end, two bytes of memory.
LEMMA DecodeEnd ==
  ASSUME NEW memory \in Bytes, NEW n \in Nat, n >= 2, n + 2 <= Len(memory),
         NEW f, DecodeStep(memory, n, f), NEW i \in (n - 1)..(n + 1)
  PROVE  /\ f[i] \in Bytes /\ Len(f[i]) = 2
         /\ f[i][1] = memory[i] /\ f[i][2] = memory[i + 1]
<1>1. f[i] = SubSeq(memory, i, i + 1)
  <2>1. i \in 1..(n + 1) /\ i > n - 2
    OBVIOUS
  <2> QED
    BY <2>1 DEF DecodeStep
<1>2. \A j \in i..(i + 1) : memory[j] \in 0..255
  <2>1. \A j \in 1..Len(memory) : memory[j] \in 0..255
    BY BytesAre
  <2>2. \A j \in i..(i + 1) : j \in 1..Len(memory)
    BY BytesAre
  <2> QED
    BY <2>1, <2>2
<1>3. /\ i \in Int /\ i + 1 \in Int /\ i <= i + 1 /\ i + 1 - i + 1 = 2
      /\ i + 1 - 1 = i /\ i + 2 - 1 = i + 1 /\ 1 \in 1..2 /\ 2 \in 1..2
  OBVIOUS
<1> DEFINE t == SubSeq(memory, i, i + 1)
<1>4. /\ t \in Seq(0..255)
      /\ Len(t) = IF i <= i + 1 THEN i + 1 - i + 1 ELSE 0
      /\ \A j \in 1..i + 1 - i + 1 : t[j] = memory[i + j - 1]
  BY <1>2, <1>3, SubSeqProperties
<1> HIDE DEF t
<1>5. t \in Seq(0..255) /\ Len(t) = 2 /\ t[1] = memory[i] /\ t[2] = memory[i + 1]
  BY <1>3, <1>4
<1> QED
  BY <1>1, <1>5 DEF t, Bytes

LEMMA DecodesAlike ==
  ASSUME NEW memory \in Bytes, NEW r \in Bytes, Len(r) >= 2,
         Len(r) + 2 <= Len(memory),
         \A i \in 1..Len(r) : memory[i] = r[i],
         \/ memory[Len(r) + 1] = NUL
         \/ \A i \in 1..Len(r) : IsEscape(r, i) => i + 3 < Len(r),
         NEW f, DecodeStep(memory, Len(r), f),
         NEW g, ReferenceStep(r, g)
  PROVE  Continues(f[1], g[1])
<1> DEFINE n == Len(r)
           T == {i \in 1..(n + 1) :
                   i < n \/ memory[n + 1] = NUL => Continues(f[i], g[i])}
<1>1. n \in Nat /\ n >= 2 /\ n + 2 <= Len(memory) /\ Len(memory) \in Nat
  BY BytesAre
<1>2. \A i \in 1..(n + 1) : f[i] \in Bytes
  BY <1>1, DecodedBytes
<1>3. \A i \in 1..(n + 1) : g[i] \in Bytes
  BY ReferenceBytes
<1>4. /\ g[n + 1] = <<>>
      /\ g[n] \in Bytes /\ Len(g[n]) = 1 /\ g[n][1] = r[n]
      /\ g[n - 1] \in Bytes /\ Len(g[n - 1]) = 2
      /\ g[n - 1][1] = r[n - 1] /\ g[n - 1][2] = r[n]
  BY ReferenceEnd
<1>5. DecodeStep(memory, n, f)
  OBVIOUS
<1>6. \A i \in 1..n : memory[i] = r[i]
  OBVIOUS
<1>7. memory[n + 1] = NUL \/ \A i \in 1..n : IsEscape(r, i) => i + 3 < n
  OBVIOUS
<1>8. \A i \in 1..(n + 1) :
        g[i] = IF i > n THEN <<>>
               ELSE IF Escaped(r, i) = {} THEN <<r[i]>> \o g[i + 1]
               ELSE <<CHOOSE b \in Escaped(r, i) : TRUE>> \o g[i + 3]
  BY DEF ReferenceStep
<1>9. \A i \in 1..n : r[i] \in 0..255
  BY BytesAre
<1> HIDE DEF n
<1>10. ASSUME NEW i \in 1..(n + 1), \A j \in (i + 1)..(n + 1) : j \in T
       PROVE  i \in T
  <2> SUFFICES ASSUME i < n \/ memory[n + 1] = NUL
               PROVE  Continues(f[i], g[i])
    OBVIOUS
  <2>1. CASE i > n - 2
    <3>1. i \in (n - 1)..(n + 1)
      BY <1>1, <2>1
    <3> DEFINE p == f[i]
               q == g[i]
    <3>2. Len(p) = 2 /\ p[1] = memory[i] /\ p[2] = memory[i + 1]
      BY <1>1, <1>5, <3>1, DecodeEnd
    <3> HIDE DEF p, q
    <3>3. CASE i = n + 1
      <4>1. q = <<>> /\ Len(q) = 0 /\ memory[n + 1] = NUL
        BY <1>1, <1>4, <3>3 DEF q
      <4> QED
        BY <3>2, <3>3, <4>1 DEF Continues, p, q
    <3>4. CASE i = n
      <4>1. Len(q) = 1 /\ q[1] = r[n] /\ memory[n + 1] = NUL
        BY <1>1, <1>4, <3>4 DEF q
      <4>2. memory[n] = r[n]
        BY <1>1, <1>6
      <4>3. Continues(p, q)
        BY <3>2, <3>4, <4>1, <4>2 DEF Continues
      <4> QED
        BY <4>3 DEF p, q
    <3>5. CASE i = n - 1
      <4>1. Len(q) = 2 /\ q[1] = r[n - 1] /\ q[2] = r[n]
        BY <1>1, <1>4, <3>5 DEF q
      <4>2. memory[n - 1] = r[n - 1] /\ memory[n] = r[n] /\ i + 1 = n
        BY <1>1, <1>6, <3>5
      <4>3. \A j \in 1..2 : j = 1 \/ j = 2
        OBVIOUS
      <4>4. Continues(p, q)
        BY <3>2, <3>5, <4>1, <4>2, <4>3 DEF Continues
      <4> QED
        BY <4>4 DEF p, q
    <3> QED
      BY <1>1, <3>1, <3>3, <3>4, <3>5
  <2>2. CASE ~(i > n - 2)
    <3>1. /\ i \in 1..n /\ i + 2 <= n /\ i + 2 <= Len(memory)
          /\ i + 1 \in 1..(n + 1) /\ i + 3 \in 1..(n + 1)
          /\ i + 1 \in (i + 1)..(n + 1) /\ i + 3 \in (i + 1)..(n + 1)
          /\ i + 1 < n /\ ~(i > n) /\ i \in Nat \ {0}
      BY <1>1, <2>2
    <3>2. i + 1 \in T /\ i + 3 \in T
      BY <1>10, <3>1
    <3>3. \A j \in i..(i + 2) : memory[j] = r[j]
      BY <1>1, <1>6, <3>1
    <3>4. /\ IsEscape(memory, i) <=> IsEscape(r, i)
          /\ ~IsEscape(memory, i) => Escaped(r, i) = {}
          /\ IsEscape(memory, i) => Escaped(r, i) = {Unescaped(memory, i)}
      BY <3>1, <3>3, EscapeStandsForOne DEF n
    <3>5. CASE IsEscape(memory, i)
      <4> DEFINE x == Unescaped(memory, i)
      <4>1. f[i] = <<x>> \o f[i + 3]
        BY <1>5, <2>2, <3>5 DEF DecodeStep
      <4>2. Escaped(r, i) = {x}
        BY <3>4, <3>5
      <4>3. x \in 0..255
        BY <3>1, UnescapedIsByte
      <4> HIDE DEF x
      <4>4. (CHOOSE b \in Escaped(r, i) : TRUE) = x
        BY <4>2
      <4>5. g[i] = <<x>> \o g[i + 3]
        BY <1>8, <3>1, <4>2, <4>4
      <4>6. i + 3 < n \/ memory[n + 1] = NUL
        BY <1>7, <3>1, <3>4, <3>5
      <4>7. Continues(f[i + 3], g[i + 3])
        BY <3>2, <4>6
      <4>8. f[i + 3] \in Bytes /\ g[i + 3] \in Bytes
        BY <1>2, <1>3, <3>1 DEF n
      <4>9. Continues(<<x>> \o f[i + 3], <<x>> \o g[i + 3])
        BY <4>3, <4>7, <4>8, ContinuesPrepended
      <4> QED
        BY <4>1, <4>5, <4>9
    <3>6. CASE ~IsEscape(memory, i)
      <4>1. f[i] = <<memory[i]>> \o f[i + 1]
        BY <1>5, <2>2, <3>6 DEF DecodeStep
      <4>2. Escaped(r, i) = {}
        BY <3>4, <3>6
      <4>3. memory[i] = r[i] /\ r[i] \in 0..255
        BY <1>6, <1>9, <3>1
      <4>4. g[i] = <<r[i]>> \o g[i + 1]
        BY <1>8, <3>1, <4>2
      <4>5. Continues(f[i + 1], g[i + 1])
        BY <3>1, <3>2
      <4>6. f[i + 1] \in Bytes /\ g[i + 1] \in Bytes
        BY <1>2, <1>3, <3>1 DEF n
      <4>7. Continues(<<r[i]>> \o f[i + 1], <<r[i]>> \o g[i + 1])
        BY <4>3, <4>5, <4>6, ContinuesPrepended
      <4> QED
        BY <4>1, <4>3, <4>4, <4>7
    <3> QED
      BY <3>5, <3>6
  <2> QED
    BY <2>1, <2>2
<1>11. n + 1 \in Nat /\ 1 < n /\ 1 \in 1..(n + 1)
  BY <1>1
<1> HIDE DEF T
<1>12. 1..(n + 1) \subseteq T
  BY <1>10, <1>11, FromTheEnd
<1> QED
  BY <1>11, <1>12 DEF T

\* The file system sees no more of a string than what goes on with a
\* terminator.
LEMMA SameCString ==
  ASSUME NEW p \in Bytes, NEW q \in Bytes, Continues(p, q), Len(p) > Len(q)
  PROVE  CString(p) = CString(q)
<1> DEFINE e == Find(q, NUL, 1)
           d == Find(p, NUL, 1)
<1>1. Len(p) \in Nat /\ Len(q) \in Nat
  BY BytesAre
<1>2. /\ \A j \in 1..Len(q) : p[j] = q[j]
      /\ p[Len(q) + 1] = NUL
      /\ Len(q) + 1 \in 1..Len(p)
  BY <1>1 DEF Continues
<1>3. \/ e = 0 /\ \A j \in 1..Len(q) : q[j] # NUL
      \/ e \in 1..Len(q) /\ q[e] = NUL /\ \A j \in 1..Len(q) : q[j] = NUL => e <= j
  BY <1>1, FindIsFirst
<1>4. \/ d = 0 /\ \A j \in 1..Len(p) : p[j] # NUL
      \/ d \in 1..Len(p) /\ p[d] = NUL /\ \A j \in 1..Len(p) : p[j] = NUL => d <= j
  BY <1>1, FindIsFirst
<1>5. /\ CString(p) = IF d = 0 THEN p ELSE SubSeq(p, 1, d - 1)
      /\ CString(q) = IF e = 0 THEN q ELSE SubSeq(q, 1, e - 1)
  BY DEF CString
<1> HIDE DEF e, d
<1>6. d \in 1..(Len(q) + 1)
  BY <1>1, <1>2, <1>4
<1>7. d = IF e = 0 THEN Len(q) + 1 ELSE e
  <2>1. \A j \in 1..Len(q) : p[j] = NUL <=> q[j] = NUL
    BY <1>2
  <2>2. CASE e = 0
    BY <1>1, <1>2, <1>3, <1>4, <1>6, <2>1, <2>2
  <2>3. CASE e # 0
    <3>1. e \in 1..Len(p) /\ p[e] = NUL
      BY <1>1, <1>2, <1>3, <2>1, <2>3
    <3>2. d <= e
      BY <1>4, <3>1
    <3>3. d \in 1..Len(q) /\ q[d] = NUL
      BY <1>1, <1>3, <1>4, <1>6, <2>1, <2>3, <3>2
    <3> QED
      BY <1>3, <1>6, <2>3, <3>2, <3>3
  <2> QED
    BY <2>2, <2>3
<1>8. SubSeq(p, 1, d - 1) = SubSeq(q, 1, d - 1)
  <2>1. /\ d - 1 \in Int /\ 1 \in Int /\ d - 1 - 1 + 1 = d - 1
        /\ \A j \in 1..(d - 1) : 1 + j - 1 = j
        /\ \A j \in 1..(d - 1) : p[j] = q[j]
    BY <1>1, <1>2, <1>6
  <2>2. \A j \in 1..(d - 1) : p[j] \in 0..255 /\ q[j] \in 0..255
    <3>1. \A j \in 1..Len(q) : q[j] \in 0..255
      BY BytesAre
    <3> SUFFICES ASSUME NEW j \in 1..(d - 1)
                 PROVE  p[j] \in 0..255 /\ q[j] \in 0..255
      OBVIOUS
    <3>2. j \in 1..Len(q) /\ p[j] = q[j]
      BY <1>1, <1>6, <2>1
    <3> QED
      BY <3>1, <3>2
  <2> DEFINE s == SubSeq(p, 1, d - 1)
             t == SubSeq(q, 1, d - 1)
  <2>3. s \in Bytes /\ Len(s) = (IF 1 <= d - 1 THEN d - 1 - 1 + 1 ELSE 0)
        /\ \A j \in 1..(d - 1 - 1 + 1) : s[j] = p[1 + j - 1]
    BY <2>1, <2>2, SubSeqProperties DEF Bytes
  <2>4. t \in Bytes /\ Len(t) = (IF 1 <= d - 1 THEN d - 1 - 1 + 1 ELSE 0)
        /\ \A j \in 1..(d - 1 - 1 + 1) : t[j] = q[1 + j - 1]
    BY <2>1, <2>2, SubSeqProperties DEF Bytes
  <2> HIDE DEF s, t
  <2>5. Len(s) = d - 1 /\ Len(t) = d - 1
    BY <1>1, <1>6, <2>3, <2>4
  <2>6. \A j \in 1..(d - 1) : s[j] = t[j]
    BY <2>1, <2>3, <2>4
  <2>7. s = t
    BY <2>3, <2>4, <2>5, <2>6, SeqEqual DEF Bytes
  <2> QED
    BY <2>7 DEF s, t
<1>9. SubSeq(q, 1, Len(q)) = q
  BY SubSeqFull DEF Bytes
<1>10. d # 0 /\ (e = 0 => d - 1 = Len(q))
  BY <1>1, <1>6, <1>7
<1>11. CString(p) = SubSeq(q, 1, d - 1)
  BY <1>5, <1>8, <1>10
<1>12. CASE e = 0
  BY <1>5, <1>9, <1>10, <1>11, <1>12
<1>13. CASE e # 0
  BY <1>5, <1>7, <1>11, <1>13
<1> QED
  BY <1>12, <1>13

\* A path of at most three bytes that is not an escape has none.
LEMMA ShortReference ==
  ASSUME NEW r \in Bytes, Len(r) \in 0..3, ~(Len(r) = 3 /\ IsEscape(r, 1)),
         NEW g, ReferenceStep(r, g)
  PROVE  g[1] = r
<1> DEFINE n == Len(r)
           T == {i \in 1..(n + 1) :
                   /\ g[i] \in Bytes /\ Len(g[i]) = n + 1 - i
                   /\ \A j \in 1..(n + 1 - i) : g[i][j] = r[i + j - 1]}
<1>1. n \in 0..3 /\ \A j \in 1..n : r[j] \in 0..255
  BY BytesAre
<1>2. \A i \in 1..n : Escaped(r, i) = {}
  <2> SUFFICES ASSUME NEW i \in 1..n PROVE Escaped(r, i) = {}
    OBVIOUS
  <2>1. CASE i = 1
    <3>1. CASE i + 2 > Len(r)
      BY <3>1, Zenon DEF Escaped
    <3>2. CASE ~(i + 2 > Len(r))
      <4>1. Len(r) = 3 /\ i = 1 /\ 1 \in Nat \ {0} /\ 1 + 2 <= Len(r)
        BY <1>1, <2>1, <3>2
      <4>2. ~IsEscape(r, 1)
        BY <4>1
      <4>3. ~IsEscape(r, 1) => Escaped(r, 1) = {}
        BY <4>1, EscapeStandsForOne
      <4> QED
        BY <4>1, <4>2, <4>3
    <3> QED
      BY <3>1, <3>2
  <2>2. CASE i # 1
    <3>1. i + 2 > Len(r)
      BY <1>1, <2>2
    <3> QED
      BY <3>1, Zenon DEF Escaped
  <2> QED
    BY <2>1, <2>2
<1>3. \A i \in 1..(n + 1) : g[i] = IF i > n THEN <<>> ELSE <<r[i]>> \o g[i + 1]
  <2> SUFFICES ASSUME NEW i \in 1..(n + 1)
               PROVE  g[i] = IF i > n THEN <<>> ELSE <<r[i]>> \o g[i + 1]
    OBVIOUS
  <2>1. CASE i > n
    BY <2>1 DEF ReferenceStep
  <2>2. CASE ~(i > n)
    <3>1. Escaped(r, i) = {}
      BY <1>1, <1>2, <2>2
    <3> QED
      BY <2>2, <3>1 DEF ReferenceStep
  <2> QED
    BY <2>1, <2>2
<1> HIDE DEF n
<1>4. ASSUME NEW i \in 1..(n + 1), \A j \in (i + 1)..(n + 1) : j \in T
      PROVE  i \in T
  <2>1. CASE i > n
    <3>1. g[i] = <<>>
      BY <1>3, <2>1
    <3>2. n + 1 - i = 0
      BY <1>1, <2>1
    <3>3. <<>> \in Bytes /\ Len(<<>>) = 0
      BY EmptySeq DEF Bytes
    <3> QED
      BY <3>1, <3>2, <3>3
  <2>2. CASE ~(i > n)
    <3> DEFINE s == g[i + 1]
               t == <<r[i]>> \o s
    <3>0. i + 1 \in (i + 1)..(n + 1) /\ i \in 1..n
      BY <1>1, <2>2
    <3>1. i + 1 \in T /\ r[i] \in 0..255
      BY <1>1, <1>4, <3>0
    <3>2. s \in Bytes /\ Len(s) = n + 1 - (i + 1)
          /\ \A j \in 1..(n + 1 - (i + 1)) : s[j] = r[i + 1 + j - 1]
      BY <3>1
    <3>3. t \in Bytes /\ Len(t) = Len(s) + 1 /\ t[1] = r[i]
          /\ \A j \in 1..Len(s) : t[j + 1] = s[j]
      BY <3>1, <3>2, Prepended
    <3>4. g[i] = t
      BY <1>3, <2>2
    <3> HIDE DEF s, t
    <3>5. ASSUME NEW j \in 1..(n + 1 - i) PROVE t[j] = r[i + j - 1]
      <4>1. CASE j = 1
        <5>1. i + j - 1 = i
          BY <4>1
        <5> QED
          BY <3>3, <4>1, <5>1
      <4>2. CASE j # 1
        <5>1. PICK k \in Nat : j = k + 1 /\ k \in 1..(n + 1 - (i + 1))
          <6>1. j - 1 \in 1..(n + 1 - (i + 1)) /\ j = (j - 1) + 1
            BY <1>1, <4>2
          <6> QED
            BY <6>1
        <5>2. i + 1 + k - 1 = i + j - 1 /\ k \in 1..Len(s)
          BY <1>1, <3>2, <5>1
        <5> QED
          BY <3>2, <3>3, <5>1, <5>2
      <4> QED
        BY <4>1, <4>2
    <3>6. Len(t) = n + 1 - i
      BY <1>1, <3>2, <3>3
    <3> QED
      BY <3>3, <3>4, <3>5, <3>6
  <2> QED
    BY <2>1, <2>2
<1>5. n + 1 \in Nat /\ 1 \in 1..(n + 1) /\ n + 1 - 1 = n
      /\ \A j \in 1..n : 1 + j - 1 = j
  BY <1>1
<1> HIDE DEF T
<1>6. 1..(n + 1) \subseteq T
  BY <1>4, <1>5, FromTheEnd
<1>7. g[1] \in Bytes /\ Len(g[1]) = n /\ \A j \in 1..n : g[1][j] = r[j]
  <2>1. 1 \in T
    BY <1>5, <1>6
  <2>2. g[1] \in Bytes /\ Len(g[1]) = n + 1 - 1
        /\ \A j \in 1..(n + 1 - 1) : g[1][j] = r[1 + j - 1]
    BY <2>1 DEF T
  <2> QED
    BY <1>5, <2>2
<1> QED
  BY <1>7, SeqEqual DEF n, Bytes

LEMMA PaddedContinues ==
  ASSUME NEW x \in Bytes, NEW q \in Bytes, Continues(x, q),
         NEW m \in Nat, Len(x) < m
  PROVE  Continues(PadTo(x, m), q) /\ Len(PadTo(x, m)) > Len(q)
<1> DEFINE p == PadTo(x, m)
<1>1. /\ Len(p) = m
      /\ \A i \in 1..m : p[i] = IF i <= Len(x) THEN x[i] ELSE NUL
  BY Padded
<1>2. /\ Len(x) \in Nat /\ Len(q) \in Nat /\ Len(x) >= Len(q)
      /\ \A j \in 1..Len(q) : x[j] = q[j]
      /\ Len(x) > Len(q) => x[Len(q) + 1] = NUL
  BY BytesAre DEF Continues
<1> HIDE DEF p
<1>3. \A j \in 1..Len(q) : p[j] = q[j]
  <2> SUFFICES ASSUME NEW j \in 1..Len(q) PROVE p[j] = q[j]
    OBVIOUS
  <2>1. j \in 1..m /\ j <= Len(x)
    BY <1>2
  <2> QED
    BY <1>1, <1>2, <2>1
<1>4. Len(q) + 1 \in 1..m /\ p[Len(q) + 1] = NUL
  <2>1. Len(q) + 1 \in 1..m
    BY <1>2
  <2>2. CASE Len(x) > Len(q)
    BY <1>1, <1>2, <2>1, <2>2
  <2>3. CASE ~(Len(x) > Len(q))
    BY <1>1, <1>2, <2>1, <2>3
  <2> QED
    BY <2>1, <2>2, <2>3
<1>5. m > Len(q) /\ m >= Len(q)
  BY <1>2
<1>6. Continues(p, q) /\ Len(p) > Len(q)
  BY <1>1, <1>3, <1>4, <1>5 DEF Continues
<1> QED
  BY <1>6 DEF p

LEMMA StringShape ==
  ASSUME NEW B, B \subseteq 0..255, NEW n \in Int, NEW s \in Strings(B, n)
  PROVE  s \in Bytes
<1>1. PICK k \in 0..n : s \in [1..k -> B]
  BY DEF Strings
<1>2. k \in Nat
  OBVIOUS
<1>3. s \in [1..k -> 0..255]
  BY <1>1
<1> QED
  BY <1>2, <1>3 DEF Bytes

\* The library's paths, and what follows them in memory.
LEMMA PathShape ==
  ASSUME NEW v \in Path
  PROVE  v \in Bytes /\ Len(v) \in Nat \ {0} /\ PathLen(v) \in 0..Len(v)
<1>1. v \in Strings(Byte, MaxLen) /\ v # <<>>
  BY DEF Path
<1>2. Byte \subseteq 0..255 /\ MaxLen \in Int
  BY RouterAssumption
<1>3. v \in Bytes
  BY <1>1, <1>2, StringShape
<1>4. Len(v) \in Nat /\ Len(v) # 0
  BY <1>1, <1>3, BytesAre, EmptySeq DEF Bytes
<1>5. Find(v, Question, 1) = 0 \/ Find(v, Question, 1) \in 1..Len(v)
  BY <1>4, FindIsFirst
<1>6. PathLen(v) \in 0..Len(v)
  <2> DEFINE q == Find(v, Question, 1)
  <2>1. PathLen(v) = IF q = 0 THEN Len(v) ELSE q - 1
    BY DEF PathLen
  <2>2. q = 0 \/ q \in 1..Len(v)
    BY <1>5, Zenon
  <2> HIDE DEF q
  <2> QED
    BY <1>4, <2>1, <2>2
<1> QED
  BY <1>3, <1>4, <1>6

LEMMA MemoryShape ==
  ASSUME NEW v \in Bytes, NEW b \in 0..255
  PROVE  LET memory == v \o <<NUL, b>>
         IN  /\ memory \in Bytes /\ Len(memory) = Len(v) + 2
             /\ \A i \in 1..Len(v) : memory[i] = v[i]
             /\ memory[Len(v) + 1] = NUL
<1> DEFINE t == <<NUL, b>>
           memory == v \o t
<1>1. t \in Bytes /\ Len(t) = 2 /\ t[1] = NUL
  BY DEF NUL, Bytes
<1>2. Len(v) \in Nat
  BY BytesAre
<1> HIDE DEF t
<1>3. /\ memory \in Bytes /\ Len(memory) = Len(v) + Len(t)
      /\ \A i \in 1..Len(v) + Len(t) :
           memory[i] = IF i <= Len(v) THEN v[i] ELSE t[i - Len(v)]
  <2>1. v \in Seq(0..255) /\ t \in Seq(0..255)
    BY <1>1 DEF Bytes
  <2> QED
    BY <2>1, ConcatProperties DEF Bytes
<1> HIDE DEF memory
<1>4. \A i \in 1..Len(v) : memory[i] = v[i]
  BY <1>1, <1>2, <1>3
<1>5. memory[Len(v) + 1] = NUL
  <2>1. Len(v) + 1 \in 1..Len(v) + Len(t) /\ ~(Len(v) + 1 <= Len(v))
        /\ Len(v) + 1 - Len(v) = 1
    BY <1>1, <1>2
  <2> QED
    BY <1>1, <1>3, <2>1
<1> QED
  BY <1>1, <1>3, <1>4, <1>5 DEF t, memory

\* A string that percent_decode makes sense of: its escapes end before its
\* last byte.
NoEscapeAtEnd(r) == \A i \in 1..Len(r) : IsEscape(r, i) => i + 3 < Len(r)

LEMMA DecodedPath ==
  ASSUME NEW v \in Path, NEW b \in Beyond
  PROVE  LET path == PercentDecode(v \o <<NUL, b>>, PathLen(v))
             r == SubSeq(v, 1, PathLen(v))
         IN  /\ path \in Bytes /\ Len(path) = PathLen(v) + 1
             /\ path[Len(path)] = NUL
             /\ ~(Len(r) = 3 /\ IsEscape(r, 1))
                /\ (PathLen(v) = Len(v) \/ NoEscapeAtEnd(r)) =>
                  CString(path) = CString(Reference(r))
<1> DEFINE memory == v \o <<NUL, b>>
           n == PathLen(v)
           r == SubSeq(v, 1, n)
           x == IF n > 3 THEN DecodeFrom(memory, n) ELSE SubSeq(memory, 1, n)
           path == PercentDecode(memory, n)
<1>1. v \in Bytes /\ Len(v) \in Nat /\ n \in 0..Len(v)
  BY PathShape
<1>2. b \in 0..255
  BY RouterAssumption
<1>3. /\ memory \in Bytes /\ Len(memory) = Len(v) + 2
      /\ \A i \in 1..Len(v) : memory[i] = v[i]
      /\ memory[Len(v) + 1] = NUL
  BY <1>1, <1>2, MemoryShape
<1>4. path = PadTo(x, n + 1)
  BY DEF PercentDecode
<1>5. r \in Bytes /\ Len(r) = n /\ \A i \in 1..n : r[i] = v[i]
  <2> HIDE DEF n
  <2>1. \A i \in 1..n : v[i] \in 0..255
    BY <1>1, BytesAre
  <2>2. n \in Int /\ 1 \in Int /\ (IF 1 <= n THEN n - 1 + 1 ELSE 0) = n
        /\ n - 1 + 1 = n /\ \A i \in 1..n : 1 + i - 1 = i
    BY <1>1
  <2>3. r \in Seq(0..255) /\ Len(r) = (IF 1 <= n THEN n - 1 + 1 ELSE 0)
        /\ \A i \in 1..n - 1 + 1 : r[i] = v[1 + i - 1]
    BY <2>1, <2>2, SubSeqProperties
  <2> HIDE DEF r
  <2> QED
    BY <2>2, <2>3 DEF Bytes
<1>6. PICK g : ReferenceStep(r, g) /\ Reference(r) = g[1]
  <2>1. Len(r) \in Nat
    BY <1>5, BytesAre
  <2> HIDE DEF r
  <2> QED
    BY <2>1, ReferenceLoop
<1> HIDE DEF n, r, memory, path
<1>7. \A i \in 1..n : memory[i] = r[i]
  BY <1>1, <1>3, <1>5
<1>8. g[1] \in Bytes
  <2>1. 1 \in 1..(Len(r) + 1)
    BY <1>1, <1>5
  <2> QED
    BY <1>5, <1>6, <2>1, ReferenceBytes
<1>9. /\ x \in Bytes /\ Len(x) < n + 1
      /\ ~(Len(r) = 3 /\ IsEscape(r, 1)) /\ (n = Len(v) \/ NoEscapeAtEnd(r)) =>
           Continues(x, g[1])
  <2>1. CASE n > 3
    <3>1. PICK f : DecodeStep(memory, n, f) /\ DecodeFrom(memory, n) = f[1]
      BY <1>1, DecodeLoop
    <3>2. x = f[1]
      BY <2>1, <3>1
    <3>3. n \in Nat /\ n >= 2 /\ n + 2 <= Len(memory) /\ 1 \in 1..(n + 1) /\ 1 < n
      BY <1>1, <1>3, <2>1
    <3>4. f[1] \in Bytes /\ Len(f[1]) <= (IF 1 < n THEN n + 1 - 1 ELSE 2)
      BY <1>3, <3>1, <3>3, DecodedBytes
    <3>5. f[1] \in Bytes /\ Len(f[1]) < n + 1
      <4>1. Len(f[1]) \in Nat
        BY <3>4, BytesAre
      <4> QED
        BY <1>1, <3>3, <3>4, <4>1
    <3>6. ASSUME n = Len(v) \/ NoEscapeAtEnd(r) PROVE Continues(f[1], g[1])
      <4>1. memory[Len(r) + 1] = NUL
            \/ \A i \in 1..Len(r) : IsEscape(r, i) => i + 3 < Len(r)
        BY <1>3, <1>5, <3>6 DEF NoEscapeAtEnd
      <4>2. /\ Len(r) >= 2 /\ Len(r) + 2 <= Len(memory)
            /\ \A i \in 1..Len(r) : memory[i] = r[i]
            /\ DecodeStep(memory, Len(r), f)
        BY <1>5, <1>7, <3>1, <3>3
      <4> QED
        BY <1>3, <1>5, <1>6, <4>1, <4>2, DecodesAlike
    <3> HIDE DEF x
    <3> QED
      BY <3>2, <3>5, <3>6
  <2>2. CASE ~(n > 3)
    <3>1. x = SubSeq(memory, 1, n)
      BY <2>2
    <3>2. SubSeq(memory, 1, n) = r
      <4>1. \A i \in 1..n : memory[i] \in 0..255
        <5>1. \A i \in 1..Len(r) : r[i] \in 0..255
          BY <1>5, BytesAre
        <5> QED
          BY <1>5, <1>7, <5>1
      <4>2. n \in Int /\ 1 \in Int /\ (IF 1 <= n THEN n - 1 + 1 ELSE 0) = n
            /\ n - 1 + 1 = n /\ \A i \in 1..n : 1 + i - 1 = i
        BY <1>1
      <4> DEFINE t == SubSeq(memory, 1, n)
      <4>3. t \in Seq(0..255) /\ Len(t) = (IF 1 <= n THEN n - 1 + 1 ELSE 0)
            /\ \A i \in 1..n - 1 + 1 : t[i] = memory[1 + i - 1]
        BY <4>1, <4>2, SubSeqProperties
      <4> HIDE DEF t
      <4>4. Len(t) = n /\ \A i \in 1..n : t[i] = r[i]
        BY <1>7, <4>2, <4>3
      <4>5. t = r
        BY <1>5, <4>3, <4>4, SeqEqual DEF Bytes
      <4> QED
        BY <4>5 DEF t
    <3>3. ASSUME ~(Len(r) = 3 /\ IsEscape(r, 1)) PROVE g[1] = r
      <4>1. Len(r) \in 0..3
        BY <1>1, <1>5, <2>2
      <4> QED
        BY <1>5, <1>6, <3>3, <4>1, ShortReference
    <3>4. Continues(r, r)
      BY <1>1, <1>5 DEF Continues
    <3>5. Len(r) < n + 1
      BY <1>1, <1>5
    <3> HIDE DEF x
    <3> QED
      BY <1>5, <3>1, <3>2, <3>3, <3>4, <3>5
  <2> QED
    BY <2>1, <2>2
<1> HIDE DEF x
<1>10. n + 1 \in Nat
  BY <1>1
<1>11. /\ path \in Bytes /\ Len(path) = n + 1
       /\ \A i \in 1..(n + 1) : path[i] = IF i <= Len(x) THEN x[i] ELSE NUL
  BY <1>4, <1>9, <1>10, Padded
<1>12. path[Len(path)] = NUL
  <2>1. Len(x) \in Nat /\ n + 1 \in 1..(n + 1) /\ ~(n + 1 <= Len(x))
    BY <1>1, <1>9, BytesAre
  <2> QED
    BY <1>11, <2>1
<1>13. ASSUME ~(Len(r) = 3 /\ IsEscape(r, 1)), n = Len(v) \/ NoEscapeAtEnd(r)
       PROVE  CString(path) = CString(Reference(r))
  <2>1. Continues(path, g[1]) /\ Len(path) > Len(g[1])
    BY <1>4, <1>8, <1>9, <1>10, <1>13, PaddedContinues
  <2>2. CString(path) = CString(g[1])
    BY <1>8, <1>11, <2>1, SameCString
  <2> QED
    BY <1>6, <2>2
<1> QED
  BY <1>11, <1>12, <1>13 DEF n, r, memory, path

---------------------------------------------------------------------------
(* The redirect.                                                           *)

LEMMA TargetShape ==
  ASSUME NEW t \in Target
  PROVE  t \in Bytes /\ Len(t) \in Nat /\ Len(t) >= 1 /\ t[1] = Slash
<1>1. PICK s \in Strings(TargetByte, MaxLen - 1) : t = <<Slash>> \o s
  BY DEF Target
<1>2. TargetByte \subseteq 0..255 /\ MaxLen - 1 \in Int
  BY RouterAssumption
<1>3. s \in Bytes
  BY <1>1, <1>2, StringShape
<1>6. Slash \in 0..255
  BY DEF Slash
<1>4. t \in Bytes /\ Len(t) = Len(s) + 1 /\ t[1] = Slash
  BY <1>1, <1>3, <1>6, Prepended
<1>5. Len(s) \in Nat
  BY <1>3, BytesAre
<1> QED
  BY <1>4, <1>5

\* What session::run has of a request.
LEMMA PeekedShape ==
  ASSUME NEW t \in Target
  PROVE  LET body == Peeked(t)
         IN  /\ body \in Bytes /\ Len(body) = PeekSize
             /\ Find(body, Slash, 1) = 3
             /\ Len(t) + 4 <= PeekSize =>
                  /\ \A i \in 1..Len(t) : body[i + 2] = t[i]
                  /\ body[Len(t) + 3] = Space /\ body[Len(t) + 4] = UpperH
<1> DEFINE a == <<UpperG, Space>>
           z == <<Space, UpperH>>
           at == a \o t
           s == at \o z
           body == Peeked(t)
           L == Len(t)
<1>1. t \in Bytes /\ L \in Nat /\ L >= 1 /\ t[1] = Slash
  BY TargetShape
<1>2. /\ a \in Bytes /\ Len(a) = 2 /\ a[1] = UpperG /\ a[2] = Space
      /\ z \in Bytes /\ Len(z) = 2 /\ z[1] = Space /\ z[2] = UpperH
  BY DEF UpperG, Space, UpperH, Bytes
<1>3. PeekSize \in Nat /\ PeekSize >= 3
  BY RouterAssumption
<1>4. body = PadTo(s, PeekSize)
  BY DEF Peeked
<1> HIDE DEF a, z, L
<1>5. /\ at \in Bytes /\ Len(at) = Len(a) + L
      /\ \A i \in 1..Len(a) + L : at[i] = IF i <= Len(a) THEN a[i] ELSE t[i - Len(a)]
  <2>1. a \in Seq(0..255) /\ t \in Seq(0..255)
    BY <1>1, <1>2 DEF Bytes
  <2> QED
    BY <2>1, ConcatProperties DEF Bytes, L
<1> HIDE DEF at
<1>6. /\ s \in Bytes /\ Len(s) = Len(at) + Len(z)
      /\ \A i \in 1..Len(at) + Len(z) :
           s[i] = IF i <= Len(at) THEN at[i] ELSE z[i - Len(at)]
  <2>1. at \in Seq(0..255) /\ z \in Seq(0..255)
    BY <1>2, <1>5 DEF Bytes
  <2> QED
    BY <2>1, ConcatProperties DEF Bytes
<1> HIDE DEF s
<1>7. Len(at) = L + 2 /\ Len(s) = L + 4
  BY <1>1, <1>2, <1>5, <1>6
<1>8. /\ s[1] = UpperG /\ s[2] = Space
      /\ \A i \in 1..L : s[i + 2] = t[i]
      /\ s[L + 3] = Space /\ s[L + 4] = UpperH
  <2>1. at[1] = UpperG /\ at[2] = Space
    BY <1>1, <1>2, <1>5
  <2>2. \A i \in 1..L : at[i + 2] = t[i]
    <3>1. \A i \in 1..L : i + 2 \in 1..2 + L /\ ~(i + 2 <= 2) /\ i + 2 - 2 = i
      BY <1>1
    <3> QED
      BY <1>2, <1>5, <3>1
  <2>3. s[1] = UpperG /\ s[2] = Space
    BY <1>1, <1>2, <1>6, <1>7, <2>1
  <2>4. \A i \in 1..L : s[i + 2] = t[i]
    <3>1. \A i \in 1..L : i + 2 \in 1..(L + 2) + 2 /\ i + 2 <= L + 2
      BY <1>1
    <3> QED
      BY <1>2, <1>6, <1>7, <2>2, <3>1
  <2>5. s[L + 3] = Space /\ s[L + 4] = UpperH
    <3> DEFINE p == L + 3
               q == L + 4
    <3>1. /\ p \in 1..(L + 2) + 2 /\ ~(p <= L + 2) /\ p - (L + 2) = 1
          /\ q \in 1..(L + 2) + 2 /\ ~(q <= L + 2) /\ q - (L + 2) = 2
      BY <1>1
    <3> HIDE DEF p, q
    <3>2. Len(at) = L + 2 /\ Len(z) = 2
      BY <1>2, <1>7
    <3>3. s[p] = z[1]
      BY <1>6, <3>1, <3>2
    <3>4. s[q] = z[2]
      BY <1>6, <3>1, <3>2
    <3> QED
      BY <1>2, <3>3, <3>4 DEF p, q
  <2> QED
    BY <2>3, <2>4, <2>5
<1>9. /\ body \in Bytes /\ Len(body) = PeekSize
      /\ \A i \in 1..PeekSize : body[i] = IF i <= Len(s) THEN s[i] ELSE NUL
  <2>1. s \in Bytes
    BY <1>6
  <2> DEFINE p == PadTo(s, PeekSize)
  <2>2. /\ p \in Bytes /\ Len(p) = PeekSize
        /\ \A i \in 1..PeekSize : p[i] = IF i <= Len(s) THEN s[i] ELSE NUL
    BY <1>3, <2>1, Padded
  <2> HIDE DEF p
  <2>3. body = p
    BY <1>4 DEF p
  <2> QED
    BY <2>2, <2>3
<1> HIDE DEF body
<1>10. body[1] = UpperG /\ body[2] = Space /\ body[3] = Slash
  <2>1. s[1 + 2] = t[1]
    BY <1>1, <1>8
  <2>2. s[3] = Slash
    BY <1>1, <2>1
  <2> QED
    BY <1>1, <1>3, <1>7, <1>8, <1>9, <2>2
<1>11. Find(body, Slash, 1) = 3
  <2> DEFINE p == Find(body, Slash, 1)
  <2>1. \/ p = 0 /\ \A j \in 1..Len(body) : body[j] # Slash
        \/ /\ p \in 1..Len(body) /\ body[p] = Slash
           /\ \A j \in 1..Len(body) : body[j] = Slash => p <= j
    BY <1>3, <1>9, FindIsFirst
  <2>2. UpperG # Slash /\ Space # Slash
    BY DEF UpperG, Space, Slash
  <2> HIDE DEF p
  <2>3. p # 0 /\ p <= 3 /\ p # 1 /\ p # 2
    BY <1>3, <1>9, <1>10, <2>1, <2>2
  <2>4. p = 3
    BY <1>3, <1>9, <2>1, <2>3
  <2> QED
    BY <2>4 DEF p
<1>12. ASSUME L + 4 <= PeekSize
       PROVE  /\ \A i \in 1..L : body[i + 2] = t[i]
              /\ body[L + 3] = Space /\ body[L + 4] = UpperH
  <2>1. \A i \in 1..(L + 4) : body[i] = s[i]
    BY <1>1, <1>3, <1>7, <1>9, <1>12
  <2>2. /\ \A i \in 1..L : i + 2 \in 1..(L + 4)
        /\ L + 3 \in 1..(L + 4) /\ L + 4 \in 1..(L + 4)
    BY <1>1
  <2> QED
    BY <1>8, <2>1, <2>2
<1> QED
  BY <1>9, <1>11, <1>12 DEF body, L

\* A target is made of bytes; it is the one that was asked for, unless an H
\* or the end of what was peeked comes first.
LEMMA TargetOfPeeked ==
  ASSUME NEW t \in Target
  PROVE  LET body == Peeked(t)
             found == Find(body, UpperH, Find(body, Slash, 1))
         IN  /\ found # 0 => TargetOf(body) \in Bytes
             /\ (\A i \in 1..Len(t) : t[i] # UpperH) /\ Len(t) + 4 <= PeekSize =>
                  found # 0 /\ TargetOf(body) = t
<1> DEFINE body == Peeked(t)
           L == Len(t)
           h == Find(body, UpperH, 3)
<1>1. t \in Bytes /\ L \in Nat /\ L >= 1 /\ t[1] = Slash
  BY TargetShape
<1>2. PeekSize \in Nat /\ PeekSize >= 3
  BY RouterAssumption
<1>3. /\ body \in Bytes /\ Len(body) = PeekSize
      /\ Find(body, Slash, 1) = 3
      /\ L + 4 <= PeekSize =>
           /\ \A i \in 1..L : body[i + 2] = t[i]
           /\ body[L + 3] = Space /\ body[L + 4] = UpperH
  BY PeekedShape
<1>4. TargetOf(body) = SubSeq(body, 3, h - 2)
  BY <1>3 DEF TargetOf
<1> HIDE DEF body, L
<1>5. \/ h = 0 /\ \A j \in 3..Len(body) : body[j] # UpperH
      \/ /\ h \in 3..Len(body) /\ body[h] = UpperH
         /\ \A j \in 3..Len(body) : body[j] = UpperH => h <= j
  BY <1>2, <1>3, FindIsFirst
<1>6. Find(body, UpperH, Find(body, Slash, 1)) = h
  BY <1>3
<1> HIDE DEF h
<1>7. ASSUME h # 0
      PROVE  /\ TargetOf(body) \in Bytes
             /\ Len(TargetOf(body)) = (IF 3 <= h - 2 THEN h - 2 - 3 + 1 ELSE 0)
             /\ \A i \in 1..h - 2 - 3 + 1 : TargetOf(body)[i] = body[3 + i - 1]
  <2>1. h \in 3..PeekSize
    BY <1>3, <1>5, <1>7
  <2>2. \A i \in 3..(h - 2) : body[i] \in 0..255
    <3>1. \A i \in 1..PeekSize : body[i] \in 0..255
      BY <1>3, BytesAre
    <3> QED
      BY <1>2, <2>1, <3>1
  <2>3. 3 \in Int /\ h - 2 \in Int
    BY <1>2, <2>1
  <2> DEFINE u == SubSeq(body, 3, h - 2)
  <2>4. u \in Seq(0..255) /\ Len(u) = (IF 3 <= h - 2 THEN h - 2 - 3 + 1 ELSE 0)
        /\ \A i \in 1..h - 2 - 3 + 1 : u[i] = body[3 + i - 1]
    BY <2>2, <2>3, SubSeqProperties
  <2> HIDE DEF u
  <2>5. TargetOf(body) = u
    BY <1>4 DEF u
  <2> QED
    BY <2>4, <2>5 DEF Bytes
<1>8. ASSUME \A i \in 1..L : t[i] # UpperH, L + 4 <= PeekSize
      PROVE  h # 0 /\ TargetOf(body) = t
  <2>1. ASSUME NEW j \in 3..(L + 3) PROVE body[j] # UpperH
    <3>1. CASE j = L + 3
      BY <1>3, <1>8, <3>1 DEF Space, UpperH
    <3>2. CASE j # L + 3
      <4>1. PICK i \in 1..L : j = i + 2
        <5>1. j - 2 \in 1..L /\ j = (j - 2) + 2
          BY <1>1, <3>2
        <5> QED
          BY <5>1
      <4> QED
        BY <1>3, <1>8, <4>1
    <3> QED
      BY <3>1, <3>2
  <2>2. L + 4 \in 3..Len(body) /\ body[L + 4] = UpperH
    BY <1>1, <1>2, <1>3, <1>8
  <2>3. h = L + 4
    <3>1. h # 0 /\ h <= L + 4 /\ h \in 3..PeekSize /\ body[h] = UpperH
      BY <1>3, <1>5, <2>2
    <3>2. h \notin 3..(L + 3)
      BY <2>1, <3>1
    <3> QED
      BY <1>1, <1>2, <3>1, <3>2
  <2>4. /\ h - 2 - 3 + 1 = L /\ 3 <= h - 2
        /\ \A i \in 1..L : 3 + i - 1 = i + 2
    BY <1>1, <2>3
  <2> DEFINE u == TargetOf(body)
  <2>5. u \in Bytes /\ Len(u) = L
        /\ \A i \in 1..L : u[i] = body[3 + i - 1]
    BY <1>1, <1>7, <2>3, <2>4
  <2> HIDE DEF u
  <2>6. \A i \in 1..L : u[i] = t[i]
    BY <1>3, <1>8, <2>4, <2>5
  <2>7. u = t
    BY <1>1, <2>5, <2>6, SeqEqual DEF Bytes, L
  <2>8. h # 0
    BY <1>1, <2>3
  <2> QED
    BY <2>7, <2>8 DEF u
<1> QED
  BY <1>6, <1>7, <1>8 DEF body, L

---------------------------------------------------------------------------
(* The invariant.                                                          *)

LEMMA SliceOfBytes ==
  ASSUME NEW s \in Bytes, NEW m \in Nat \ {0}, NEW n \in 0..Len(s)
  PROVE  SubSeq(s, m, n) \in Bytes
<1>1. Len(s) \in Nat /\ \A i \in 1..Len(s) : s[i] \in 0..255
  BY BytesAre
<1>2. \A i \in m..n : i \in 1..Len(s)
  BY <1>1
<1>3. \A i \in m..n : s[i] \in 0..255
  BY <1>1, <1>2
<1>4. m \in Int /\ n \in Int
  BY <1>1
<1> QED
  BY <1>3, <1>4, SubSeqProperties DEF Bytes

LEMMA SplitTyped ==
  ASSUME NEW url \in Bytes, Len(url) >= 2
  PROVE  ServiceAndUrl(url).service \in Bytes /\ ServiceAndUrl(url).url \in Bytes
<1> DEFINE path == SubSeq(url, 1, Len(url) - 1)
           p == Find(path, Slash, 2)
<1>1. path \in Bytes /\ Len(path) \in Nat
  <2>1. Len(url) - 1 \in 0..Len(url) /\ 1 \in Nat \ {0}
    BY BytesAre
  <2>2. path \in Bytes
    BY <2>1, SliceOfBytes
  <2> QED
    BY <2>2, BytesAre
<1>2. p = 0 \/ p \in 2..Len(path)
  <2>1. Len(path) \in Nat /\ 2 \in Nat \ {0}
    BY <1>1
  <2> HIDE DEF path
  <2> QED
    BY <2>1, FindIsFirst
<1>3. <<Slash>> \in Bytes
  BY DEF Bytes, Slash
<1>4. ServiceAndUrl(url) =
        IF path = <<Slash>> THEN [service |-> <<Slash>>, url |-> <<Slash>>]
        ELSE IF p = 0
        THEN [service |-> <<Slash>>, url |-> SubSeq(path, 2, Len(path))]
        ELSE [service |-> SubSeq(path, 2, p - 1), url |-> SubSeq(path, p, Len(path))]
  BY DEF ServiceAndUrl, SplitAt, WithoutLast
<1> HIDE DEF path, p
<1>5. ASSUME NEW m \in Nat \ {0}, NEW n \in 0..Len(path)
      PROVE  SubSeq(path, m, n) \in Bytes
  BY <1>1, SliceOfBytes
<1>6. CASE path = <<Slash>>
  BY <1>3, <1>4, <1>6
<1>7. CASE path # <<Slash>> /\ p = 0
  <2>1. 2 \in Nat \ {0} /\ Len(path) \in 0..Len(path)
    BY <1>1
  <2>2. SubSeq(path, 2, Len(path)) \in Bytes
    BY <1>5, <2>1
  <2> QED
    BY <1>3, <1>4, <1>7, <2>2
<1>8. CASE path # <<Slash>> /\ p # 0
  <2>1. /\ p \in Nat \ {0} /\ 2 \in Nat \ {0}
        /\ p - 1 \in 0..Len(path) /\ Len(path) \in 0..Len(path)
    BY <1>1, <1>2, <1>8
  <2>2. SubSeq(path, 2, p - 1) \in Bytes /\ SubSeq(path, p, Len(path)) \in Bytes
    BY <1>5, <2>1
  <2> QED
    BY <1>4, <1>8, <2>2
<1> QED
  BY <1>6, <1>7, <1>8

\* A decoded path is at least a terminator.
Decoded == stage = "headers" => Len(request_path) >= 1

IInv ==
  /\ TypeOK /\ Decoded /\ DecodesPath
  /\ StaysBelowRoot /\ SplitRecomposes /\ RedirectKeepsTarget

LEMMA InitIInv == Init => IInv
<1> SUFFICES ASSUME Init PROVE IInv
  OBVIOUS
<1>1. <<>> \in Bytes /\ NUL \in 0..255
  BY EmptySeq DEF Bytes, NUL
<1>2. TypeOK
  BY <1>1 DEF Init, TypeOK
<1> QED
  BY <1>2 DEF Init, IInv, Decoded, DecodesPath, StaysBelowRoot,
              SplitRecomposes, RedirectKeepsTarget

LEMMA OnHeaderIInv ==
  ASSUME IInv, NEW v \in Path, NEW b \in Beyond, OnHeader(v, b)
  PROVE  IInv'
<1> DEFINE path == PercentDecode(v \o <<NUL, b>>, PathLen(v))
           r == SubSeq(v, 1, PathLen(v))
<1>1. /\ v \in Bytes /\ Len(v) \in Nat /\ PathLen(v) \in 0..Len(v)
      /\ b \in 0..255
  BY PathShape, RouterAssumption
<1>2. /\ path \in Bytes /\ Len(path) = PathLen(v) + 1
      /\ path[Len(path)] = NUL
      /\ ~(Len(r) = 3 /\ IsEscape(r, 1))
         /\ (PathLen(v) = Len(v) \/ NoEscapeAtEnd(r)) =>
           CString(path) = CString(Reference(r))
  BY DecodedPath
<1>3. /\ stage' = "headers" /\ value' = v /\ beyond' = b
      /\ request_path' = path
      /\ UNCHANGED <<service_name, url_path, location>>
  BY DEF OnHeader
<1> HIDE DEF path
<1>4. TypeOK'
  BY <1>1, <1>2, <1>3 DEF IInv, TypeOK
<1>5. Decoded'
  BY <1>1, <1>2, <1>3 DEF Decoded
<1>6. DecodesPath'
  <2>1. RequestPath' = r
    BY <1>3 DEF RequestPath
  <2>2. Len(r) = PathLen(v)
    BY <1>1 DEF Bytes
  <2>3. ~EscapeAtEnd' => NoEscapeAtEnd(r)
    <3> SUFFICES ASSUME ~EscapeAtEnd', NEW i \in 1..Len(r), IsEscape(r, i)
                 PROVE  i + 3 < Len(r)
      BY DEF NoEscapeAtEnd
    <3>1. ~(i + 3 >= Len(r))
      BY <2>1 DEF EscapeAtEnd
    <3> HIDE DEF r
    <3> QED
      BY <1>1, <2>2, <3>1
  <2>4. LoneEscape' <=> Len(r) = 3 /\ IsEscape(r, 1)
    BY <2>1 DEF LoneEscape
  <2> QED
    BY <1>2, <1>3, <2>1, <2>3, <2>4 DEF DecodesPath
<1>7. StaysBelowRoot' /\ SplitRecomposes' /\ RedirectKeepsTarget'
  BY <1>3 DEF StaysBelowRoot, SplitRecomposes, RedirectKeepsTarget
<1> QED
  BY <1>4, <1>5, <1>6, <1>7 DEF IInv

LEMMA RouteIInv ==
  ASSUME IInv, Route
  PROVE  IInv'
<1>1. /\ request_path \in Bytes /\ Len(request_path) >= 2
      /\ CheckPath(request_path)
  <2>1. /\ stage = "headers" /\ request_path \in Bytes
        /\ CheckPath(request_path) /\ Len(request_path) >= 1
        /\ request_path[Len(request_path)] = NUL
    BY DEF Route, IInv, Decoded, TypeOK
  <2>2. request_path[1] # NUL /\ Len(request_path) \in Nat
    BY <2>1, BytesAre DEF CheckPath, Slash, NUL
  <2>3. Len(request_path) # 1
    BY <2>1, <2>2
  <2> QED
    BY <2>1, <2>2, <2>3
<1>2. /\ stage' = "routed" /\ request_path' = request_path
      /\ service_name' = ServiceAndUrl(request_path).service
      /\ url_path' = ServiceAndUrl(request_path).url
      /\ UNCHANGED <<value, beyond, location>>
  BY DEF Route
<1>3. service_name' \in Bytes /\ url_path' \in Bytes
  BY <1>1, <1>2, SplitTyped
<1>4. TypeOK'
  BY <1>2, <1>3 DEF IInv, TypeOK, Route, PathLen
<1>5. /\ NoHiddenSegment(service_name') /\ NoHiddenSegment(url_path')
      /\ Recomposed(SubSeq(request_path', 1, Len(request_path') - 1),
                    service_name', url_path')
  BY <1>1, <1>2, AcceptedPath DEF Bytes
<1>6. StaysBelowRoot' /\ SplitRecomposes'
  BY <1>2, <1>5 DEF StaysBelowRoot, SplitRecomposes, WithoutLast,
                    NoHiddenSegment, Recomposed
<1>7. Decoded' /\ DecodesPath' /\ RedirectKeepsTarget'
  BY <1>2 DEF Decoded, DecodesPath, RedirectKeepsTarget
<1> QED
  BY <1>4, <1>6, <1>7 DEF IInv

LEMMA PlainRequestIInv ==
  ASSUME IInv, NEW target \in Target, PlainRequest(target)
  PROVE  IInv'
<1> DEFINE body == Peeked(target)
           found == Find(body, UpperH, Find(body, Slash, 1))
           kept == (\A i \in 1..Len(target) : target[i] # UpperH)
                   /\ Len(target) + 4 <= PeekSize
<1>1. target \in Bytes /\ Len(target) \in Nat /\ PeekSize \in Nat
  BY TargetShape, RouterAssumption
<1>2. /\ found # 0 => TargetOf(body) \in Bytes
      /\ kept => found # 0 /\ TargetOf(body) = target
  BY TargetOfPeeked
<1>3. /\ value' = target
      /\ IF found = 0
         THEN stage' = "terminated" /\ UNCHANGED location
         ELSE /\ stage' = "redirected"
              /\ location' = IF TargetOf(body) = <<Slash>> THEN <<>>
                             ELSE TargetOf(body)
      /\ UNCHANGED <<beyond, request_path, service_name, url_path>>
  BY DEF PlainRequest
<1> HIDE DEF body, found, kept
<1>4. stage' \in {"redirected", "terminated"}
  BY <1>3
<1>5. location' \in Bytes
  <2>1. <<>> \in Bytes /\ location \in Bytes
    BY EmptySeq DEF Bytes, IInv, TypeOK
  <2> QED
    BY <1>2, <1>3, <2>1
<1>6. TypeOK'
  BY <1>1, <1>3, <1>4, <1>5 DEF IInv, TypeOK
<1>7. RedirectKeepsTarget'
  <2>1. CASE kept
    BY <1>2, <1>3, <2>1 DEF RedirectKeepsTarget
  <2>2. CASE ~kept
    <3>1. (\E i \in 1..Len(target) : target[i] = UpperH)
          \/ Len(target) + 4 > PeekSize
      BY <1>1, <2>2 DEF kept
    <3> QED
      BY <1>3, <3>1 DEF RedirectKeepsTarget
  <2> QED
    BY <2>1, <2>2
<1>8. Decoded' /\ DecodesPath' /\ StaysBelowRoot' /\ SplitRecomposes'
  BY <1>4 DEF Decoded, DecodesPath, StaysBelowRoot, SplitRecomposes
<1> QED
  BY <1>6, <1>7, <1>8 DEF IInv

LEMMA NextIInv == IInv /\ [Next]_vars => IInv'
<1> SUFFICES ASSUME IInv, [Next]_vars PROVE IInv'
  OBVIOUS
<1>1. ASSUME NEW v \in Path, NEW b \in Beyond, OnHeader(v, b) PROVE IInv'
  BY <1>1, OnHeaderIInv
<1>2. CASE Reject
  <2>1. TypeOK'
    BY <1>2 DEF Reject, IInv, TypeOK, PathLen
  <2> QED
    BY <1>2, <2>1 DEF Reject, IInv, Decoded, DecodesPath, StaysBelowRoot,
                      SplitRecomposes, RedirectKeepsTarget
<1>3. CASE Route
  BY <1>3, RouteIInv
<1>4. ASSUME NEW target \in Target, PlainRequest(target) PROVE IInv'
  BY <1>4, PlainRequestIInv
<1>5. CASE Overrun
  <2>1. TypeOK'
    BY <1>5 DEF Overrun, IInv, TypeOK, PathLen
  <2> QED
    BY <1>5, <2>1 DEF Overrun, IInv, Decoded, DecodesPath, StaysBelowRoot,
                      SplitRecomposes, RedirectKeepsTarget
<1>6. CASE UNCHANGED vars
  BY <1>6 DEF vars, IInv, TypeOK, Decoded, DecodesPath, RequestPath, LoneEscape,
              EscapeAtEnd, StaysBelowRoot, SplitRecomposes, RedirectKeepsTarget
<1> QED
  BY <1>1, <1>2, <1>3, <1>4, <1>5, <1>6 DEF Next

\* Strings stay strings of bytes, and a decoded path has one byte more than
\* the library gave, the last of them a terminator (percent_decode).
THEOREM TypeCorrect == Spec => []TypeOK
<1>1. IInv => TypeOK
  BY DEF IInv
<1>2. QED
  BY InitIInv, NextIInv, <1>1, PTL DEF Spec

\* percent_decode's loop, with its early end and its two copied bytes,
\* yields what the reference does as far as the file system sees, for paths
\* of any length and whatever follows them in memory, a path of one escape
\* and escapes before a query excepted.
THEOREM DecodedAsReference == Spec => []DecodesPath
<1>1. IInv => DecodesPath
  BY DEF IInv
<1>2. QED
  BY InitIInv, NextIInv, <1>1, PTL DEF Spec

\* A plain request is redirected to the target it asked for (session::run).
THEOREM RedirectsToTarget == Spec => []RedirectKeepsTarget
<1>1. IInv => RedirectKeepsTarget
  BY DEF IInv
<1>2. QED
  BY InitIInv, NextIInv, <1>1, PTL DEF Spec

\* No accepted path has a segment that starts with a dot, in the service or
\* in the url, whatever percent_decode made of it (check_path), for every
\* path whose copies end inside the strings' memory, whatever that holds.
\* Of a longer path behind a second slash nothing is claimed.
THEOREM AcceptedStaysBelow == Spec => []StaysBelowRoot
<1>1. IInv => StaysBelowRoot
  BY DEF IInv
<1>2. QED
  BY InitIInv, NextIInv, <1>1, PTL DEF Spec

\* Service and url put together are the path, for every path whose copies
\* end inside the strings' memory (get_service_and_url_path).
THEOREM NothingLost == Spec => []SplitRecomposes
<1>1. IInv => SplitRecomposes
  BY DEF IInv
<1>2. QED
  BY InitIInv, NextIInv, <1>1, PTL DEF Spec
=============================================================================
