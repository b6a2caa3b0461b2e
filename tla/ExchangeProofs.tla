--------------------------- MODULE ExchangeProofs ---------------------------
(***************************************************************************)
(* What the peer of a connection sees is an Exchange.                      *)
(*                                                                         *)
(* The argument has two halves.  ExchangeInv says of each stream what its  *)
(* frames in the log are: the status first and once, then a body that adds *)
(* up to what the callback read, then nothing after the last.  Most of it  *)
(* is shown for one frame staged at the log's end (FrameCounted,           *)
(* FrameElsewhere).  And the wire is a prefix of the log (OnWire), so what *)
(* the peer has of a stream is the sum over that prefix: it changes only   *)
(* when the next frame of the log arrives, by what that frame carries      *)
(* (Arrives), which is the step of Exchange its kind names (ArrivalStep).  *)
(* Sums are a recursive function, whose equations SumStep gives for every  *)
(* length.                                                                 *)
(***************************************************************************)
EXTENDS ConnectionProofs, WellFoundedInduction

-----------------------------------------------------------------------------
(* Sums.                                                                   *)

NatLess == {p \in Nat \X Nat : p[1] < p[2]}

\* Induction, over a set.
LEMMA NatSetInduction ==
  ASSUME NEW T, 0 \in T, \A n \in Nat : n \in T => n + 1 \in T
  PROVE  Nat \subseteq T
<1>1. IsWellFoundedOn(NatLess, Nat)
  BY NatLessThanWellFounded DEF OpToRel, NatLess
<1> SUFFICES ASSUME Nat \ T # {} PROVE FALSE
  OBVIOUS
<1>2. Nat \ T \subseteq Nat
  OBVIOUS
<1>3. PICK x \in Nat \ T : \A y \in Nat \ T : <<y, x>> \notin NatLess
  BY <1>1, <1>2, WFMin
<1>4. x \in Nat /\ x - 1 \in Nat /\ (x - 1) + 1 = x
  <2>1. x \in Nat /\ x # 0
    BY <1>3
  <2> QED
    BY <2>1
<1>5. x - 1 \in T
  <2>1. <<x - 1, x>> \in NatLess
    BY <1>4 DEF NatLess
  <2> QED
    BY <1>3, <1>4, <2>1
<1>6. x \in T
  <2>1. (x - 1) + 1 \in T
    BY <1>4, <1>5
  <2> QED
    BY <1>4, <2>1
<1> QED
  BY <1>3, <1>6

SumOf(v, n, f) == f = [i \in 0..n |-> IF i = 0 THEN 0 ELSE f[i - 1] + v[i]]

LEMMA SumExists ==
  ASSUME NEW v, NEW n \in Nat
  PROVE  \E f : SumOf(v, n, f)
<1> DEFINE T == {m \in Nat : \E f : SumOf(v, m, f)}
<1>1. 0 \in T
  <2>1. SumOf(v, 0, [i \in 0..0 |-> 0])
    BY DEF SumOf
  <2> QED
    BY <2>1
<1>2. ASSUME NEW m \in Nat, m \in T
      PROVE  m + 1 \in T
  <2>1. PICK f : SumOf(v, m, f)
    BY <1>2
  <2> DEFINE g == [i \in 0..(m + 1) |-> IF i = m + 1 THEN f[m] + v[m + 1] ELSE f[i]]
  <2>2. \A i \in 0..(m + 1) : g[i] = IF i = 0 THEN 0 ELSE g[i - 1] + v[i]
    BY <2>1 DEF SumOf
  <2>3. SumOf(v, m + 1, g)
    BY <2>2 DEF SumOf
  <2> QED
    BY <2>3
<1> HIDE DEF T
<1>3. Nat \subseteq T
  BY <1>1, <1>2, NatSetInduction
<1> QED
  BY <1>3 DEF T

LEMMA SumAgrees ==
  ASSUME NEW v, NEW m \in Nat, NEW n \in Nat, NEW f, NEW g,
         SumOf(v, m, f), SumOf(v, n, g)
  PROVE  \A i \in Nat : i <= m /\ i <= n => f[i] = g[i]
<1> DEFINE T == {i \in Nat : i <= m /\ i <= n => f[i] = g[i]}
<1>1. 0 \in T
  BY DEF SumOf
<1>2. ASSUME NEW i \in Nat, i \in T
      PROVE  i + 1 \in T
  <2> SUFFICES ASSUME i + 1 <= m, i + 1 <= n PROVE f[i + 1] = g[i + 1]
    OBVIOUS
  <2>1. f[i] = g[i]
    BY <1>2
  <2>2. f[i + 1] = f[i] + v[i + 1] /\ g[i + 1] = g[i] + v[i + 1]
    BY DEF SumOf
  <2> QED
    BY <2>1, <2>2
<1> HIDE DEF T
<1>3. Nat \subseteq T
  BY <1>1, <1>2, NatSetInduction
<1> QED
  BY <1>3 DEF T

LEMMA SumIs ==
  ASSUME NEW v, NEW n \in Nat
  PROVE  \E f : SumOf(v, n, f) /\ SumTo(v, n) = f[n]
<1> DEFINE sum == CHOOSE f : SumOf(v, n, f)
<1>1. SumOf(v, n, sum)
  BY SumExists
<1>2. SumTo(v, n) = sum[n]
  BY DEF SumTo, SumOf
<1> QED
  BY <1>1, <1>2

\* The equations that define the sum.
LEMMA SumStep ==
  ASSUME NEW v
  PROVE  /\ SumTo(v, 0) = 0
         /\ \A n \in Nat : SumTo(v, n + 1) = SumTo(v, n) + v[n + 1]
<1>1. SumTo(v, 0) = 0
  <2>1. PICK f : SumOf(v, 0, f) /\ SumTo(v, 0) = f[0]
    BY SumIs
  <2> QED
    BY <2>1 DEF SumOf
<1>2. ASSUME NEW n \in Nat
      PROVE  SumTo(v, n + 1) = SumTo(v, n) + v[n + 1]
  <2>1. PICK f : SumOf(v, n, f) /\ SumTo(v, n) = f[n]
    BY SumIs
  <2>2. PICK g : SumOf(v, n + 1, g) /\ SumTo(v, n + 1) = g[n + 1]
    BY SumIs
  <2>3. f[n] = g[n]
    BY <2>1, <2>2, SumAgrees
  <2>4. g[n + 1] = g[n] + v[n + 1]
    BY <2>2 DEF SumOf
  <2> QED
    BY <2>1, <2>2, <2>3, <2>4
<1> QED
  BY <1>1, <1>2

LEMMA SumLast ==
  ASSUME NEW v, NEW k \in Nat, NEW n, n = k + 1
  PROVE  SumTo(v, n) = SumTo(v, k) + v[n]
  BY SumStep

LEMMA SumNat ==
  ASSUME NEW v, NEW n \in Nat, \A i \in 1..n : v[i] \in Nat
  PROVE  \A m \in Nat : m <= n => SumTo(v, m) \in Nat
<1> DEFINE T == {m \in Nat : m <= n => SumTo(v, m) \in Nat}
<1>1. 0 \in T
  BY SumStep
<1>2. ASSUME NEW m \in Nat, m \in T
      PROVE  m + 1 \in T
  <2> SUFFICES ASSUME m + 1 <= n PROVE SumTo(v, m + 1) \in Nat
    OBVIOUS
  <2>1. SumTo(v, m) \in Nat /\ v[m + 1] \in Nat
    BY <1>2
  <2>2. SumTo(v, m + 1) = SumTo(v, m) + v[m + 1]
    BY SumStep
  <2> QED
    BY <2>1, <2>2
<1> HIDE DEF T
<1>3. Nat \subseteq T
  BY <1>1, <1>2, NatSetInduction
<1> QED
  BY <1>3 DEF T

\* What comes after m only adds, and adds nothing if it is zero.
LEMMA SumGrows ==
  ASSUME NEW v, NEW n \in Nat, \A i \in 1..n : v[i] \in Nat,
         NEW m \in Nat, m <= n
  PROVE  /\ SumTo(v, m) <= SumTo(v, n)
         /\ (\A i \in (m + 1)..n : v[i] = 0) => SumTo(v, n) = SumTo(v, m)
<1> DEFINE T == {k \in Nat : m <= k /\ k <= n =>
                   /\ SumTo(v, m) <= SumTo(v, k)
                   /\ (\A i \in (m + 1)..k : v[i] = 0) =>
                        SumTo(v, k) = SumTo(v, m)}
<1>1. 0 \in T
  BY SumStep
<1>2. ASSUME NEW k \in Nat, k \in T
      PROVE  k + 1 \in T
  <2> SUFFICES ASSUME m <= k + 1, k + 1 <= n
               PROVE  /\ SumTo(v, m) <= SumTo(v, k + 1)
                      /\ (\A i \in (m + 1)..(k + 1) : v[i] = 0) =>
                           SumTo(v, k + 1) = SumTo(v, m)
    OBVIOUS
  <2>1. /\ SumTo(v, m) \in Nat /\ SumTo(v, k) \in Nat
        /\ v[k + 1] \in Nat
        /\ SumTo(v, k + 1) = SumTo(v, k) + v[k + 1]
    BY SumNat, SumStep
  <2>2. CASE m = k + 1
    BY <2>1, <2>2
  <2>3. CASE m <= k
    BY <1>2, <2>1, <2>3
  <2> QED
    BY <2>2, <2>3
<1> HIDE DEF T
<1>3. Nat \subseteq T
  BY <1>1, <1>2, NatSetInduction
<1> QED
  BY <1>3 DEF T

LEMMA SumSame ==
  ASSUME NEW v, NEW w, NEW n \in Nat, \A i \in 1..n : v[i] = w[i]
  PROVE  SumTo(v, n) = SumTo(w, n)
<1> DEFINE T == {m \in Nat : m <= n => SumTo(v, m) = SumTo(w, m)}
<1>1. 0 \in T
  BY SumStep
<1>2. ASSUME NEW m \in Nat, m \in T
      PROVE  m + 1 \in T
  <2> SUFFICES ASSUME m + 1 <= n PROVE SumTo(v, m + 1) = SumTo(w, m + 1)
    OBVIOUS
  <2>1. SumTo(v, m) = SumTo(w, m) /\ v[m + 1] = w[m + 1]
    BY <1>2
  <2>2. /\ SumTo(v, m + 1) = SumTo(v, m) + v[m + 1]
        /\ SumTo(w, m + 1) = SumTo(w, m) + w[m + 1]
    BY SumStep
  <2> QED
    BY <2>1, <2>2
<1> HIDE DEF T
<1>3. Nat \subseteq T
  BY <1>1, <1>2, NatSetInduction
<1> QED
  BY <1>3 DEF T

-----------------------------------------------------------------------------
(* The log, stream by stream.                                              *)

Body == {"DATA", "END"}
Last == {"END", "RST"}
Kinds == {"HEADERS"} \cup Body \cup Last

\* Places in the log of the stream's frames of the given kinds, and what each
\* place of the log adds to them.
Staged(s, kinds) ==
  {n \in 1..Len(frames) : frames[n].kind \in kinds /\ frames[n].stream = s}

Values(s, kinds) ==
  [n \in 1..Len(frames) |-> IF n \in Staged(s, kinds) THEN frames[n].value ELSE 0]

\* The status is staged once, when the library sends it, and before the body.
HeadFirst(s) ==
  IF answer[s] \in {"data", "done"}
  THEN \E n \in 1..Len(frames) :
         /\ Staged(s, {"HEADERS"}) = {n}
         /\ frames[n].value \in {200, 404}
         /\ \A m \in Staged(s, Body) : n < m
  ELSE Staged(s, {"HEADERS"}) = {} /\ Staged(s, Body) = {}

NothingAfterLast(s) ==
  \A n \in Staged(s, Last), m \in Staged(s, Kinds) : m <= n

\* What was staged of a body is what the callback read of it.
BodyLogged(s) ==
  /\ SumTo(Values(s, Body), Len(frames)) = body[s]
  /\ body[s] <= total[s] /\ total[s] <= MaxFileLen + ErrorLen

\* How far the library is with a stream.
Progress(s) ==
  /\ Staged(s, Last) # {} => lib[s] = "closed"
  /\ Staged(s, {"END"}) # {} => answer[s] = "done"
  /\ answer[s] # "none" => status[s] # 0 /\ lib[s] \in {"remote", "closed"}
  /\ answer[s] # "none" \/ lib[s] = "remote" => s \in asked

StreamLog(s) ==
  HeadFirst(s) /\ NothingAfterLast(s) /\ BodyLogged(s) /\ Progress(s)

ExchangeInv == \A s \in Stream : StreamLog(s)

-----------------------------------------------------------------------------
(* One frame is staged.                                                    *)

LEMMA ValuesNat ==
  ASSUME LogInv, NEW s \in Stream, NEW kinds \in SUBSET Kinds
  PROVE  /\ Len(frames) \in Nat
         /\ \A n \in 1..Len(frames) : Values(s, kinds)[n] \in Nat
         /\ \A n \in Staged(s, kinds) : frames[n].value \in Nat
<1>1. Len(frames) \in Nat /\ \A n \in 1..Len(frames) : frames[n] \in Frame
  BY DEF LogInv
<1>2. \A n \in Staged(s, kinds) : frames[n].value \in Nat
  BY <1>1 DEF Staged, Frame, Kinds, Body, Last
<1> QED
  BY <1>1, <1>2 DEF Values

\* The stream's own frames get it if it is of the kinds asked for, and no
\* other stream's do.
LEMMA FrameStaged ==
  ASSUME LogInv, NEW f \in Frame, SendFrame(f),
         NEW s \in Stream, NEW kinds \in SUBSET Kinds
  PROVE  LET mine == f.kind \in kinds /\ f.stream = s IN
         /\ Len(frames') = Len(frames) + 1
         /\ frames'[Len(frames) + 1] = f
         /\ \A n \in 1..Len(frames) : frames'[n] = frames[n]
         /\ Staged(s, kinds)' =
              Staged(s, kinds) \cup (IF mine THEN {Len(frames) + 1} ELSE {})
         /\ \A n \in 1..Len(frames) :
              Values(s, kinds)'[n] = Values(s, kinds)[n]
         /\ SumTo(Values(s, kinds)', Len(frames')) =
              SumTo(Values(s, kinds), Len(frames))
                + (IF mine THEN f.value ELSE 0)
<1> DEFINE mine == f.kind \in kinds /\ f.stream = s
           N == Len(frames)
<1>1. /\ Len(frames') = N + 1 /\ N \in Nat
      /\ frames'[N + 1] = f
      /\ \A n \in 1..N : frames'[n] = frames[n]
  BY DEF SendFrame, LogInv
<1>2. Staged(s, kinds)' =
        Staged(s, kinds) \cup (IF mine THEN {N + 1} ELSE {})
  BY <1>1 DEF Staged
<1>3. \A n \in 1..N : Values(s, kinds)'[n] = Values(s, kinds)[n]
  BY <1>1, <1>2 DEF Values
<1>4. Values(s, kinds)'[N + 1] = IF mine THEN f.value ELSE 0
  <2>1. N + 1 \in Staged(s, kinds)' <=> mine
    BY <1>1 DEF Staged
  <2> QED
    BY <1>1, <2>1 DEF Values
<1>5. SumTo(Values(s, kinds)', N + 1) =
        SumTo(Values(s, kinds), N) + (IF mine THEN f.value ELSE 0)
  <2> DEFINE v == Values(s, kinds)
             w == Values(s, kinds)'
  <2> HIDE DEF v, w
  <2>1. SumTo(w, N + 1) = SumTo(w, N) + w[N + 1]
    BY <1>1, SumStep
  <2>2. SumTo(w, N) = SumTo(v, N)
    BY <1>1, <1>3, SumSame DEF v, w
  <2> QED
    BY <1>4, <2>1, <2>2 DEF v, w
<1> QED
  BY <1>1, <1>2, <1>3, <1>5

LEMMA KindSets ==
  /\ Body \in SUBSET Kinds /\ Last \in SUBSET Kinds
  /\ {"HEADERS"} \in SUBSET Kinds /\ {"END"} \in SUBSET Kinds
  /\ {"END"} \subseteq Body /\ {"END"} \subseteq Last
BY DEF Kinds, Body, Last

LEMMA FrameCounted ==
  ASSUME LogInv, NEW f \in Frame, SendFrame(f), NEW s \in Stream,
         NEW kinds \in SUBSET Kinds, f.kind \in kinds, f.stream = s
  PROVE  /\ Staged(s, kinds)' = Staged(s, kinds) \cup {Len(frames) + 1}
         /\ SumTo(Values(s, kinds)', Len(frames) + 1) =
              SumTo(Values(s, kinds), Len(frames)) + f.value
<1>1. (f.kind \in kinds /\ f.stream = s) = TRUE
  OBVIOUS
<1> QED
  BY <1>1, FrameStaged

LEMMA FrameElsewhere ==
  ASSUME LogInv, NEW f \in Frame, SendFrame(f), NEW s \in Stream,
         NEW kinds \in SUBSET Kinds, f.kind \notin kinds \/ f.stream # s
  PROVE  /\ Staged(s, kinds)' = Staged(s, kinds)
         /\ SumTo(Values(s, kinds)', Len(frames) + 1) =
              SumTo(Values(s, kinds), Len(frames))
<1> DEFINE v == Values(s, kinds)
           n == Len(frames)
<1>1. (f.kind \in kinds /\ f.stream = s) = FALSE
  OBVIOUS
<1>2. /\ Staged(s, kinds)' = Staged(s, kinds) \cup {}
      /\ SumTo(Values(s, kinds)', n + 1) = SumTo(v, n) + 0
  <2>1. /\ Len(frames') = n + 1
        /\ Staged(s, kinds)' = Staged(s, kinds) \cup
             (IF f.kind \in kinds /\ f.stream = s THEN {n + 1} ELSE {})
        /\ SumTo(Values(s, kinds)', Len(frames')) =
             SumTo(v, n)
               + (IF f.kind \in kinds /\ f.stream = s THEN f.value ELSE 0)
    BY FrameStaged
  <2> QED
    BY <1>1, <2>1
<1>3. n \in Nat /\ \A i \in 1..n : v[i] \in Nat
  BY ValuesNat
<1> HIDE DEF v, n
<1>4. SumTo(v, n) \in Nat
  BY <1>3, SumNat
<1> QED
  BY <1>2, <1>4 DEF v, n

\* A frame of another stream, or of the connection, changes nothing for s.
SameStream(s) ==
  /\ lib'[s] = lib[s] /\ answer'[s] = answer[s] /\ status'[s] = status[s]
  /\ total'[s] = total[s] /\ body'[s] = body[s]
  /\ s \in asked => s \in asked'

LEMMA StreamUndisturbed ==
  ASSUME NEW s \in Stream, StreamLog(s), UNCHANGED frames, SameStream(s)
  PROVE  StreamLog(s)'
<1>1. /\ \A kinds : Staged(s, kinds)' = Staged(s, kinds)
      /\ Values(s, Body)' = Values(s, Body)
  BY DEF Staged, Values
<1>2. HeadFirst(s)' /\ NothingAfterLast(s)'
  BY <1>1 DEF StreamLog, HeadFirst, NothingAfterLast, SameStream
<1>3. BodyLogged(s)'
  BY <1>1 DEF StreamLog, BodyLogged, SameStream
<1>4. Progress(s)'
  BY <1>1 DEF StreamLog, Progress, SameStream
<1> QED
  BY <1>2, <1>3, <1>4 DEF StreamLog

LEMMA OtherFrame ==
  ASSUME LogInv, NEW s \in Stream, StreamLog(s), SameStream(s),
         NEW f \in Frame, SendFrame(f), f.kind \in Kinds => f.stream # s
  PROVE  StreamLog(s)'
<1>1. \A kinds \in SUBSET Kinds : f.kind \notin kinds \/ f.stream # s
  OBVIOUS
<1>2. \A kinds \in SUBSET Kinds : Staged(s, kinds)' = Staged(s, kinds)
  BY <1>1, FrameElsewhere
<1>3. /\ SumTo(Values(s, Body)', Len(frames')) =
           SumTo(Values(s, Body), Len(frames))
      /\ \A n \in 1..Len(frames) : frames'[n] = frames[n]
      /\ Len(frames') = Len(frames) + 1
      /\ Len(frames) \in Nat
  <2>1. /\ \A n \in 1..Len(frames) : frames'[n] = frames[n]
        /\ Len(frames') = Len(frames) + 1
        /\ Len(frames) \in Nat
    BY FrameStaged, ValuesNat, KindSets
  <2> QED
    BY <1>1, <2>1, FrameElsewhere, KindSets
<1>4. HeadFirst(s)'
  BY <1>2, <1>3, KindSets DEF StreamLog, HeadFirst, SameStream
<1>5. NothingAfterLast(s)'
  BY <1>2, KindSets DEF StreamLog, NothingAfterLast
<1>6. BodyLogged(s)'
  BY <1>3 DEF StreamLog, BodyLogged, SameStream
<1>7. Progress(s)'
  BY <1>2, KindSets DEF StreamLog, Progress, SameStream
<1> QED
  BY <1>4, <1>5, <1>6, <1>7 DEF StreamLog

-----------------------------------------------------------------------------
(* What the callbacks do to a stream.                                      *)

LEMMA StreamTypes ==
  ASSUME Inherited
  PROVE  /\ lib \in [Stream -> {"idle", "headers", "open", "remote",
                                "invalid", "closed"}]
         /\ answer \in [Stream -> {"none", "headers", "data", "done"}]
         /\ status \in [Stream -> {0, 200, 404}]
         /\ total \in [Stream -> Nat] /\ body \in [Stream -> Nat]
BY DEF Inherited, HP!IInv, HP!TypeOK, HP!Active

\* The parser opens a stream, and closes, refuses or completes its request; it
\* submits a response only as it completes a request.
ReceiveEffect(s) ==
  /\ UNCHANGED <<frames, total, body>> /\ lib[s] # "closed"
  /\ \/ /\ lib'[s] # "remote" /\ UNCHANGED <<answer, status, asked>>
        /\ lib[s] = "remote" => lib'[s] = "closed"
     \/ /\ lib[s] \in {"headers", "open"} /\ lib'[s] = "remote"
        /\ asked' = asked \cup {s}
        /\ \/ UNCHANGED <<answer, status>>
           \/ answer'[s] = "headers" /\ status'[s] \in {200, 404}

LEMMA Received ==
  ASSUME Inherited, NEW s \in Stream, Receive(s)
  PROVE  ReceiveEffect(s) /\ \A t \in Stream \ {s} : SameStream(t)
<1>1. UNCHANGED frames
  BY DEF Receive
<1>2. asked' = IF lib'[s] = "remote" THEN asked \cup {s} ELSE asked
  BY DEF Receive
<1>3. CASE H!EndStream(s)
  <2>1. /\ UNCHANGED <<total, body>> /\ lib[s] \in {"headers", "open"}
        /\ lib' = [lib EXCEPT ![s] = "remote"] /\ H!OnRequestRecv(s)
    BY <1>3 DEF H!EndStream
  <2>2. \/ UNCHANGED <<answer, status>>
        \/ \E code \in {200, 404} :
             /\ answer' = [answer EXCEPT ![s] = "headers"]
             /\ status' = [status EXCEPT ![s] = code]
    <3> DEFINE Replied(code) ==
          /\ answer' = [answer EXCEPT ![s] = "headers"]
          /\ status' = [status EXCEPT ![s] = code]
    <3>1. \A code, res : H!SendResponse(s, code, res) => Replied(code)
      BY DEF H!SendResponse
    <3>2. H!ErrorReply(s) => Replied(404)
      BY <3>1 DEF H!ErrorReply
    <3>3. \/ UNCHANGED <<answer, status>>
          \/ H!ErrorReply(s)
          \/ \E res : H!SendResponse(s, 200, res)
      BY <2>1, Zenon DEF H!OnRequestRecv
    <3> HIDE DEF Replied
    <3>4. UNCHANGED <<answer, status>> \/ Replied(200) \/ Replied(404)
      BY <3>1, <3>2, <3>3
    <3> QED
      BY <3>4 DEF Replied
  <2> QED
    BY <1>1, <1>2, <2>1, <2>2, StreamTypes DEF ReceiveEffect, SameStream
<1>4. CASE H!OnHeader(s)
  <2>1. UNCHANGED <<lib, answer, status, total, body>> /\ lib[s] = "headers"
    BY <1>4 DEF H!OnHeader, H!libVars, H!history
  <2> QED
    BY <1>1, <1>2, <2>1 DEF ReceiveEffect, SameStream
<1>5. CASE H!OnBeginHeaders(s) \/ H!Refuse(s) \/ H!HeadersInvalid(s)
             \/ H!HeadersEnd(s) \/ H!PeerReset(s)
  <2>1. /\ UNCHANGED <<answer, status, total, body>>
        /\ \E next \in {"headers", "open", "invalid", "closed"} :
             lib' = [lib EXCEPT ![s] = next]
        /\ lib[s] # "closed"
        /\ lib[s] = "remote" => lib' = [lib EXCEPT ![s] = "closed"]
    BY <1>5 DEF H!OnBeginHeaders, H!Refuse, H!HeadersInvalid, H!HeadersEnd,
       H!PeerReset, H!Close, H!history
  <2> QED
    BY <1>1, <1>2, <2>1, StreamTypes DEF ReceiveEffect, SameStream
<1> QED
  BY <1>3, <1>4, <1>5 DEF Receive, H!RecvStep

LEMMA ReceiveStep ==
  ASSUME Inherited, ExchangeInv, NEW s \in Stream, Receive(s)
  PROVE  ExchangeInv'
<1>1. ReceiveEffect(s) /\ \A t \in Stream \ {s} : SameStream(t)
  BY Received
<1>2. UNCHANGED frames
  BY <1>1 DEF ReceiveEffect
<1>3. \A t \in Stream \ {s} : StreamLog(t)'
  BY <1>1, <1>2, StreamUndisturbed DEF ExchangeInv
<1>4. StreamLog(s)'
  <2> USE DEF ReceiveEffect
  <2>1. StreamLog(s)
    BY DEF ExchangeInv
  <2>2. /\ \A kinds : Staged(s, kinds)' = Staged(s, kinds)
        /\ Values(s, Body)' = Values(s, Body)
    BY <1>2 DEF Staged, Values
  <2>3. Staged(s, Last) = {} /\ Staged(s, {"END"}) = {}
    BY <1>1, <2>1 DEF StreamLog, Progress, Staged, Last
  <2>4. \/ answer'[s] = answer[s]
        \/ answer[s] = "none" /\ answer'[s] = "headers"
    BY <1>1, <2>1 DEF StreamLog, Progress
  <2>5. HeadFirst(s)'
    BY <1>2, <2>1, <2>2, <2>4 DEF StreamLog, HeadFirst
  <2>6. NothingAfterLast(s)'
    BY <2>2, <2>3 DEF NothingAfterLast
  <2>7. BodyLogged(s)'
    BY <1>1, <2>1, <2>2 DEF StreamLog, BodyLogged
  <2>8. Progress(s)'
    BY <1>1, <2>1, <2>2, <2>3 DEF StreamLog, Progress
  <2> QED
    BY <2>5, <2>6, <2>7, <2>8 DEF StreamLog
<1> QED
  BY <1>3, <1>4 DEF ExchangeInv

\* A frame of s is staged: the rest of the log is as it was.
LEMMA OwnFrame ==
  ASSUME LogInv, ExchangeInv, NEW s \in Stream,
         NEW f \in Frame, SendFrame(f), f.kind \in Kinds, f.stream = s,
         \A t \in Stream \ {s} : SameStream(t), StreamLog(s)'
  PROVE  ExchangeInv'
<1>1. ASSUME NEW t \in Stream \ {s}
      PROVE  StreamLog(t)'
  <2>1. StreamLog(t) /\ SameStream(t)
    BY DEF ExchangeInv
  <2>2. f.stream # t
    OBVIOUS
  <2> QED
    BY <2>1, <2>2, OtherFrame
<1> QED
  BY <1>1 DEF ExchangeInv

LEMMA SendHeadersStep ==
  ASSUME Inherited, LogInv, ExchangeInv, NEW s \in Stream, SendHeaders(s)
  PROVE  ExchangeInv'
<1> DEFINE f == [stream |-> s, kind |-> "HEADERS", value |-> status[s]]
           N == Len(frames)
<1>1. /\ lib[s] = "remote" /\ answer[s] = "headers"
      /\ answer' = [answer EXCEPT ![s] = "data"]
      /\ UNCHANGED <<lib, status, total, body, asked>> /\ SendFrame(f)
  BY DEF SendHeaders, H!SendHeaders, H!history, SendFrame
<1>2. StreamLog(s)
  BY DEF ExchangeInv
<1>3. f \in Frame /\ f.value \in {200, 404} /\ f.kind \in Kinds
  BY <1>1, <1>2, StreamTypes DEF StreamLog, Progress, Frame, Kinds
<1>4. f.kind = "HEADERS" /\ f.stream = s
  OBVIOUS
<1> HIDE DEF f
<1>5. /\ Len(frames') = N + 1 /\ N \in Nat /\ frames'[N + 1] = f
      /\ Staged(s, {"HEADERS"})' = Staged(s, {"HEADERS"}) \cup {N + 1}
      /\ Staged(s, Body)' = Staged(s, Body)
      /\ Staged(s, Last)' = Staged(s, Last)
      /\ Staged(s, {"END"})' = Staged(s, {"END"})
      /\ SumTo(Values(s, Body)', N + 1) = SumTo(Values(s, Body), N)
  <2>1. f.kind \notin Body /\ f.kind \notin Last /\ f.kind \notin {"END"}
        /\ f.kind \in {"HEADERS"}
    BY <1>4 DEF Body, Last
  <2>2. /\ Len(frames') = N + 1 /\ N \in Nat /\ frames'[N + 1] = f
        /\ Staged(s, {"HEADERS"})' = Staged(s, {"HEADERS"}) \cup {N + 1}
    BY <1>1, <1>3, <1>4, <2>1, FrameStaged, FrameCounted, KindSets, ValuesNat
  <2>3. /\ Staged(s, Body)' = Staged(s, Body)
        /\ SumTo(Values(s, Body)', N + 1) = SumTo(Values(s, Body), N)
    BY <1>1, <1>3, <2>1, FrameElsewhere, KindSets
  <2>4. Staged(s, Last)' = Staged(s, Last)
    BY <1>1, <1>3, <2>1, FrameElsewhere, KindSets
  <2>5. Staged(s, {"END"})' = Staged(s, {"END"})
    BY <1>1, <1>3, <2>1, FrameElsewhere, KindSets
  <2> QED
    BY <2>2, <2>3, <2>4, <2>5
<1>6. /\ Staged(s, {"HEADERS"}) = {} /\ Staged(s, Body) = {}
      /\ Staged(s, Last) = {}
  BY <1>1, <1>2 DEF StreamLog, HeadFirst, Progress
<1>7. answer'[s] = "data"
  BY <1>1, StreamTypes
<1>8. HeadFirst(s)'
  BY <1>3, <1>5, <1>6, <1>7 DEF HeadFirst
<1>9. NothingAfterLast(s)'
  BY <1>5, <1>6 DEF NothingAfterLast
<1>10. BodyLogged(s)'
  BY <1>1, <1>2, <1>5, StreamTypes DEF StreamLog, BodyLogged
<1>11. Progress(s)'
  BY <1>1, <1>2, <1>5, <1>6, <1>7, KindSets DEF StreamLog, Progress
<1>12. \A t \in Stream \ {s} : SameStream(t)
  BY <1>1, StreamTypes DEF SameStream
<1>13. StreamLog(s)'
  BY <1>8, <1>9, <1>10, <1>11 DEF StreamLog
<1> QED
  BY <1>1, <1>3, <1>4, <1>12, <1>13, OwnFrame

LEMMA LibraryResetStep ==
  ASSUME Inherited, LogInv, ExchangeInv, NEW s \in Stream, LibraryReset(s)
  PROVE  ExchangeInv'
<1> DEFINE f == [stream |-> s, kind |-> "RST", value |-> 0]
           N == Len(frames)
<1>1. /\ lib[s] # "closed" /\ lib' = [lib EXCEPT ![s] = "closed"]
      /\ UNCHANGED <<answer, status, total, body, asked>> /\ SendFrame(f)
  BY DEF LibraryReset, H!LibraryReset, H!Close, H!history, SendFrame
<1>2. StreamLog(s)
  BY DEF ExchangeInv
<1>3. f \in Frame /\ f.kind = "RST" /\ f.stream = s /\ f.kind \in Kinds
  BY DEF Frame, Kinds, Last
<1> HIDE DEF f
<1>4. /\ Len(frames') = N + 1 /\ N \in Nat
      /\ Staged(s, {"HEADERS"})' = Staged(s, {"HEADERS"})
      /\ Staged(s, Body)' = Staged(s, Body)
      /\ Staged(s, Last)' = Staged(s, Last) \cup {N + 1}
      /\ Staged(s, {"END"})' = Staged(s, {"END"})
      /\ SumTo(Values(s, Body)', N + 1) = SumTo(Values(s, Body), N)
      /\ \A n \in 1..N : frames'[n] = frames[n]
  <2>1. f.kind \notin Body /\ f.kind \in Last /\ f.kind \notin {"END"}
        /\ f.kind \notin {"HEADERS"}
    BY <1>3 DEF Body, Last
  <2>2. /\ Len(frames') = N + 1 /\ N \in Nat
        /\ \A n \in 1..N : frames'[n] = frames[n]
        /\ Staged(s, Last)' = Staged(s, Last) \cup {N + 1}
    BY <1>1, <1>3, <2>1, FrameStaged, FrameCounted, KindSets, ValuesNat
  <2>3. /\ Staged(s, Body)' = Staged(s, Body)
        /\ SumTo(Values(s, Body)', N + 1) = SumTo(Values(s, Body), N)
    BY <1>1, <1>3, <2>1, FrameElsewhere, KindSets
  <2>4. Staged(s, {"HEADERS"})' = Staged(s, {"HEADERS"})
    BY <1>1, <1>3, <2>1, FrameElsewhere, KindSets
  <2>5. Staged(s, {"END"})' = Staged(s, {"END"})
    BY <1>1, <1>3, <2>1, FrameElsewhere, KindSets
  <2> QED
    BY <2>2, <2>3, <2>4, <2>5
<1>5. Staged(s, Last) = {}
  BY <1>1, <1>2 DEF StreamLog, Progress
<1>6. lib'[s] = "closed"
  BY <1>1, StreamTypes
<1>7. HeadFirst(s)'
  BY <1>1, <1>2, <1>4 DEF StreamLog, HeadFirst
<1>8. NothingAfterLast(s)'
  BY <1>4, <1>5 DEF NothingAfterLast, Staged
<1>9. BodyLogged(s)'
  BY <1>1, <1>2, <1>4, StreamTypes DEF StreamLog, BodyLogged
<1>10. Progress(s)'
  BY <1>1, <1>2, <1>4, <1>6 DEF StreamLog, Progress
<1>11. \A t \in Stream \ {s} : SameStream(t)
  BY <1>1, StreamTypes DEF SameStream
<1>12. StreamLog(s)'
  BY <1>7, <1>8, <1>9, <1>10 DEF StreamLog
<1> QED
  BY <1>1, <1>3, <1>11, <1>12, OwnFrame

\* The callback reads a piece of a body whose length it knows.
DataEffect(s) ==
  /\ lib[s] = "remote" /\ answer[s] = "data"
  /\ UNCHANGED <<status, asked>>
  /\ \/ answer'[s] = "done" /\ lib'[s] = "closed" /\ body'[s] = total'[s]
     \/ UNCHANGED <<answer, lib>>
  /\ body[s] <= body'[s] /\ body'[s] <= total'[s]
  /\ total'[s] <= MaxFileLen + ErrorLen
  /\ \/ UNCHANGED total
     \/ /\ body[s] = 0
        /\ total' = [total EXCEPT ![s] = total'[s]]

LEMMA Sent ==
  ASSUME Inherited, Inherited', ExchangeInv, NEW s \in Stream, SendData(s)
  PROVE  DataEffect(s) /\ \A t \in Stream \ {s} : SameStream(t)
<1> DEFINE stream == m_streams[s]
<1>1. HP!Http2SessionAssumption
  BY ConnectionAssumption DEF H!Http2SessionAssumption,
     HP!Http2SessionAssumption
<1>2. /\ lib[s] = "remote" /\ answer[s] = "data" /\ ~H!ReadCallbackFails(s)
      /\ UNCHANGED <<status, asked>>
      /\ \E len : body' = [body EXCEPT ![s] = @ + len]
      /\ \/ UNCHANGED total
         \/ /\ H!FirstCall(stream)
            /\ total' = [total EXCEPT ![s] = H!Left(stream)]
      /\ \/ /\ answer' = [answer EXCEPT ![s] = "done"]
            /\ lib' = [lib EXCEPT ![s] = "closed"]
         \/ UNCHANGED <<answer, lib>> /\ s \in DOMAIN m_streams'
  BY DEF SendData, SendFrame, H!SendData, H!Close, H!ReadCallbackFails
<1>3. s \in DOMAIN m_streams /\ stream.lastlenght = body[s]
  BY <1>2 DEF H!ReadCallbackFails, Inherited, HP!IInv, HP!BodyContiguous
<1>4. \A t \in Stream \ {s} : SameStream(t)
  BY <1>2, StreamTypes DEF SameStream
<1>5. body[s] \in Nat /\ body'[s] \in Nat /\ total[s] \in Nat /\ total'[s] \in Nat
  BY StreamTypes DEF Inherited, HP!IInv, HP!TypeOK
<1>6. body[s] <= body'[s]
  <2>1. HP!SendData(s)
    BY SameSendData DEF SendData
  <2>2. body'[s] - body[s] \in Nat
    BY <1>1, <2>1, HP!BodyGrows DEF Inherited
  <2> QED
    BY <1>5, <2>2
<1>7. body'[s] <= total'[s]
  <2>1. CASE answer'[s] = "done"
    BY <1>5, <2>1 DEF Inherited, HP!IInv, HP!BodyComplete
  <2>2. CASE s \in DOMAIN m_streams'
    <3>1. /\ m_streams'[s] \in HP!StreamData
          /\ m_streams'[s].lastlenght = body'[s]
          /\ HP!FirstCall(m_streams'[s]) \/
               total'[s] = m_streams'[s].lastlenght + m_streams'[s].left
      BY <2>2 DEF Inherited, HP!IInv, HP!TypeOK, HP!BodyContiguous,
         HP!BodyAccounted, HP!FirstCall
    <3>2. m_streams'[s].left \in Nat
      BY <3>1 DEF HP!StreamData
    <3> QED
      BY <1>5, <3>1, <3>2 DEF HP!FirstCall
  <2> QED
    BY <1>2, <2>1, <2>2, StreamTypes
<1>8. total'[s] <= MaxFileLen + ErrorLen
  <2>1. MaxFileLen \in Nat /\ ErrorLen \in Nat
    BY <1>1 DEF HP!Http2SessionAssumption
  <2>2. CASE UNCHANGED total
    BY <2>2 DEF ExchangeInv, StreamLog, BodyLogged
  <2>3. CASE H!FirstCall(stream) /\ total' = [total EXCEPT ![s] = H!Left(stream)]
    <3>1. total'[s] = IF stream.res.file_path # ""
                      THEN file_len[stream.res.file_path]
                      ELSE stream.res.body
      <4>1. total'[s] = H!Left(stream)
        BY <2>3, StreamTypes
      <4> QED
        BY <2>3, <4>1 DEF H!Left
    <3>2. stream \in HP!StreamData
      BY <1>3 DEF Inherited, HP!IInv, HP!TypeOK
    <3>3. /\ stream.res.body \in {0, ErrorLen}
          /\ stream.res.file_path \in File \cup {""}
      BY <3>2 DEF HP!StreamData, HP!Response
    <3>4. CASE stream.res.file_path # ""
      <4>1. /\ file_len[stream.res.file_path] \in 0..MaxFileLen \cup {Gone}
            /\ file_len[stream.res.file_path] # Gone
        BY <1>2, <1>3, <3>3, <3>4 DEF Inherited, HP!IInv, HP!TypeOK, HP!Length,
           H!ReadCallbackFails, H!Exists
      <4>2. total'[s] \in 0..MaxFileLen
        BY <3>1, <3>4, <4>1
      <4> QED
        BY <2>1, <4>2
    <3>5. CASE stream.res.file_path = ""
      <4>1. total'[s] \in {0, ErrorLen}
        BY <3>1, <3>3, <3>5
      <4> QED
        BY <2>1, <4>1
    <3> QED
      BY <3>4, <3>5
  <2> QED
    BY <1>2, <2>2, <2>3
<1>9. \/ UNCHANGED total
      \/ body[s] = 0 /\ total' = [total EXCEPT ![s] = total'[s]]
  BY <1>2, <1>3, StreamTypes DEF H!FirstCall
<1>10. \/ answer'[s] = "done" /\ lib'[s] = "closed" /\ body'[s] = total'[s]
       \/ UNCHANGED <<answer, lib>>
  BY <1>2, StreamTypes DEF Inherited, HP!IInv, HP!BodyComplete
<1> QED
  BY <1>2, <1>4, <1>6, <1>7, <1>8, <1>9, <1>10 DEF DataEffect

LEMMA SendDataStep ==
  ASSUME Inherited, Inherited', LogInv, ExchangeInv, NEW s \in Stream,
         SendData(s)
  PROVE  ExchangeInv'
<1> DEFINE kind == IF answer'[s] = "done" THEN "END" ELSE "DATA"
           f == [stream |-> s, kind |-> kind, value |-> body'[s] - body[s]]
           N == Len(frames)
<1>1. DataEffect(s) /\ \A t \in Stream \ {s} : SameStream(t)
  BY Sent
<1>2. /\ body[s] \in Nat /\ body'[s] \in Nat /\ body'[s] - body[s] \in Nat
      /\ body[s] + (body'[s] - body[s]) = body'[s]
  <2>1. body[s] \in Nat /\ body'[s] \in Nat
    BY StreamTypes DEF Inherited, HP!IInv, HP!TypeOK
  <2> QED
    BY <1>1, <2>1 DEF DataEffect
<1>3. SendFrame(f)
  BY DEF SendData
<1>4. /\ f \in Frame /\ f.kind \in Body /\ f.kind \in Kinds
      /\ f.stream = s /\ f.value = body'[s] - body[s]
      /\ f.kind = "END" <=> answer'[s] = "done"
  BY <1>2 DEF Frame, Kinds, Body
<1> HIDE DEF f
<1>5. StreamLog(s)
  BY DEF ExchangeInv
<1>6. /\ Len(frames') = N + 1 /\ N \in Nat
      /\ \A n \in 1..N : frames'[n] = frames[n]
      /\ Staged(s, {"HEADERS"})' = Staged(s, {"HEADERS"})
      /\ Staged(s, Body)' = Staged(s, Body) \cup {N + 1}
      /\ SumTo(Values(s, Body)', N + 1) =
           SumTo(Values(s, Body), N) + (body'[s] - body[s])
  <2>1. f.kind \notin {"HEADERS"}
    BY <1>4 DEF Body
  <2>2. Staged(s, {"HEADERS"})' = Staged(s, {"HEADERS"})
    BY <1>3, <1>4, <2>1, FrameElsewhere, KindSets
  <2> QED
    BY <1>3, <1>4, <2>2, FrameStaged, FrameCounted, KindSets, ValuesNat
<1>7. Staged(s, Last) = {} /\ Staged(s, {"END"}) = {}
  BY <1>1, <1>5 DEF DataEffect, StreamLog, Progress, Staged, Last
<1>8. /\ Staged(s, Last)' \subseteq {N + 1} /\ Staged(s, {"END"})' \subseteq {N + 1}
      /\ answer'[s] # "done" =>
           Staged(s, Last)' = {} /\ Staged(s, {"END"})' = {}
  <2>1. f.kind \in Last <=> answer'[s] = "done"
    BY <1>4 DEF Body, Last
  <2>2. CASE answer'[s] = "done"
    <3>1. f.kind \in Last /\ f.kind \in {"END"}
      BY <1>4, <2>1, <2>2
    <3>2. Staged(s, Last)' = Staged(s, Last) \cup {N + 1}
      BY <1>3, <1>4, <3>1, FrameCounted, KindSets
    <3>3. Staged(s, {"END"})' = Staged(s, {"END"}) \cup {N + 1}
      BY <1>3, <1>4, <3>1, FrameCounted, KindSets
    <3> QED
      BY <1>7, <2>2, <3>2, <3>3
  <2>3. CASE answer'[s] # "done"
    <3>1. f.kind \notin Last /\ f.kind \notin {"END"}
      BY <1>4, <2>1, <2>3
    <3>2. Staged(s, Last)' = Staged(s, Last)
      BY <1>3, <1>4, <3>1, FrameElsewhere, KindSets
    <3>3. Staged(s, {"END"})' = Staged(s, {"END"})
      BY <1>3, <1>4, <3>1, FrameElsewhere, KindSets
    <3> QED
      BY <1>7, <3>2, <3>3
  <2> QED
    BY <2>2, <2>3
<1>9. answer[s] = "data" /\ answer'[s] \in {"data", "done"}
  BY <1>1 DEF DataEffect
<1>10. HeadFirst(s)'
  <2>1. PICK n \in 1..N :
          /\ Staged(s, {"HEADERS"}) = {n} /\ frames[n].value \in {200, 404}
          /\ \A m \in Staged(s, Body) : n < m
    BY <1>5, <1>9 DEF StreamLog, HeadFirst
  <2>2. /\ n \in 1..Len(frames') /\ frames'[n] = frames[n] /\ n < N + 1
        /\ Staged(s, {"HEADERS"})' = {n}
    BY <1>6, <2>1
  <2>3. \A m \in Staged(s, Body)' : n < m
    BY <1>6, <2>1, <2>2
  <2> QED
    BY <1>9, <2>1, <2>2, <2>3 DEF HeadFirst
<1>11. NothingAfterLast(s)'
  BY <1>6, <1>8 DEF NothingAfterLast, Staged
<1>12. BodyLogged(s)'
  BY <1>1, <1>2, <1>5, <1>6 DEF StreamLog, BodyLogged, DataEffect
<1>13. Progress(s)'
  BY <1>1, <1>5, <1>8, <1>9 DEF StreamLog, Progress, DataEffect
<1>14. StreamLog(s)'
  BY <1>10, <1>11, <1>12, <1>13 DEF StreamLog
<1> QED
  BY <1>1, <1>3, <1>4, <1>14, OwnFrame

-----------------------------------------------------------------------------
(* The invariant.                                                          *)

LEMMA ExchangeInit == Init => ExchangeInv
<1> SUFFICES ASSUME Init, NEW s \in Stream PROVE StreamLog(s)
  BY DEF ExchangeInv
<1>1. /\ frames = << >> /\ asked = {} /\ lib[s] = "idle" /\ answer[s] = "none"
      /\ status[s] = 0 /\ total[s] = 0 /\ body[s] = 0
  BY DEF Init, H!Init
<1>2. Len(frames) = 0 /\ \A kinds : Staged(s, kinds) = {}
  BY <1>1 DEF Staged
<1>3. BodyLogged(s)
  <2>1. SumTo(Values(s, Body), 0) = 0
    BY SumStep
  <2>2. MaxFileLen \in Nat /\ ErrorLen \in Nat
    BY ConnectionAssumption DEF H!Http2SessionAssumption
  <2> QED
    BY <1>1, <1>2, <2>1, <2>2 DEF BodyLogged
<1> QED
  BY <1>1, <1>2, <1>3 DEF StreamLog, HeadFirst, NothingAfterLast, Progress

\* Frames and steps that concern no stream.
LibraryFrame == [kind : {"control", "goaway"}]

streamVars == <<lib, answer, status, total, body, asked>>

LEMMA QuietStep ==
  ASSUME [Next]_vars
  PROVE  \/ UNCHANGED <<frames, streamVars>>
         \/ (\E f \in LibraryFrame : SendFrame(f)) /\ UNCHANGED streamVars
         \/ \E s \in Stream :
              Receive(s) \/ SendHeaders(s) \/ SendData(s) \/ LibraryReset(s)
<1>1. CASE Connect \/ Transport
  BY <1>1 DEF Connect, Transport, http2Vars, log, streamVars
<1>2. CASE Configure \/ ControlFrame
  <2>1. [kind |-> "control"] \in LibraryFrame
    BY DEF LibraryFrame
  <2>2. \/ SendFrame([kind |-> "control"]) /\ UNCHANGED http2Vars
        \/ UNCHANGED <<http2Vars, log>>
    BY <1>2 DEF Configure, ControlFrame
  <2>3. SendFrame([kind |-> "control"]) => UNCHANGED asked
    BY DEF SendFrame
  <2> QED
    BY <2>1, <2>2, <2>3 DEF http2Vars, log, streamVars
<1>3. CASE ReadBytes \/ ReadError \/ RecvReturns \/ WindowUpdate
             \/ ConnectionError \/ SendReturns \/ CallFails \/ EditFile
  BY <1>3 DEF ReadBytes, ReadError, RecvReturns, WindowUpdate, ConnectionError,
     SendReturns, CallFails, EditFile, log, streamVars, H!ReadBytes,
     H!ReadError, H!RecvReturns, H!WindowUpdate, H!ConnectionError,
     H!SendReturns, H!RecvFails, H!SendFails, H!EditFile, H!libVars, H!history
<1>4. CASE SendGoaway
  <2>1. [kind |-> "goaway"] \in LibraryFrame
    BY DEF LibraryFrame
  <2>2. UNCHANGED streamVars /\ SendFrame([kind |-> "goaway"])
    BY <1>4 DEF SendGoaway, H!SendGoaway, SendFrame, H!history, streamVars
  <2> QED
    BY <2>1, <2>2
<1>5. CASE UNCHANGED vars
  BY <1>5 DEF vars, http2Vars, log, streamVars
<1> QED
  BY <1>1, <1>2, <1>3, <1>4, <1>5 DEF Next

LEMMA ExchangeStep ==
  Inherited /\ Inherited' /\ LogInv /\ ExchangeInv /\ [Next]_vars => ExchangeInv'
<1> SUFFICES ASSUME Inherited, Inherited', LogInv, ExchangeInv, [Next]_vars
             PROVE  ExchangeInv'
  OBVIOUS
<1>1. CASE UNCHANGED <<frames, streamVars>>
  BY <1>1, StreamUndisturbed DEF ExchangeInv, SameStream, streamVars
<1>2. ASSUME NEW f \in LibraryFrame, SendFrame(f), UNCHANGED streamVars
      PROVE  ExchangeInv'
  <2>1. f \in Frame /\ f.kind \notin Kinds
    BY DEF LibraryFrame, Frame, Kinds, Body, Last
  <2>2. \A s \in Stream : SameStream(s)
    BY <1>2 DEF SameStream, streamVars
  <2> QED
    BY <1>2, <2>1, <2>2, OtherFrame DEF ExchangeInv
<1>3. ASSUME NEW s \in Stream,
             Receive(s) \/ SendHeaders(s) \/ SendData(s) \/ LibraryReset(s)
      PROVE  ExchangeInv'
  BY <1>3, ReceiveStep, SendHeadersStep, SendDataStep, LibraryResetStep
<1> QED
  BY <1>1, <1>2, <1>3, QuietStep

\* What the log says of the streams, in every reachable state.
THEOREM LogOfExchanges == SafeSpec => []ExchangeInv
BY ExchangeInit, ExchangeStep, Inheritance, LogInit, LogStep, PTL DEF SafeSpec

-----------------------------------------------------------------------------
(* The wire carries the log from its beginning.                            *)

LEMMA WirePlaces ==
  ASSUME Inherited, LogInv
  PROVE  /\ Len(wire) \in Nat /\ Len(frames) \in Nat
         /\ Len(wire) <= Len(frames)
         /\ \A i \in 1..Len(wire) : wire[i] = i
<1>1. Len(wire) \in Nat /\ Len(wire) <= queued
  BY SP!WireWithinQueued, ConnectionAssumption
     DEF Inherited, SP!MaxFramesAssumption
<1> QED
  BY <1>1 DEF Inherited, SP!Queue!WireInOrder, LogInv

LEMMA OnWire ==
  ASSUME Inherited, LogInv, NEW s \in Stream, NEW kinds \in SUBSET Kinds
  PROVE  /\ Seen(s, kinds) = {i \in Staged(s, kinds) : i <= Len(wire)}
         /\ Carried(s, kinds) = SumTo(Values(s, kinds), Len(wire))
         /\ Carried(s, kinds) \in Nat
<1>1. /\ Len(wire) \in Nat /\ Len(frames) \in Nat /\ Len(wire) <= Len(frames)
      /\ \A i \in 1..Len(wire) : wire[i] = i
  BY WirePlaces
<1>2. Seen(s, kinds) = {i \in Staged(s, kinds) : i <= Len(wire)}
  BY <1>1 DEF Seen, Staged
<1> DEFINE v == [i \in 1..Len(wire) |->
                   IF i \in Seen(s, kinds) THEN frames[wire[i]].value ELSE 0]
           w == Values(s, kinds)
<1>3. \A i \in 1..Len(wire) : v[i] = w[i]
  BY <1>1, <1>2 DEF Values
<1>4. Carried(s, kinds) = SumTo(v, Len(wire))
  BY DEF Carried
<1>5. \A i \in 1..Len(frames) : w[i] \in Nat
  BY ValuesNat
<1> HIDE DEF v, w
<1>6. SumTo(v, Len(wire)) = SumTo(w, Len(wire))
  BY <1>1, <1>3, SumSame
<1>7. SumTo(w, Len(wire)) \in Nat
  BY <1>1, <1>5, SumNat
<1> QED
  BY <1>2, <1>4, <1>6, <1>7 DEF w

WireShows ==
  /\ Len(wire) \in Nat
  /\ \A s \in Stream, kinds \in SUBSET Kinds :
       /\ Seen(s, kinds) = {i \in Staged(s, kinds) : i <= Len(wire)}
       /\ Carried(s, kinds) = SumTo(Values(s, kinds), Len(wire))

LEMMA Shown == Inherited /\ LogInv => WireShows
BY OnWire, WirePlaces DEF WireShows

LEMMA ShownNext == Inherited' /\ LogInv' => WireShows'
BY Shown, PTL

\* Staging shows nothing to the peer ...
LEMMA WireStays ==
  ASSUME Inherited, Inherited', LogInv, LogInv', UNCHANGED wire,
         \A n \in 1..Len(frames) : frames'[n] = frames[n],
         NEW s \in Stream, NEW kinds
  PROVE  Seen(s, kinds)' = Seen(s, kinds) /\ Carried(s, kinds)' = Carried(s, kinds)
<1>1. \A i \in 1..Len(wire) : frames'[wire'[i]] = frames[wire[i]]
  BY WirePlaces
<1>2. Seen(s, kinds)' = Seen(s, kinds)
  BY <1>1 DEF Seen
<1>3. [i \in 1..Len(wire') |->
         IF i \in Seen(s, kinds)' THEN frames'[wire'[i]].value ELSE 0]
      = [i \in 1..Len(wire) |->
         IF i \in Seen(s, kinds) THEN frames[wire[i]].value ELSE 0]
  BY <1>1, <1>2
<1> QED
  BY <1>2, <1>3 DEF Carried

\* ... and transmitting shows it the next frame of the log.
Advance ==
  /\ UNCHANGED frames /\ wire' = Append(wire, Len(wire) + 1)
  /\ Len(wire) < Len(frames)

LEMMA Advanced ==
  ASSUME Inherited, Inherited', LogInv, LogInv', Advance,
         NEW s \in Stream, NEW kinds \in SUBSET Kinds
  PROVE  /\ Seen(s, kinds)' = {i \in Staged(s, kinds) : i <= Len(wire) + 1}
         /\ Carried(s, kinds)' =
              Carried(s, kinds) + Values(s, kinds)[Len(wire) + 1]
<1>1. Len(wire') = Len(wire) + 1 /\ Len(wire) \in Nat
  BY WirePlaces DEF Advance, Inherited, SP!QP!IInv, SP!QP!TypeOK
<1>2. /\ Seen(s, kinds)' = {i \in Staged(s, kinds)' : i <= Len(wire')}
      /\ Carried(s, kinds)' = SumTo(Values(s, kinds)', Len(wire'))
  BY ShownNext DEF WireShows
<1>3. Staged(s, kinds)' = Staged(s, kinds) /\ Values(s, kinds)' = Values(s, kinds)
  BY DEF Staged, Values, Advance
<1> QED
  BY <1>1, <1>2, <1>3, OnWire, SumStep

-----------------------------------------------------------------------------
(* What the peer has of the exchange: the refinement mapping.              *)

Code == [s \in Stream |-> Carried(s, {"HEADERS"})]
Delivered == [s \in Stream |-> Carried(s, Body)]
Ended == {s \in Stream : Seen(s, Last) # {}}

\* A step changes the wire, the log or the streams.
LEMMA StepsOfExchange ==
  ASSUME Inherited, LogInv, LogInv', [Next]_vars
  PROVE  \/ UNCHANGED <<frames, streamVars, wire>>
         \/ Advance /\ UNCHANGED streamVars
         \/ /\ UNCHANGED <<wire, streamVars>>
            /\ \E f \in LibraryFrame : SendFrame(f)
         \/ UNCHANGED wire /\ \E s \in Stream :
              Receive(s) \/ SendHeaders(s) \/ SendData(s) \/ LibraryReset(s)
<1>1. \A f : SendFrame(f) => UNCHANGED wire
  BY DEF SendFrame, S!SendFrame, S!Queue!Stage, S!Queue!AddToQueue
<1>2. \A s \in Stream : Receive(s) => UNCHANGED wire
  BY DEF Receive, S!CallThrows, S!queueVars, sessionVars
<1>3. \A s \in Stream :
        SendHeaders(s) \/ SendData(s) \/ LibraryReset(s) => UNCHANGED wire
  BY <1>1 DEF SendHeaders, SendData, LibraryReset
<1>4. \/ UNCHANGED wire
      \/ wire' = Append(wire, Len(wire) + 1) /\ Len(wire) < queued
  <2>1. [SP!Next]_(SP!vars)
    <3>1. [S!Next]_(S!vars)
      BY SessionStep DEF vars, sessionVars, S!vars, S!queueVars, S!lifeVars
    <3> QED
      BY <3>1, SameSessionNext
  <2> QED
    BY <2>1, SP!WireGrows, ConnectionAssumption
       DEF Inherited, SP!MaxFramesAssumption
<1>5. Len(frames) = queued
  BY DEF LogInv
<1> QED
  BY <1>1, <1>2, <1>3, <1>4, <1>5, QuietStep DEF Advance

LEMMA MappingStays ==
  ASSUME Inherited, Inherited', LogInv, LogInv', UNCHANGED wire,
         \A n \in 1..Len(frames) : frames'[n] = frames[n]
  PROVE  UNCHANGED <<Code, Delivered, Ended>>
BY WireStays DEF Code, Delivered, Ended

\* A frame staged leaves those before it.
LEMMA LogKeeps ==
  ASSUME LogInv, NEW f, SendFrame(f)
  PROVE  \A n \in 1..Len(frames) : frames'[n] = frames[n]
BY DEF LogInv, SendFrame

\* The peer has no more of a body than was staged.
LEMMA DeliveredBound ==
  ASSUME Inherited, LogInv, ExchangeInv, NEW s \in Stream
  PROVE  Delivered[s] \in Nat /\ Delivered[s] <= body[s]
<1> DEFINE v == Values(s, Body)
           n == Len(frames)
           m == Len(wire)
<1>1. /\ n \in Nat /\ m \in Nat /\ m <= n
      /\ \A i \in 1..n : v[i] \in Nat
      /\ SumTo(v, n) = body[s]
  BY WirePlaces, ValuesNat, KindSets DEF ExchangeInv, StreamLog, BodyLogged
<1>2. Delivered[s] = SumTo(v, m) /\ Delivered[s] \in Nat
  BY OnWire, KindSets DEF Delivered
<1> HIDE DEF v, n, m
<1>3. SumTo(v, m) <= SumTo(v, n)
  BY <1>1, SumGrows
<1> QED
  BY <1>1, <1>2, <1>3

DeliveredBounded == \A s \in Stream : Delivered[s] <= body[s]

LEMMA DeliveredAlways == Inherited /\ LogInv /\ ExchangeInv => DeliveredBounded
BY DeliveredBound DEF DeliveredBounded

LEMMA DeliveredNext == Inherited' /\ LogInv' /\ ExchangeInv' => DeliveredBounded'
BY DeliveredAlways, PTL

-----------------------------------------------------------------------------
(* Steps the peer does not see.                                            *)

LEMMA PeerVars ==
  UNCHANGED <<asked, total, Code, Delivered, Ended>> => UNCHANGED Peer!vars
BY DEF Peer!vars, Code, Delivered, Ended, Body, Last

\* The end of a request asks, or repeats nothing.
LEMMA AskStep ==
  ASSUME Inherited, Inherited', LogInv, LogInv', UNCHANGED wire,
         NEW s \in Stream, Receive(s)
  PROVE  Peer!Ask(s) \/ UNCHANGED Peer!vars
<1>1. ReceiveEffect(s)
  BY Received
<1>2. UNCHANGED <<Code, Delivered, Ended>>
  BY <1>1, MappingStays DEF ReceiveEffect
<1>3. UNCHANGED total /\ (asked' = asked \/ asked' = asked \cup {s})
  BY <1>1 DEF ReceiveEffect
<1>4. CASE asked' = asked
  BY <1>2, <1>3, <1>4, PeerVars
<1>5. CASE s \notin asked /\ asked' = asked \cup {s}
  BY <1>2, <1>3, <1>5 DEF Peer!Ask, Code, Delivered, Ended, Body, Last
<1> QED
  BY <1>3, <1>4, <1>5

\* The first read of a body measures it.
LEMMA MeasureStep ==
  ASSUME Inherited, Inherited', LogInv, LogInv', ExchangeInv, UNCHANGED wire,
         NEW s \in Stream, SendData(s)
  PROVE  Peer!Measure(s) \/ UNCHANGED Peer!vars
<1>1. DataEffect(s)
  BY Sent
<1>2. UNCHANGED <<Code, Delivered, Ended>>
  BY LogKeeps, MappingStays DEF SendData
<1>3. CASE UNCHANGED total
  BY <1>1, <1>2, <1>3, PeerVars DEF DataEffect
<1>4. CASE body[s] = 0 /\ total' = [total EXCEPT ![s] = total'[s]]
  <2>1. StreamLog(s)
    BY DEF ExchangeInv
  <2>2. s \in asked /\ Staged(s, Last) = {}
    BY <1>1, <2>1 DEF DataEffect, StreamLog, Progress
  <2>3. s \notin Ended
    BY <2>2, OnWire, KindSets DEF Ended
  <2>4. Delivered[s] = 0
    BY <1>4, DeliveredBound
  <2>5. total'[s] \in 0..(MaxFileLen + ErrorLen)
    <3>1. total'[s] \in Nat
      BY StreamTypes DEF Inherited, HP!IInv, HP!TypeOK
    <3>2. MaxFileLen \in Nat /\ ErrorLen \in Nat
      BY ConnectionAssumption DEF H!Http2SessionAssumption
    <3> QED
      BY <1>1, <3>1, <3>2 DEF DataEffect
  <2>6. UNCHANGED asked
    BY <1>1 DEF DataEffect
  <2>7. \E n \in 0..(MaxFileLen + ErrorLen) : total' = [total EXCEPT ![s] = n]
    BY <1>4, <2>5
  <2> QED
    BY <1>2, <2>2, <2>3, <2>4, <2>6, <2>7
       DEF Peer!Measure, Code, Delivered, Ended, Body, Last
<1> QED
  BY <1>1, <1>3, <1>4 DEF DataEffect

-----------------------------------------------------------------------------
(* Steps the peer sees: the next frame of the log arrives.                 *)

\* A frame changes what the peer has of its own stream only, and of that what
\* its kind says.
LEMMA Arrives ==
  ASSUME Inherited, Inherited', LogInv, LogInv', Advance, NEW s \in Stream
  PROVE  LET n == Len(wire) + 1 IN
         /\ Code'[s] = Code[s] + Values(s, {"HEADERS"})[n]
         /\ Delivered'[s] = Delivered[s] + Values(s, Body)[n]
         /\ s \in Ended' <=> s \in Ended \/ n \in Staged(s, Last)
         /\ Code[s] \in Nat /\ Delivered[s] \in Nat
<1> DEFINE n == Len(wire) + 1
<1>1. Len(wire) \in Nat
  BY WirePlaces
<1>2. Code'[s] = Code[s] + Values(s, {"HEADERS"})[n]
  BY Advanced, KindSets DEF Code
<1>3. Delivered'[s] = Delivered[s] + Values(s, Body)[n]
  BY Advanced, KindSets DEF Delivered
<1>4. s \in Ended' <=> s \in Ended \/ n \in Staged(s, Last)
  <2>1. /\ Seen(s, Last)' = {i \in Staged(s, Last) : i <= n}
        /\ Seen(s, Last) = {i \in Staged(s, Last) : i <= Len(wire)}
    BY Advanced, OnWire, KindSets
  <2>2. \A i \in Staged(s, Last) : i <= n <=> i <= Len(wire) \/ i = n
    BY <1>1 DEF Staged
  <2>3. s \in Ended <=> Seen(s, Last) # {}
    BY DEF Ended
  <2>4. s \in Ended' <=> Seen(s, Last)' # {}
    BY DEF Ended
  <2> QED
    BY <2>1, <2>2, <2>3, <2>4
<1>5. Code[s] \in Nat /\ Delivered[s] \in Nat
  BY OnWire, KindSets DEF Code, Delivered
<1> QED
  BY <1>2, <1>3, <1>4, <1>5

\* Nothing of a stream follows its end or reset, so it has not ended before.
LEMMA NotYetEnded ==
  ASSUME Inherited, LogInv, ExchangeInv, NEW s \in Stream,
         Len(wire) + 1 \in Staged(s, Kinds)
  PROVE  s \notin Ended
<1>1. \A m \in Staged(s, Last) : Len(wire) + 1 <= m
  BY DEF ExchangeInv, StreamLog, NothingAfterLast
<1>2. Len(wire) \in Nat /\ \A m \in Staged(s, Last) : m \in Nat
  BY WirePlaces DEF Staged
<1>3. Seen(s, Last) = {}
  BY <1>1, <1>2, OnWire, KindSets
<1> QED
  BY <1>3 DEF Ended

\* Before its response's headers a stream has no status, after them it has.
LEMMA CodeKnown ==
  ASSUME Inherited, LogInv, ExchangeInv, NEW s \in Stream,
         NEW n \in 1..Len(frames), Staged(s, {"HEADERS"}) = {n},
         frames[n].value \in {200, 404}
  PROVE  Code[s] = 0 <=> Len(wire) < n
<1> DEFINE v == Values(s, {"HEADERS"})
           m == Len(wire)
           N == Len(frames)
<1>1. m \in Nat /\ N \in Nat /\ m <= N /\ \A i \in 1..N : v[i] \in Nat
  BY WirePlaces, ValuesNat, KindSets
<1>2. v[n] > 0 /\ \A i \in 1..N \ {n} : v[i] = 0
  BY DEF Values
<1>3. Code[s] = SumTo(v, m)
  BY OnWire, KindSets DEF Code
<1> HIDE DEF v, m, N
<1>4. N = Len(frames) /\ n \in 1..N
  BY DEF N
<1>5. CASE m < n
  <2>1. \A i \in 1..m : v[i] = 0
    BY <1>1, <1>2, <1>4, <1>5
  <2>2. SumTo(v, m) = SumTo(v, 0)
    <3>1. (\A i \in (0 + 1)..m : v[i] = 0) => SumTo(v, m) = SumTo(v, 0)
      <4>1. \A i \in 1..m : v[i] \in Nat
        BY <1>1
      <4> QED
        BY <1>1, <4>1, SumGrows
    <3> QED
      BY <2>1, <3>1
  <2> QED
    BY <1>3, <1>5, <2>2, SumStep DEF m
<1>6. CASE n <= m
  <2>1. PICK k \in Nat : n = k + 1 /\ k <= N
    <3>1. n - 1 \in Nat /\ n = (n - 1) + 1 /\ n - 1 <= N
      BY <1>1, <1>4
    <3> QED
      BY <3>1
  <2>2. SumTo(v, n) = SumTo(v, k) + v[n]
    BY <2>1, SumLast
  <2>3. SumTo(v, k) \in Nat
    BY <1>1, <2>1, SumNat
  <2>4. SumTo(v, n) <= SumTo(v, m) /\ SumTo(v, m) \in Nat
    <3>1. n \in Nat /\ n <= m /\ \A i \in 1..m : v[i] \in Nat
      BY <1>1, <1>4, <1>6
    <3>2. SumTo(v, n) <= SumTo(v, m)
      BY <1>1, <3>1, SumGrows
    <3>3. SumTo(v, m) \in Nat
      BY <1>1, <3>1, SumNat
    <3> QED
      BY <3>2, <3>3
  <2>5. v[n] \in Nat
    BY <1>1, <1>4
  <2>6. SumTo(v, m) # 0
    BY <1>2, <2>2, <2>3, <2>4, <2>5
  <2>7. ~(m < n)
    BY <1>1, <1>6, <2>1
  <2> QED
    BY <1>3, <2>6, <2>7 DEF m
<1> QED
  BY <1>1, <1>4, <1>5, <1>6

\* Other streams get nothing of it.
LEMMA OthersGetNothing ==
  ASSUME Inherited, Inherited', LogInv, LogInv', Advance, NEW s \in Stream,
         Len(wire) + 1 \notin Staged(s, Kinds)
  PROVE  /\ Code'[s] = Code[s] /\ Delivered'[s] = Delivered[s]
         /\ s \in Ended' <=> s \in Ended
<1> DEFINE n == Len(wire) + 1
<1>1. n \in 1..Len(frames)
  BY WirePlaces DEF Advance
<1>2. /\ n \notin Staged(s, {"HEADERS"}) /\ n \notin Staged(s, Body)
      /\ n \notin Staged(s, Last)
  BY DEF Staged, Kinds, Body, Last
<1>3. Values(s, {"HEADERS"})[n] = 0 /\ Values(s, Body)[n] = 0
  BY <1>1, <1>2 DEF Values
<1>4. /\ Code'[s] = Code[s] + Values(s, {"HEADERS"})[n]
      /\ Delivered'[s] = Delivered[s] + Values(s, Body)[n]
      /\ s \in Ended' <=> s \in Ended \/ n \in Staged(s, Last)
      /\ Code[s] \in Nat /\ Delivered[s] \in Nat
  BY Arrives
<1> HIDE DEF n
<1> QED
  BY <1>2, <1>3, <1>4

LEMMA OneStreamArrives ==
  ASSUME Inherited, Inherited', LogInv, LogInv', Advance, NEW s \in Stream,
         \A t \in Stream \ {s} : Len(wire) + 1 \notin Staged(t, Kinds)
  PROVE  /\ Code' = [Code EXCEPT ![s] = Code'[s]]
         /\ Delivered' = [Delivered EXCEPT ![s] = Delivered'[s]]
         /\ Ended' = IF s \in Ended' THEN Ended \cup {s} ELSE Ended \ {s}
<1>1. \A t \in Stream \ {s} :
        /\ Code'[t] = Code[t] /\ Delivered'[t] = Delivered[t]
        /\ t \in Ended' <=> t \in Ended
  BY OthersGetNothing
<1>2. /\ Code = [t \in Stream |-> Code[t]] /\ Code' = [t \in Stream |-> Code'[t]]
      /\ Delivered = [t \in Stream |-> Delivered[t]]
      /\ Delivered' = [t \in Stream |-> Delivered'[t]]
      /\ Ended \subseteq Stream /\ Ended' \subseteq Stream
  BY DEF Code, Delivered, Ended
<1> QED
  BY <1>1, <1>2

\* The last frame of a body completes it.
LEMMA LastOfBody ==
  ASSUME Inherited, Inherited', LogInv, LogInv', ExchangeInv, Advance,
         NEW s \in Stream, frames[Len(wire) + 1].kind = "END",
         frames[Len(wire) + 1].stream = s
  PROVE  Delivered'[s] = total[s]
<1> DEFINE n == Len(wire) + 1
           N == Len(frames)
           v == Values(s, Body)
<1>1. /\ n \in 1..N /\ n \in Nat /\ N \in Nat /\ n <= N
      /\ \A i \in 1..N : v[i] \in Nat
  BY WirePlaces, ValuesNat, KindSets DEF Advance
<1>2. n \in Staged(s, Last) /\ n \in Staged(s, {"END"})
  BY <1>1 DEF Staged, Last
<1>3. StreamLog(s)
  BY DEF ExchangeInv
<1>4. \A m \in Staged(s, Body) : m <= n
  <2>1. Staged(s, Body) \subseteq Staged(s, Kinds)
    BY DEF Staged, Kinds
  <2> QED
    BY <1>2, <1>3, <2>1 DEF StreamLog, NothingAfterLast
<1>5. \A i \in (n + 1)..N : v[i] = 0
  BY <1>1, <1>4 DEF Values
<1>6. body[s] = total[s]
  <2>1. answer[s] = "done"
    BY <1>2, <1>3 DEF StreamLog, Progress
  <2> QED
    BY <2>1 DEF Inherited, HP!IInv, HP!BodyComplete
<1>7. SumTo(v, N) = body[s]
  BY <1>3 DEF StreamLog, BodyLogged
<1>8. Delivered'[s] = SumTo(v, n)
  <2>1. Delivered[s] = SumTo(v, Len(wire))
    BY OnWire, KindSets DEF Delivered
  <2>2. Delivered'[s] = Delivered[s] + v[n]
    BY Arrives
  <2> QED
    BY <2>1, <2>2, SumStep, WirePlaces
<1> HIDE DEF v, n, N
<1>9. SumTo(v, N) = SumTo(v, n)
  BY <1>1, <1>5, SumGrows
<1> QED
  BY <1>6, <1>7, <1>8, <1>9

\* What a frame of stream s does when it is transmitted.
LEMMA ArrivalStep ==
  ASSUME Inherited, Inherited', LogInv, LogInv', ExchangeInv, ExchangeInv',
         Advance, UNCHANGED streamVars, NEW s \in Stream,
         Len(wire) + 1 \in Staged(s, Kinds)
  PROVE  Peer!Respond(s) \/ Peer!Data(s) \/ Peer!End(s) \/ Peer!Reset(s)
<1> DEFINE n == Len(wire) + 1
           N == Len(frames)
           f == frames[n]
<1>1. n \in 1..N /\ n \in Nat /\ Len(wire) < n /\ f.kind \in Kinds /\ f.stream = s
  BY WirePlaces DEF Staged
<1>2. StreamLog(s)
  BY DEF ExchangeInv
<1>3. s \notin Ended
  BY NotYetEnded
<1>4. /\ Code' = [Code EXCEPT ![s] = Code'[s]]
      /\ Delivered' = [Delivered EXCEPT ![s] = Delivered'[s]]
      /\ Ended' = IF s \in Ended' THEN Ended \cup {s} ELSE Ended \ {s}
  <2>1. \A t \in Stream \ {s} : n \notin Staged(t, Kinds)
    BY <1>1 DEF Staged
  <2> QED
    BY <2>1, OneStreamArrives
<1>5. /\ Code'[s] = Code[s] + Values(s, {"HEADERS"})[n]
      /\ Delivered'[s] = Delivered[s] + Values(s, Body)[n]
      /\ s \in Ended' <=> n \in Staged(s, Last)
      /\ Code[s] \in Nat /\ Delivered[s] \in Nat
  BY <1>3, Arrives
<1>6. UNCHANGED <<asked, total>>
  BY DEF streamVars
<1>7. \A kinds : n \in Staged(s, kinds) <=> f.kind \in kinds
  BY <1>1 DEF Staged
<1>8. \A kinds :
        Values(s, kinds)[n] = IF f.kind \in kinds THEN f.value ELSE 0
  BY <1>1, <1>7 DEF Values
<1>9. /\ Code \in [Stream -> Nat] /\ Delivered \in [Stream -> Nat]
  BY OnWire, KindSets DEF Code, Delivered
<1> HIDE DEF n, N, f
<1>10. CASE f.kind = "HEADERS"
  <2>1. n \in Staged(s, {"HEADERS"}) /\ f.kind \notin Body /\ f.kind \notin Last
    BY <1>7, <1>10 DEF Body, Last
  <2>2. PICK h \in 1..Len(frames) :
          Staged(s, {"HEADERS"}) = {h} /\ frames[h].value \in {200, 404}
    BY <1>2, <2>1 DEF StreamLog, HeadFirst
  <2>3. h = n /\ f.value \in {200, 404}
    BY <2>1, <2>2 DEF f
  <2>4. Code[s] = 0
    BY <1>1, <2>2, <2>3, CodeKnown
  <2>5. Code'[s] = f.value
    BY <1>5, <1>8, <1>10, <2>3, <2>4
  <2>6. Delivered' = Delivered
    <3>1. Delivered'[s] = Delivered[s]
      BY <1>5, <1>8, <2>1
    <3> QED
      BY <1>4, <1>9, <3>1
  <2>7. Ended' = Ended
    <3>1. s \notin Ended'
      BY <1>5, <1>7, <2>1
    <3>2. Ended' = Ended \ {s}
      BY <1>4, <3>1
    <3> QED
      BY <1>3, <3>2
  <2>8. s \in asked
    BY <1>2, <2>1 DEF StreamLog, HeadFirst, Progress
  <2>9. \E c \in {200, 404} : Code' = [Code EXCEPT ![s] = c]
    BY <1>4, <2>3, <2>5
  <2>10. Peer!Respond(s)
    BY <1>3, <1>6, <2>4, <2>6, <2>7, <2>8, <2>9
       DEF Peer!Respond, Code, Delivered, Ended, Body, Last
  <2> QED
    BY <2>10
<1>11. ASSUME f.kind \in Body
       PROVE  /\ Code[s] # 0 /\ Code' = Code
              /\ Delivered'[s] = Delivered[s] + f.value /\ f.value \in Nat
  <2>1. n \in Staged(s, Body) /\ f.kind \notin {"HEADERS"}
    BY <1>7, <1>11 DEF Body
  <2>2. PICK h \in 1..Len(frames) :
          /\ Staged(s, {"HEADERS"}) = {h} /\ frames[h].value \in {200, 404}
          /\ \A m \in Staged(s, Body) : h < m
    BY <1>2, <2>1 DEF StreamLog, HeadFirst
  <2>3. ~(Len(wire) < h)
    BY <2>1, <2>2, WirePlaces DEF n
  <2>4. Code[s] # 0
    BY <2>2, <2>3, CodeKnown
  <2>5. Code' = Code
    <3>1. Code'[s] = Code[s]
      BY <1>5, <1>8, <2>1
    <3> QED
      BY <1>4, <1>9, <3>1
  <2>6. f.value \in Nat
    BY <2>1, ValuesNat, KindSets DEF f
  <2> QED
    BY <1>5, <1>8, <1>11, <2>4, <2>5, <2>6
<1>12. CASE f.kind = "DATA"
  <2>1. f.kind \in Body /\ f.kind \notin Last
    BY <1>12 DEF Body, Last
  <2>2. /\ Code[s] # 0 /\ Code' = Code
        /\ Delivered'[s] = Delivered[s] + f.value /\ f.value \in Nat
    BY <1>11, <2>1
  <2>3. Ended' = Ended
    <3>1. s \notin Ended'
      BY <1>5, <1>7, <2>1
    <3>2. Ended' = Ended \ {s}
      BY <1>4, <3>1
    <3> QED
      BY <1>3, <3>2
  <2>4. Delivered'[s] <= total[s] /\ total[s] \in Nat
    <3>1. Delivered'[s] <= body'[s]
      BY DeliveredNext DEF DeliveredBounded
    <3>2. body' = body
      BY DEF streamVars
    <3>3. body[s] <= total[s] /\ body[s] \in Nat /\ total[s] \in Nat
      BY <1>2, StreamTypes DEF StreamLog, BodyLogged
    <3> QED
      BY <1>5, <2>2, <3>1, <3>2, <3>3
  <2>5. f.value \in 0..(MaxFileLen + ErrorLen)
    <3>1. total[s] <= MaxFileLen + ErrorLen
      BY <1>2 DEF StreamLog, BodyLogged
    <3>2. MaxFileLen \in Nat /\ ErrorLen \in Nat
      BY ConnectionAssumption DEF H!Http2SessionAssumption
    <3> QED
      BY <1>5, <2>2, <2>4, <3>1, <3>2
  <2>6. \E v \in 0..(MaxFileLen + ErrorLen) :
          /\ Delivered[s] + v <= total[s]
          /\ Delivered' = [Delivered EXCEPT ![s] = @ + v]
    <3>1. Delivered' = [Delivered EXCEPT ![s] = @ + f.value]
      BY <1>4, <1>9, <2>2
    <3> QED
      BY <2>2, <2>4, <2>5, <3>1
  <2>7. Peer!Data(s)
    BY <1>3, <1>6, <2>2, <2>3, <2>6
       DEF Peer!Data, Code, Delivered, Ended, Body, Last
  <2> QED
    BY <2>7
<1>13. CASE f.kind = "END"
  <2>1. f.kind \in Body /\ f.kind \in Last
    BY <1>13 DEF Body, Last
  <2>2. Code[s] # 0 /\ Code' = Code
    BY <1>11, <2>1
  <2>3. Ended' = Ended \cup {s}
    BY <1>4, <1>5, <1>7, <2>1
  <2>4. Delivered'[s] = total[s]
    BY <1>1, <1>13, LastOfBody DEF n, f
  <2>5. Delivered' = [Delivered EXCEPT ![s] = total[s]]
    BY <1>4, <2>4
  <2>6. Peer!End(s)
    BY <1>3, <1>6, <2>2, <2>3, <2>5
       DEF Peer!End, Code, Delivered, Ended, Body, Last
  <2> QED
    BY <2>6
<1>14. CASE f.kind = "RST"
  <2>1. f.kind \notin {"HEADERS"} /\ f.kind \notin Body /\ f.kind \in Last
    BY <1>14 DEF Body, Last
  <2>2. Code'[s] = Code[s] /\ Delivered'[s] = Delivered[s]
    BY <1>5, <1>8, <2>1
  <2>3. Code' = Code /\ Delivered' = Delivered
    BY <1>4, <1>9, <2>2
  <2>4. Ended' = Ended \cup {s}
    BY <1>4, <1>5, <1>7, <2>1
  <2>5. Peer!Reset(s)
    BY <1>3, <1>6, <2>3, <2>4
       DEF Peer!Reset, Code, Delivered, Ended, Body, Last
  <2> QED
    BY <2>5
<1> QED
  BY <1>1, <1>10, <1>12, <1>13, <1>14 DEF Kinds, Body, Last

-----------------------------------------------------------------------------
(* The refinement.                                                         *)

LEMMA PeerInit == Init => Peer!Init
<1> SUFFICES ASSUME Init PROVE Peer!Init
  OBVIOUS
<1>1. Len(wire) = 0 /\ asked = {} /\ total = [s \in Stream |-> 0]
  BY DEF Init, S!Init, S!Queue!Init, H!Init
<1>2. \A s \in Stream : \A kinds : Seen(s, kinds) = {} /\ Carried(s, kinds) = 0
  BY <1>1, SumStep DEF Seen, Carried
<1> QED
  BY <1>1, <1>2 DEF Peer!Init

LEMMA PeerStep ==
  Inherited /\ Inherited' /\ LogInv /\ LogInv' /\ ExchangeInv /\ ExchangeInv'
    /\ [Next]_vars => [Peer!Next]_(Peer!vars)
<1> SUFFICES ASSUME Inherited, Inherited', LogInv, LogInv', ExchangeInv,
                    ExchangeInv', [Next]_vars
             PROVE  Peer!Next \/ UNCHANGED Peer!vars
  OBVIOUS
<1>1. CASE UNCHANGED <<frames, streamVars, wire>>
  BY <1>1, MappingStays, PeerVars DEF streamVars
<1>2. CASE Advance /\ UNCHANGED streamVars
  <2>1. CASE \E s \in Stream : Len(wire) + 1 \in Staged(s, Kinds)
    BY <1>2, <2>1, ArrivalStep DEF Peer!Next
  <2>2. CASE \A s \in Stream : Len(wire) + 1 \notin Staged(s, Kinds)
    <3>1. \A s \in Stream :
            /\ Code'[s] = Code[s] /\ Delivered'[s] = Delivered[s]
            /\ s \in Ended' <=> s \in Ended
      BY <1>2, <2>2, OthersGetNothing
    <3>2. UNCHANGED <<Code, Delivered, Ended>>
      BY <3>1 DEF Code, Delivered, Ended
    <3> QED
      BY <1>2, <3>2, PeerVars DEF streamVars
  <2> QED
    BY <2>1, <2>2
<1>3. CASE UNCHANGED <<wire, streamVars>> /\ \E f \in LibraryFrame : SendFrame(f)
  BY <1>3, LogKeeps, MappingStays, PeerVars DEF streamVars
<1>4. ASSUME UNCHANGED wire, NEW s \in Stream, Receive(s)
      PROVE  Peer!Next \/ UNCHANGED Peer!vars
  BY <1>4, AskStep DEF Peer!Next
<1>5. ASSUME UNCHANGED wire, NEW s \in Stream, SendData(s)
      PROVE  Peer!Next \/ UNCHANGED Peer!vars
  BY <1>5, MeasureStep DEF Peer!Next
<1>6. ASSUME UNCHANGED wire, NEW s \in Stream, SendHeaders(s) \/ LibraryReset(s)
      PROVE  UNCHANGED Peer!vars
  <2>1. UNCHANGED <<asked, total>>
    BY <1>6 DEF SendHeaders, LibraryReset, SendFrame, H!SendHeaders,
       H!LibraryReset, H!history
  <2>2. \E f : SendFrame(f)
    BY <1>6 DEF SendHeaders, LibraryReset
  <2> QED
    BY <1>6, <2>1, <2>2, LogKeeps, MappingStays, PeerVars
<1> QED
  BY <1>1, <1>2, <1>3, <1>4, <1>5, <1>6, StepsOfExchange

\* What the peer sees on its streams is an Exchange, for any streams, files,
\* lengths and windows: the wire carries what the log holds from its
\* beginning, and the log of a stream is its answer as the callbacks made it.
THEOREM ExchangeImplemented == SafeSpec => Peer!Spec /\ ImplementsExchange
<1>1. SafeSpec => Peer!Spec
  BY PeerInit, PeerStep, Inheritance, LogInit, LogStep, ExchangeInit,
     ExchangeStep, PTL DEF SafeSpec, Peer!Spec
<1>2. [Peer!Next]_(Peer!vars) => [Unseen \/ Peer!Next]_(Peer!vars)
  OBVIOUS
<1> QED
  BY <1>1, <1>2, PTL DEF Peer!Spec, ImplementsExchange
=============================================================================
