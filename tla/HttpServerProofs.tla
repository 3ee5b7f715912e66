-------------------------- MODULE HttpServerProofs --------------------------
(***************************************************************************)
(* Proofs about modules HttpServer and HttpContext: for any requests that  *)
(* clients may write, cut into reads at any place, the parser takes them   *)
(* for what they are.                                                      *)
(***************************************************************************)
EXTENDS HttpServer, TLAPS, SequenceTheorems, WellFoundedInduction

(* The tokens of a text.  The five that have a meaning are named because   *)
(* the provers do not know which strings there are.                        *)
Tokens == STRING \cup {"SP", "?", ":", "CR", "LF"}

(* Where the text goes on behind the first k lines of the i-th request. *)
Pos(client, i, k) ==
    EndOf(client, i - 1) + Len(Joined(LinesOf(client[i]))[k])

(* Place p of the text is where line k + 1 of request i begins. *)
LineBegins(client, p, i, k) ==
    /\ i \in 1..Len(client) /\ k \in 0..(LineCount(client[i]) - 1)
    /\ p = Pos(client, i, k)

AtLine(client, p) ==
    \/ p = Len(Stream(client))
    \/ \E i, k \in Nat : LineBegins(client, p, i, k)

(* What is in the buffer, and what is still to be read, is the text from   *)
(* place p on.                                                             *)
Window(text, p, buf, remaining) ==
    /\ buf \in Seq(Tokens) /\ remaining \in Seq(Tokens) /\ p \in Nat
    /\ p + Len(buf) + Len(remaining) = Len(text)
    /\ \A j \in 1..Len(buf) : buf[j] = text[p + j]
    /\ \A j \in 1..Len(remaining) : remaining[j] = text[p + Len(buf) + j]

(* The request of a client that has been parsed up to its k-th header. *)
MeaningUpto(r, k) ==
    [method |-> Methods[r.method], path |-> r.path, query |-> r.query,
     version |-> setVersion(<<r.version>>), headers |-> HeadersUpto(r, k)]

(* The parse that began at place b has come to place p, which is behind    *)
(* the first k headers of request i.                                       *)
Halfway(client, b, p, ctx, i, k) ==
    /\ i \in 1..Len(client) /\ k \in 0..Len(client[i].headers)
    /\ b = EndOf(client, i - 1) /\ p = Pos(client, i, k + 1)
    /\ WellFormed(client[i]) /\ ctx.ok
    /\ ctx = [state |-> "kExpectHeaders", ok |-> TRUE,
              request |-> MeaningUpto(client[i], k)]

Complete(client, b, p, ctx, i) ==
    /\ i \in 1..Len(client)
    /\ b = EndOf(client, i - 1) /\ p = EndOf(client, i)
    /\ WellFormed(client[i])
    /\ ctx = [state |-> "kGotAll", ok |-> TRUE, request |-> Meaning(client[i])]

(* Why a request line could not be used. *)
Rejected(client, b) ==
    \E i \in 1..Len(client) :
        b = EndOf(client, i - 1) /\ ~WellFormed(client[i])

TextInv ==
    /\ requests \in Clients /\ httpCallback \in Callbacks
    /\ connState \in {"kConnected", "kDisconnecting", "kDisconnected"}
    /\ pc \in {"idle", "parse", "parsed"} /\ cut \in BOOLEAN
    /\ Window(Stream(requests), Parsed, inputBuffer, rest)
    /\ AtLine(requests, Parsed)
    /\ begin \in 0..Parsed

ContextInv ==
    /\ \/ context = NewContext
       \/ \E i, k \in Nat : Halfway(requests, begin, Parsed, context, i, k)
       \/ \E i \in Nat : Complete(requests, begin, Parsed, context, i)
    /\ pc = "parse" => ~gotAll(context)
    /\ pc # "idle" /\ context = NewContext => begin = Parsed
    /\ pc = "parse" /\ context = NewContext => inputBuffer # <<>>

(* Without a cut a parse begins and ends where a request does. *)
CutInv ==
    ~cut =>
        /\ Received \in Ends(requests) /\ begin \in Ends(requests)
        /\ pc = "idle" => Parsed \in Ends(requests)
        /\ pc = "parsed" => gotAll(context) \/ Rejected(requests, begin)

(* The answers so far are those to the requests before the next parse. *)
AnswerInv ==
    /\ \E X : sent \in Seq(X)
    /\ connState = "kConnected" =>
         \A i \in 1..Len(sent) : sent[i].connection = "Keep-Alive"
    /\ \A i \in 1..(Len(sent) - 1) : sent[i].connection = "Keep-Alive"
    /\ ~cut =>
         /\ Len(sent) <= Len(requests)
         /\ \A i \in 1..Len(sent) : sent[i] = Answer(requests[i])
         /\ connState = "kConnected" =>
              EndOf(requests, Len(sent)) = IF pc = "idle" THEN Parsed ELSE begin

IInv ==
    /\ TextInv
    /\ ContextInv
    /\ CutInv
    /\ AnswerInv
    /\ BadRequestHasCause

-----------------------------------------------------------------------------
(* Least numbers, and induction with a set for the property.               *)

(* Every set of numbers that has a member has a least one. *)
LEMMA LeastNumber ==
    ASSUME NEW T, T \subseteq Nat, T # {}
    PROVE  \E n \in T : \A m \in T : n <= m
  <1>1. PICK n \in T : \A m \in T : ~(<<m, n>> \in OpToRel(<, Nat))
    BY NatLessThanWellFounded, WFMin
  <1>2. \A m \in T : ~(m < n)
    BY <1>1 DEF OpToRel
  <1> QED
    BY <1>2

(* Induction, by the least number that is not in T. *)
LEMMA Induction ==
    ASSUME NEW T, 0 \in T, \A n \in Nat : n \in T => n + 1 \in T
    PROVE  \A n \in Nat : n \in T
  <1> SUFFICES ASSUME Nat \ T # {} PROVE FALSE
    OBVIOUS
  <1>1. PICK n \in Nat \ T : \A m \in Nat \ T : n <= m
    BY LeastNumber
  <1>2. n # 0 /\ n - 1 \in Nat /\ n - 1 \in T
    BY <1>1
  <1> QED
    BY <1>1, <1>2

(* Min and Max of a set are what their names say. *)
LEMMA MinIs ==
    ASSUME NEW S, S \subseteq Int, NEW m \in S, \A n \in S : m <= n
    PROVE  Min(S) = m
  <1>1. PICK x \in S : x = Min(S) /\ \A n \in S : x <= n
    BY DEF Min
  <1>2. x <= m /\ m <= x /\ x \in Int /\ m \in Int
    BY <1>1
  <1> QED
    BY <1>1, <1>2

LEMMA MaxIs ==
    ASSUME NEW S, S \subseteq Int, NEW m \in S, \A n \in S : n <= m
    PROVE  Max(S) = m
  <1>1. PICK x \in S : x = Max(S) /\ \A n \in S : n <= x
    <2>1. \A n \in S : m >= n
      OBVIOUS
    <2>2. PICK x \in S : x = Max(S) /\ \A n \in S : x >= n
      BY <2>1 DEF Max
    <2> QED
      BY <2>2
  <1>2. x <= m /\ m <= x /\ x \in Int /\ m \in Int
    BY <1>1
  <1> QED
    BY <1>1, <1>2

-----------------------------------------------------------------------------
(* Joined.                                                                 *)

(* The concatenation of two sequences over T is one. *)
LEMMA ConcatType ==
    ASSUME NEW T, NEW a \in Seq(T), NEW b \in Seq(T)
    PROVE  a \o b \in Seq(T)
  OBVIOUS

(* f is what the recursive definition of Joined asks for, up to n. *)
Joins(f, seqs, n) ==
    f = [i \in 0..n |-> IF i = 0 THEN <<>> ELSE f[i - 1] \o seqs[i]]

(* There is such a function, by induction on n. *)
LEMMA JoinsExists ==
    ASSUME NEW seqs, NEW n \in Nat
    PROVE  \E f : Joins(f, seqs, n)
  <1> DEFINE T == {m \in Nat : \E f : Joins(f, seqs, m)}
  <1>1. 0 \in T
    <2> DEFINE f == [i \in 0..0 |-> <<>>]
    <2>1. Joins(f, seqs, 0)
      BY DEF Joins
    <2> QED
      BY <2>1
  <1>2. ASSUME NEW m \in Nat, m \in T
        PROVE  m + 1 \in T
    <2>1. PICK f : Joins(f, seqs, m)
      BY <1>2
    <2> DEFINE g == [i \in 0..(m + 1) |->
                        IF i <= m THEN f[i] ELSE f[m] \o seqs[m + 1]]
    <2>2. Joins(g, seqs, m + 1)
      BY <2>1 DEF Joins
    <2> HIDE DEF g
    <2> QED
      BY <2>2
  <1> HIDE DEF T
  <1>3. \A m \in Nat : m \in T
    BY <1>1, <1>2, Induction
  <1> QED
    BY <1>3 DEF T

(* So Joined is one. *)
LEMMA JoinedJoins ==
    ASSUME NEW seqs, Len(seqs) \in Nat
    PROVE  Joins(Joined(seqs), seqs, Len(seqs))
  <1> DEFINE Upto[i \in 0..Len(seqs)] ==
                IF i = 0 THEN <<>> ELSE Upto[i - 1] \o seqs[i]
  <1>1. Joined(seqs) = Upto
    BY DEF Joined
  <1>2. \E f : Joins(f, seqs, Len(seqs))
    BY JoinsExists
  <1>3. Joins(Upto, seqs, Len(seqs))
    BY <1>2 DEF Joins
  <1> QED
    BY <1>1, <1>3

(* What is joined is a sequence, and a step of it adds the next one. *)
LEMMA JoinedSeq ==
    ASSUME NEW T, NEW seqs, NEW n \in Nat, n = Len(seqs),
           \A i \in 1..n : seqs[i] \in Seq(T)
    PROVE  /\ Joined(seqs)[0] = <<>>
           /\ \A i \in 0..n : Joined(seqs)[i] \in Seq(T)
           /\ \A i \in 1..n : Joined(seqs)[i] = Joined(seqs)[i - 1] \o seqs[i]
  <1>1. PICK J : J = Joined(seqs)
    OBVIOUS
  <1>2. Joins(J, seqs, n)
    BY <1>1, JoinedJoins
  <1>3. J[0] = <<>> /\ \A i \in 1..n : J[i] = J[i - 1] \o seqs[i]
    <2> DEFINE G == [i \in 0..n |-> IF i = 0 THEN <<>> ELSE J[i - 1] \o seqs[i]]
    <2>1. J = G
      BY <1>2 DEF Joins
    <2>2. G[0] = <<>>
      OBVIOUS
    <2>3. ASSUME NEW i \in 1..n
          PROVE  G[i] = J[i - 1] \o seqs[i]
      <3>1. i \in 0..n /\ i # 0
        OBVIOUS
      <3> QED
        BY <3>1, Zenon
    <2> HIDE DEF G
    <2> QED
      BY <2>1, <2>2, <2>3
  <1> DEFINE S == {i \in Nat : i <= n => J[i] \in Seq(T)}
  <1>4. 0 \in S
    <2>1. <<>> \in Seq(T)
      BY EmptySeq
    <2> QED
      BY <1>3, <2>1
  <1>5. ASSUME NEW i \in Nat, i \in S
        PROVE  i + 1 \in S
    <2> SUFFICES ASSUME i + 1 <= n PROVE J[i + 1] \in Seq(T)
      OBVIOUS
    <2>1. i + 1 \in 1..n /\ (i + 1) - 1 = i /\ J[i] \in Seq(T)
      BY <1>5
    <2>2. J[i + 1] = J[i] \o seqs[i + 1] /\ seqs[i + 1] \in Seq(T)
      BY <1>3, <2>1
    <2> QED
      BY <2>1, <2>2
  <1> HIDE DEF S
  <1>6. \A i \in Nat : i \in S
    BY <1>4, <1>5, Induction
  <1>7. \A i \in 0..n : J[i] \in Seq(T)
    BY <1>6 DEF S
  <1> QED
    BY <1>1, <1>3, <1>7

(* Sequence s is the front of t. *)
FrontOf(s, t) == Len(s) <= Len(t) /\ \A k \in 1..Len(s) : t[k] = s[k]

(* A shorter join is the front of a longer one. *)
LEMMA JoinedFront ==
    ASSUME NEW T, NEW seqs, NEW n \in Nat, n = Len(seqs),
           \A i \in 1..n : seqs[i] \in Seq(T), NEW i \in 0..n, NEW j \in i..n
    PROVE  FrontOf(Joined(seqs)[i], Joined(seqs)[j])
  <1>1. PICK J : J = Joined(seqs)
    OBVIOUS
  <1>2. /\ \A m \in 0..n : J[m] \in Seq(T)
        /\ \A m \in 1..n : J[m] = J[m - 1] \o seqs[m]
    BY <1>1, JoinedSeq
  <1> DEFINE S == {d \in Nat : i + d <= n => FrontOf(J[i], J[i + d])}
  <1>3. 0 \in S
    <2>1. FrontOf(J[i], J[i])
      BY <1>2 DEF FrontOf
    <2> QED
      BY <2>1
  <1>4. ASSUME NEW d \in Nat, d \in S
        PROVE  d + 1 \in S
    <2> SUFFICES ASSUME i + (d + 1) <= n PROVE FrontOf(J[i], J[i + (d + 1)])
      OBVIOUS
    <2>1. PICK m \in 1..n : m = i + (d + 1)
      OBVIOUS
    <2>2. m - 1 = i + d /\ m - 1 \in 0..n
      BY <2>1
    <2>3. FrontOf(J[i], J[m - 1])
      BY <1>4, <2>1, <2>2
    <2>4. PICK a \in Seq(T), b \in Seq(T) : a = J[m - 1] /\ b = seqs[m]
      BY <1>2, <2>2
    <2>5. J[m] = a \o b
      BY <1>2, <2>4
    <2>6. PICK c \in Seq(T) : c = a \o b
      BY ConcatType
    <2>7. /\ Len(c) = Len(a) + Len(b) /\ Len(a) \in Nat /\ Len(b) \in Nat
          /\ \A k \in 1..Len(a) : c[k] = a[k]
      BY <2>6
    <2>8. PICK f \in Seq(T) : f = J[i] /\ Len(f) \in Nat
      BY <1>2
    <2>9. Len(f) <= Len(a) /\ \A k \in 1..Len(f) : a[k] = f[k]
      BY <2>3, <2>4, <2>8 DEF FrontOf
    <2>10. Len(f) <= Len(c) /\ \A k \in 1..Len(f) : c[k] = f[k]
      BY <2>7, <2>8, <2>9
    <2>11. FrontOf(J[i], J[m])
      BY <2>5, <2>6, <2>8, <2>10 DEF FrontOf
    <2> QED
      BY <2>1, <2>11
  <1> HIDE DEF S
  <1>5. \A d \in Nat : d \in S
    BY <1>3, <1>4, Induction
  <1>6. FrontOf(J[i], J[j])
    <2>1. j - i \in Nat /\ i + (j - i) = j /\ j <= n
      OBVIOUS
    <2>2. j - i \in S
      BY <1>5, <2>1
    <2> QED
      BY <2>1, <2>2 DEF S
  <1> QED
    BY <1>1, <1>6

(* The sequence part is in whole behind the first a members. *)
Within(whole, a, part) ==
    /\ a \in Nat /\ Len(whole) \in Nat /\ Len(part) \in Nat
    /\ a + Len(part) <= Len(whole)
    /\ \A k \in 1..Len(part) : whole[a + k] = part[k]

(* The second of two sequences is behind the first. *)
LEMMA WithinConcat ==
    ASSUME NEW T, NEW a \in Seq(T), NEW b \in Seq(T), NEW w \in Seq(T),
           FrontOf(a \o b, w)
    PROVE  Within(w, Len(a), b) /\ Len(a \o b) = Len(a) + Len(b)
  <1>1. /\ Len(a \o b) = Len(a) + Len(b) /\ Len(a) \in Nat /\ Len(b) \in Nat
        /\ \A k \in 1..Len(b) : (a \o b)[Len(a) + k] = b[k]
    OBVIOUS
  <1>2. PICK c : c = a \o b
    OBVIOUS
  <1>3. Len(c) <= Len(w) /\ Len(w) \in Nat /\ \A k \in 1..Len(c) : w[k] = c[k]
    BY <1>2 DEF FrontOf
  <1>4. \A k \in 1..Len(b) : w[Len(a) + k] = b[k]
    <2> SUFFICES ASSUME NEW k \in 1..Len(b) PROVE w[Len(a) + k] = b[k]
      OBVIOUS
    <2>1. Len(a) + k \in 1..Len(c)
      BY <1>1, <1>2
    <2> QED
      BY <1>1, <1>2, <1>3, <2>1
  <1> QED
    BY <1>1, <1>2, <1>3, <1>4 DEF Within

(* A part of a part is a part. *)
LEMMA WithinTrans ==
    ASSUME NEW x, NEW y, NEW z, NEW a, NEW b, Within(x, a, y), Within(y, b, z)
    PROVE  Within(x, a + b, z)
  <1>1. PICK nx \in Nat, ny \in Nat, nz \in Nat :
            nx = Len(x) /\ ny = Len(y) /\ nz = Len(z)
    BY DEF Within
  <1>2. /\ a \in Nat /\ b \in Nat /\ a + ny <= nx /\ b + nz <= ny
        /\ \A k \in 1..ny : x[a + k] = y[k]
        /\ \A k \in 1..nz : y[b + k] = z[k]
    BY <1>1 DEF Within
  <1>3. a + b \in Nat /\ (a + b) + nz <= nx
    BY <1>2
  <1>4. \A k \in 1..nz : x[(a + b) + k] = z[k]
    <2> SUFFICES ASSUME NEW k \in 1..nz PROVE x[(a + b) + k] = z[k]
      OBVIOUS
    <2>1. b + k \in 1..ny /\ a + (b + k) = (a + b) + k
      BY <1>2
    <2> QED
      BY <1>2, <2>1
  <1> QED
    BY <1>1, <1>3, <1>4 DEF Within

(* The i-th sequence is in the whole where the join of those before ends. *)
Piece(J, n, i, s) ==
    /\ Within(J[n], Len(J[i - 1]), s)
    /\ Len(J[i]) = Len(J[i - 1]) + Len(s)

LEMMA JoinedAt ==
    ASSUME NEW T, NEW seqs, NEW n \in Nat, n = Len(seqs),
           \A i \in 1..n : seqs[i] \in Seq(T), NEW J, J = Joined(seqs),
           NEW i \in 1..n
    PROVE  Piece(J, n, i, seqs[i])
  <1>1. /\ \A m \in 0..n : J[m] \in Seq(T)
        /\ \A m \in 1..n : J[m] = J[m - 1] \o seqs[m]
    BY JoinedSeq
  <1>2. PICK a \in Seq(T), b \in Seq(T), w \in Seq(T) :
            a = J[i - 1] /\ b = seqs[i] /\ w = J[n]
    BY <1>1
  <1>3. J[i] = a \o b
    BY <1>1, <1>2
  <1>4. FrontOf(J[i], w)
    <2>1. i \in 0..n /\ n \in i..n
      OBVIOUS
    <2>2. FrontOf(Joined(seqs)[i], Joined(seqs)[n])
      BY <2>1, JoinedFront
    <2> QED
      BY <1>2, <2>2
  <1>5. Within(w, Len(a), b) /\ Len(a \o b) = Len(a) + Len(b)
    BY <1>3, <1>4, WithinConcat
  <1> QED
    BY <1>2, <1>3, <1>5 DEF Piece

-----------------------------------------------------------------------------
(* The lines that a client writes.                                         *)

Plain == Tokens \ {"CR", "LF"}

RequestBody(r) == <<r.method, "SP">> \o r.path \o r.query \o <<"SP", r.version>>
HeaderBody(h) == <<h.field, ":", "SP">> \o h.value \o <<"SP">>

(* The k-th line of a request, without its end. *)
BodyOf(r, k) ==
    IF k = 1 THEN RequestBody(r)
    ELSE IF k < LineCount(r) THEN HeaderBody(r.headers[k - 1])
    ELSE <<>>

(* A sequence over S is one over a larger set. *)
LEMMA SeqMono ==
    ASSUME NEW S, NEW T, S \subseteq T, NEW s \in Seq(S)
    PROVE  s \in Seq(T)
  OBVIOUS

(* c is a sequence a of length m and a sequence b of length n behind it. *)
IsConcat(c, m, a, n, b) ==
    /\ Len(c) = m + n
    /\ \A k \in 1..m : c[k] = a[k]
    /\ \A k \in 1..n : c[m + k] = b[k]

(* What is where in the concatenation of two sequences. *)
LEMMA ConcatAt ==
    ASSUME NEW T, NEW a \in Seq(T), NEW b \in Seq(T), NEW m, NEW n,
           m = Len(a), n = Len(b)
    PROVE  a \o b \in Seq(T) /\ IsConcat(a \o b, m, a, n, b)
  <1>1. /\ a \o b \in Seq(T)
        /\ Len(a \o b) = Len(a) + Len(b)
        /\ \A k \in 1..Len(a) : (a \o b)[k] = a[k]
        /\ \A k \in 1..Len(b) : (a \o b)[Len(a) + k] = b[k]
    OBVIOUS
  <1> QED
    BY <1>1 DEF IsConcat

(* Short sequences. *)
LEMMA PairSeq ==
    ASSUME NEW T, NEW x \in T, NEW y \in T
    PROVE  /\ <<x, y>> \in Seq(T) /\ Len(<<x, y>>) = 2
           /\ <<x, y>>[1] = x /\ <<x, y>>[2] = y
  OBVIOUS

LEMMA TripleSeq ==
    ASSUME NEW T, NEW x \in T, NEW y \in T, NEW z \in T
    PROVE  /\ <<x, y, z>> \in Seq(T) /\ Len(<<x, y, z>>) = 3
           /\ <<x, y, z>>[1] = x /\ <<x, y, z>>[2] = y /\ <<x, y, z>>[3] = z
  OBVIOUS

LEMMA SingleSeq ==
    ASSUME NEW T, NEW x \in T
    PROVE  <<x>> \in Seq(T) /\ Len(<<x>>) = 1 /\ <<x>>[1] = x
  OBVIOUS

(* What a client may write does not end a line. *)
LEMMA PlainTokens ==
    /\ "SP" \in Plain /\ ":" \in Plain /\ "?" \in Plain
    /\ "CR" \in Tokens /\ "LF" \in Tokens
    /\ Words \subseteq Plain /\ Plain \subseteq Tokens
    /\ STRING \ {"SP", "?", "CR", "LF"} \subseteq Plain
    /\ STRING \ {"SP", "CR", "LF"} \subseteq Plain
    /\ STRING \ {"CR", "LF"} \subseteq Plain
  BY DEF Plain, Words, Tokens

(* Four sequences, of which the first and the last have two members. *)
IsFour(d, a, np, p, nq, q, z) ==
    /\ Len(d) = np + nq + 4
    /\ d[1] = a[1] /\ d[2] = a[2]
    /\ \A j \in 1..np : d[2 + j] = p[j]
    /\ \A j \in 1..nq : d[2 + np + j] = q[j]
    /\ d[np + nq + 3] = z[1] /\ d[np + nq + 4] = z[2]

LEMMA FourParts ==
    ASSUME NEW np \in Nat, NEW nq \in Nat, NEW a, NEW p, NEW q, NEW z,
           NEW b, NEW c, NEW d, IsConcat(b, 2, a, np, p),
           IsConcat(c, 2 + np, b, nq, q), IsConcat(d, 2 + np + nq, c, 2, z)
    PROVE  IsFour(d, a, np, p, nq, q, z)
  <1>1. /\ b[1] = a[1] /\ b[2] = a[2]
        /\ \A j \in 1..np : b[2 + j] = p[j]
    BY DEF IsConcat
  <1>2. /\ \A k \in 1..(2 + np) : c[k] = b[k]
        /\ \A j \in 1..nq : c[2 + np + j] = q[j]
    BY DEF IsConcat
  <1>3. /\ Len(d) = 2 + np + nq + 2
        /\ \A k \in 1..(2 + np + nq) : d[k] = c[k]
        /\ d[2 + np + nq + 1] = z[1] /\ d[2 + np + nq + 2] = z[2]
    BY DEF IsConcat
  <1> QED
    BY <1>1, <1>2, <1>3 DEF IsFour

(* A line of the request. *)
IsRequestBody(B, r, np, nq) ==
    /\ B \in Seq(Plain) /\ Len(B) = np + nq + 4
    /\ B[1] = r.method /\ B[2] = "SP"
    /\ \A j \in 1..np : B[2 + j] = r.path[j]
    /\ \A j \in 1..nq : B[2 + np + j] = r.query[j]
    /\ B[np + nq + 3] = "SP" /\ B[np + nq + 4] = r.version

LEMMA RequestBodyAt ==
    ASSUME NEW r, IsRequest(r), NEW np \in Nat, NEW nq \in Nat,
           np = Len(r.path), nq = Len(r.query)
    PROVE  IsRequestBody(RequestBody(r), r, np, nq)
  <1>1. /\ r.method \in Plain /\ r.version \in Plain
        /\ r.path \in Seq(Plain) /\ r.query \in Seq(Plain)
    <2>1. /\ r.method \in Words /\ r.version \in Words
          /\ r.path \in Seq(STRING \ {"SP", "?", "CR", "LF"})
          /\ r.query \in Seq(STRING \ {"SP", "CR", "LF"})
      BY DEF IsRequest, RequestType
    <2>2. r.path \in Seq(Plain)
      BY <2>1, PlainTokens, SeqMono
    <2>3. r.query \in Seq(Plain)
      BY <2>1, PlainTokens, SeqMono
    <2> QED
      BY <2>1, <2>2, <2>3, PlainTokens
  <1>2. PICK m, v, p, q : m = r.method /\ v = r.version /\ p = r.path /\ q = r.query
    OBVIOUS
  <1>3. m \in Plain /\ v \in Plain /\ p \in Seq(Plain) /\ q \in Seq(Plain)
    BY <1>1, <1>2
  <1>4. PICK a : a = <<m, "SP">>
    OBVIOUS
  <1>5. a \in Seq(Plain) /\ Len(a) = 2 /\ a[1] = m /\ a[2] = "SP"
    BY <1>3, <1>4, PlainTokens, PairSeq
  <1>6. PICK z : z = <<"SP", v>>
    OBVIOUS
  <1>7. z \in Seq(Plain) /\ Len(z) = 2 /\ z[1] = "SP" /\ z[2] = v
    BY <1>3, <1>6, PlainTokens, PairSeq
  <1>8. PICK b : b = a \o p
    OBVIOUS
  <1>9. b \in Seq(Plain) /\ IsConcat(b, 2, a, np, p)
    BY <1>2, <1>3, <1>5, <1>8, ConcatAt
  <1>10. Len(b) = 2 + np
    BY <1>9 DEF IsConcat
  <1>11. PICK c : c = b \o q
    OBVIOUS
  <1>12. c \in Seq(Plain) /\ IsConcat(c, 2 + np, b, nq, q)
    BY <1>2, <1>3, <1>9, <1>10, <1>11, ConcatAt
  <1>13. Len(c) = 2 + np + nq
    BY <1>12 DEF IsConcat
  <1>14. PICK d : d = c \o z
    OBVIOUS
  <1>15. d \in Seq(Plain) /\ IsConcat(d, 2 + np + nq, c, 2, z)
    BY <1>7, <1>12, <1>13, <1>14, ConcatAt
  <1>16. IsFour(d, a, np, p, nq, q, z)
    BY <1>9, <1>12, <1>15, FourParts
  <1>17. RequestBody(r) = d
    BY <1>2, <1>4, <1>6, <1>8, <1>11, <1>14 DEF RequestBody
  <1> QED
    BY <1>2, <1>5, <1>7, <1>15, <1>16, <1>17 DEF IsRequestBody, IsFour

IsHeaderBody(B, h, n) ==
    /\ B \in Seq(Plain) /\ Len(B) = n + 4
    /\ B[1] = h.field /\ B[2] = ":" /\ B[3] = "SP"
    /\ \A j \in 1..n : B[3 + j] = h.value[j]
    /\ B[n + 4] = "SP"

IsThree(c, a, n, v, z) ==
    /\ Len(c) = n + 4
    /\ c[1] = a[1] /\ c[2] = a[2] /\ c[3] = a[3]
    /\ \A j \in 1..n : c[3 + j] = v[j]
    /\ c[n + 4] = z[1]

(* A header line: three tokens, the value and a blank. *)
LEMMA ThreeParts ==
    ASSUME NEW n \in Nat, NEW a, NEW v, NEW z, NEW b, NEW c,
           IsConcat(b, 3, a, n, v), IsConcat(c, 3 + n, b, 1, z)
    PROVE  IsThree(c, a, n, v, z)
  <1>1. /\ b[1] = a[1] /\ b[2] = a[2] /\ b[3] = a[3]
        /\ \A j \in 1..n : b[3 + j] = v[j]
    BY DEF IsConcat
  <1>2. /\ Len(c) = 3 + n + 1
        /\ \A k \in 1..(3 + n) : c[k] = b[k]
        /\ c[3 + n + 1] = z[1]
    BY DEF IsConcat
  <1> QED
    BY <1>1, <1>2 DEF IsThree

LEMMA HeaderBodyAt ==
    ASSUME NEW h, IsHeader(h), NEW n \in Nat, n = Len(h.value)
    PROVE  IsHeaderBody(HeaderBody(h), h, n)
  <1>1. PICK f, v : f = h.field /\ v = h.value
    OBVIOUS
  <1>2. f \in Plain /\ v \in Seq(Plain)
    <2>1. f \in Words /\ v \in Seq(STRING \ {"CR", "LF"})
      BY <1>1 DEF IsHeader, Headers
    <2> QED
      BY <2>1, PlainTokens, SeqMono
  <1>3. PICK a : a = <<f, ":", "SP">>
    OBVIOUS
  <1>4. /\ a \in Seq(Plain) /\ Len(a) = 3
        /\ a[1] = f /\ a[2] = ":" /\ a[3] = "SP"
    BY <1>2, <1>3, PlainTokens, TripleSeq
  <1>5. PICK z : z = <<"SP">>
    OBVIOUS
  <1>6. z \in Seq(Plain) /\ Len(z) = 1 /\ z[1] = "SP"
    BY <1>5, PlainTokens, SingleSeq
  <1>7. PICK b : b = a \o v
    OBVIOUS
  <1>8. b \in Seq(Plain) /\ IsConcat(b, 3, a, n, v)
    BY <1>1, <1>2, <1>4, <1>7, ConcatAt
  <1>9. Len(b) = 3 + n
    BY <1>8 DEF IsConcat
  <1>10. PICK c : c = b \o z
    OBVIOUS
  <1>11. c \in Seq(Plain) /\ IsConcat(c, 3 + n, b, 1, z)
    BY <1>6, <1>8, <1>9, <1>10, ConcatAt
  <1>12. IsThree(c, a, n, v, z)
    BY <1>8, <1>11, ThreeParts
  <1>13. HeaderBody(h) = c
    BY <1>1, <1>3, <1>5, <1>7, <1>10 DEF HeaderBody
  <1> QED
    BY <1>1, <1>4, <1>6, <1>11, <1>12, <1>13 DEF IsHeaderBody, IsThree

(* Line L is the text B without line ends, and its end. *)
IsLine(L, B, n) ==
    /\ n \in Nat /\ B \in Seq(Plain) /\ Len(B) = n
    /\ L \in Seq(Tokens) /\ Len(L) = n + 2
    /\ \A j \in 1..n : L[j] = B[j]
    /\ L[n + 1] = "CR" /\ L[n + 2] = "LF"

(* A body and the end of the line. *)
LEMMA LineIs ==
    ASSUME NEW B \in Seq(Plain), NEW n, n = Len(B)
    PROVE  IsLine(Line(B), B, n)
  <1>1. B \in Seq(Tokens) /\ n \in Nat
    BY PlainTokens, SeqMono
  <1>2. PICK z : z = <<"CR", "LF">>
    OBVIOUS
  <1>3. z \in Seq(Tokens) /\ Len(z) = 2 /\ z[1] = "CR" /\ z[2] = "LF"
    BY <1>2, PlainTokens, PairSeq
  <1>4. PICK L : L = B \o z
    OBVIOUS
  <1>5. L \in Seq(Tokens) /\ IsConcat(L, n, B, 2, z)
    BY <1>1, <1>3, <1>4, ConcatAt
  <1>6. /\ Len(L) = n + 2 /\ \A j \in 1..n : L[j] = B[j]
        /\ L[n + 1] = z[1] /\ L[n + 2] = z[2]
    BY <1>1, <1>5 DEF IsConcat
  <1>7. Line(B) = L
    BY <1>2, <1>4 DEF Line
  <1> QED
    BY <1>1, <1>3, <1>5, <1>6, <1>7 DEF IsLine

(* The numbers of a request. *)
LEMMA RequestLengths ==
    ASSUME NEW r, IsRequest(r)
    PROVE  /\ Len(r.headers) \in Nat /\ Len(r.path) \in Nat /\ Len(r.query) \in Nat
           /\ LineCount(r) \in Nat /\ LineCount(r) >= 2
           /\ \A k \in 1..Len(r.headers) :
                IsHeader(r.headers[k]) /\ Len(r.headers[k].value) \in Nat
  BY DEF IsRequest, RequestType, LineCount, IsHeader, Headers

(* Every line of a request is a text without line ends, and its end. *)
LEMMA LineOf ==
    ASSUME NEW r, IsRequest(r), NEW k \in 1..LineCount(r)
    PROVE  IsLine(LinesOf(r)[k], BodyOf(r, k), Len(BodyOf(r, k)))
  <1>1. BodyOf(r, k) \in Seq(Plain)
    <2>1. CASE k = 1
      BY <2>1, RequestLengths, RequestBodyAt DEF BodyOf, IsRequestBody
    <2>2. CASE k # 1 /\ k < LineCount(r)
      <3>1. k - 1 \in 1..Len(r.headers)
        BY <2>2, RequestLengths DEF LineCount
      <3>2. PICK h : h = r.headers[k - 1] /\ IsHeader(h) /\ Len(h.value) \in Nat
        BY <3>1, RequestLengths
      <3>3. HeaderBody(h) \in Seq(Plain)
        BY <3>2, HeaderBodyAt DEF IsHeaderBody
      <3> QED
        BY <2>2, <3>2, <3>3 DEF BodyOf
    <2>3. CASE k # 1 /\ ~(k < LineCount(r))
      BY <2>3, EmptySeq DEF BodyOf
    <2> QED
      BY <2>1, <2>2, <2>3
  <1>2. LinesOf(r)[k] = Line(BodyOf(r, k))
    BY DEF LinesOf, BodyOf, RequestLine, HeaderLine, RequestBody, HeaderBody
  <1> QED
    BY <1>1, <1>2, LineIs

-----------------------------------------------------------------------------
(* Where the lines are in the text.                                        *)

IsClient(c) == c \in Seq(RequestType) /\ \A i \in 1..Len(c) : IsRequest(c[i])

(* The lines of a request are a sequence of texts. *)
LEMMA LinesSeq ==
    ASSUME NEW r, IsRequest(r), NEW s, s = LinesOf(r), NEW n, n = LineCount(r)
    PROVE  n \in Nat /\ n = Len(s) /\ \A k \in 1..n : s[k] \in Seq(Tokens)
  <1>1. n \in Nat
    BY RequestLengths
  <1>2. n = Len(s)
    BY <1>1 DEF LinesOf
  <1>3. \A k \in 1..n : s[k] \in Seq(Tokens)
    BY LineOf DEF IsLine
  <1> QED
    BY <1>1, <1>2, <1>3

(* The text of a request, and of its first lines. *)
LEMMA TextIs ==
    ASSUME NEW r, IsRequest(r), NEW J, J = Joined(LinesOf(r)), NEW n, n = LineCount(r)
    PROVE  /\ J[0] = <<>> /\ \A k \in 0..n : J[k] \in Seq(Tokens)
           /\ Text(r) = J[n] /\ Text(r) \in Seq(Tokens)
  <1>1. PICK s : s = LinesOf(r)
    OBVIOUS
  <1>2. n \in Nat /\ n = Len(s) /\ \A k \in 1..n : s[k] \in Seq(Tokens)
    BY <1>1, LinesSeq
  <1>3. J[0] = <<>> /\ \A k \in 0..n : J[k] \in Seq(Tokens)
    BY <1>1, <1>2, JoinedSeq
  <1> QED
    BY <1>2, <1>3 DEF Text

(* A line is in the text of its request. *)
LEMMA LineInText ==
    ASSUME NEW r, IsRequest(r), NEW J, J = Joined(LinesOf(r)),
           NEW k \in 1..LineCount(r), NEW L, L = LinesOf(r)[k]
    PROVE  Piece(J, LineCount(r), k, L)
  <1>1. PICK s : s = LinesOf(r)
    OBVIOUS
  <1>2. PICK n : n = LineCount(r)
    OBVIOUS
  <1>3. n \in Nat /\ n = Len(s) /\ \A j \in 1..n : s[j] \in Seq(Tokens)
    BY <1>1, <1>2, LinesSeq
  <1>4. k \in 1..n /\ J = Joined(s)
    BY <1>1, <1>2
  <1>5. Piece(J, n, k, s[k])
    BY <1>3, <1>4, JoinedAt
  <1> QED
    BY <1>1, <1>2, <1>5

(* More lines are not shorter. *)
LEMMA LinesGrow ==
    ASSUME NEW r, IsRequest(r), NEW k \in 0..LineCount(r), NEW m \in k..LineCount(r)
    PROVE  Len(Joined(LinesOf(r))[k]) <= Len(Joined(LinesOf(r))[m])
  <1>1. PICK s : s = LinesOf(r)
    OBVIOUS
  <1>2. PICK n : n = LineCount(r)
    OBVIOUS
  <1>3. n \in Nat /\ n = Len(s) /\ \A j \in 1..n : s[j] \in Seq(Tokens)
    BY <1>1, <1>2, LinesSeq
  <1>4. FrontOf(Joined(s)[k], Joined(s)[m])
    BY <1>2, <1>3, JoinedFront
  <1> QED
    BY <1>1, <1>4 DEF FrontOf

(* The requests of a client are a sequence of texts. *)
LEMMA TextsSeq ==
    ASSUME NEW c, IsClient(c), NEW s, s = Texts(c), NEW n, n = Len(c)
    PROVE  /\ n \in Nat /\ n = Len(s)
           /\ \A i \in 1..n : s[i] \in Seq(Tokens) /\ s[i] = Text(c[i])
  <1>1. n \in Nat
    BY DEF IsClient
  <1>2. n = Len(s) /\ \A i \in 1..n : s[i] = Text(c[i])
    BY <1>1 DEF Texts
  <1>3. ASSUME NEW i \in 1..n
        PROVE  Text(c[i]) \in Seq(Tokens)
    <2>1. IsRequest(c[i])
      BY DEF IsClient
    <2> QED
      BY <2>1, TextIs
  <1> QED
    BY <1>1, <1>2, <1>3

(* The empty sequence has no members. *)
LEMMA EmptyLen == Len(<<>>) = 0
  OBVIOUS

(* The whole text of a client, and where requests end in it. *)
LEMMA StreamIs ==
    ASSUME NEW c, IsClient(c)
    PROVE  /\ Len(c) \in Nat
           /\ Stream(c) \in Seq(Tokens) /\ Len(Stream(c)) \in Nat
           /\ EndOf(c, 0) = 0 /\ EndOf(c, Len(c)) = Len(Stream(c))
           /\ \A i \in 0..Len(c) : EndOf(c, i) \in Nat
  <1>1. PICK J : J = Joined(Texts(c))
    OBVIOUS
  <1>2. PICK n, s : n = Len(c) /\ s = Texts(c)
    OBVIOUS
  <1>3. n \in Nat /\ n = Len(s) /\ \A i \in 1..n : s[i] \in Seq(Tokens)
    BY <1>2, TextsSeq
  <1>4. J[0] = <<>> /\ \A i \in 0..n : J[i] \in Seq(Tokens)
    BY <1>1, <1>2, <1>3, JoinedSeq
  <1>5. Stream(c) = J[n] /\ \A i \in 0..n : EndOf(c, i) = Len(J[i])
    BY <1>1, <1>2 DEF Stream, EndOf
  <1>6. \A i \in 0..n : Len(J[i]) \in Nat
    BY <1>4
  <1>7. 0 \in 0..n /\ n \in 0..n
    BY <1>3
  <1> QED
    BY <1>2, <1>3, <1>4, <1>5, <1>6, <1>7, EmptyLen

(* A request is in the text of its client. *)
LEMMA TextInStream ==
    ASSUME NEW c, IsClient(c), NEW i \in 1..Len(c)
    PROVE  /\ Within(Stream(c), EndOf(c, i - 1), Text(c[i]))
           /\ EndOf(c, i) = EndOf(c, i - 1) + Len(Text(c[i]))
  <1>1. PICK J : J = Joined(Texts(c))
    OBVIOUS
  <1>2. PICK n, s : n = Len(c) /\ s = Texts(c)
    OBVIOUS
  <1>3. /\ n \in Nat /\ n = Len(s) /\ \A j \in 1..n : s[j] \in Seq(Tokens)
        /\ s[i] = Text(c[i])
    BY <1>2, TextsSeq
  <1>4. i \in 1..n /\ J = Joined(s)
    BY <1>1, <1>2
  <1>5. Piece(J, n, i, s[i])
    BY <1>3, <1>4, JoinedAt
  <1> QED
    BY <1>1, <1>2, <1>3, <1>5 DEF Stream, EndOf, Piece

(* At place p of the text is the line B. *)
TextHas(text, p, B, n) ==
    /\ p \in Nat /\ n \in Nat /\ B \in Seq(Plain) /\ Len(B) = n
    /\ Len(text) \in Nat /\ p + n + 2 <= Len(text)
    /\ \A j \in 1..n : text[p + j] = B[j]
    /\ text[p + n + 1] = "CR" /\ text[p + n + 2] = "LF"

(* A line that is a part of a text is at that place of it. *)
LEMMA WithinLine ==
    ASSUME NEW text, NEW p, NEW L, NEW B, NEW n, IsLine(L, B, n), Within(text, p, L)
    PROVE  TextHas(text, p, B, n)
  <1>1. /\ n \in Nat /\ B \in Seq(Plain) /\ Len(B) = n /\ Len(L) = n + 2
        /\ \A j \in 1..n : L[j] = B[j]
        /\ L[n + 1] = "CR" /\ L[n + 2] = "LF"
    BY DEF IsLine
  <1>2. /\ p \in Nat /\ Len(text) \in Nat /\ p + (n + 2) <= Len(text)
        /\ \A j \in 1..(n + 2) : text[p + j] = L[j]
    BY <1>1 DEF Within
  <1>3. /\ n + 1 \in 1..(n + 2) /\ n + 2 \in 1..(n + 2)
        /\ p + (n + 1) = p + n + 1 /\ p + (n + 2) = p + n + 2
    BY <1>1, <1>2
  <1>4. text[p + n + 1] = L[n + 1] /\ text[p + n + 2] = L[n + 2]
    BY <1>2, <1>3
  <1>5. \A j \in 1..n : text[p + j] = L[j]
    BY <1>1, <1>2
  <1> QED
    BY <1>1, <1>2, <1>3, <1>4, <1>5 DEF TextHas

(* Every line of every request is where Pos says. *)
LEMMA LineAt ==
    ASSUME NEW c, IsClient(c), NEW i \in 1..Len(c), NEW k \in 1..LineCount(c[i]),
           NEW B, B = BodyOf(c[i], k), NEW n, n = Len(B)
    PROVE  /\ TextHas(Stream(c), Pos(c, i, k - 1), B, n)
           /\ Pos(c, i, k) = Pos(c, i, k - 1) + n + 2
  <1>1. PICK r : r = c[i] /\ IsRequest(r)
    BY DEF IsClient
  <1>2. PICK J : J = Joined(LinesOf(r))
    OBVIOUS
  <1>3. PICK L : L = LinesOf(r)[k]
    OBVIOUS
  <1>4. IsLine(L, B, n)
    BY <1>1, <1>3, LineOf
  <1>5. Len(L) = n + 2 /\ n \in Nat
    BY <1>4 DEF IsLine
  <1>6. PICK e \in Nat, a \in Nat : e = EndOf(c, i - 1) /\ a = Len(J[k - 1])
    <2>1. EndOf(c, i - 1) \in Nat
      BY TextInStream DEF Within
    <2>2. Piece(J, LineCount(r), k, L)
      BY <1>1, <1>2, <1>3, LineInText
    <2>3. Len(J[k - 1]) \in Nat
      BY <2>2 DEF Piece, Within
    <2> QED
      BY <2>1, <2>3
  <1>7. Within(Text(r), a, L) /\ Len(J[k]) = a + (n + 2)
    <2>1. Piece(J, LineCount(r), k, L)
      BY <1>1, <1>2, <1>3, LineInText
    <2>2. Text(r) = J[LineCount(r)]
      BY <1>2 DEF Text
    <2> QED
      BY <1>5, <1>6, <2>1, <2>2 DEF Piece
  <1>8. Within(Stream(c), e, Text(r))
    BY <1>1, <1>6, TextInStream
  <1>9. Within(Stream(c), e + a, L)
    BY <1>7, <1>8, WithinTrans
  <1>10. TextHas(Stream(c), e + a, B, n)
    BY <1>4, <1>9, WithinLine
  <1>11. Pos(c, i, k - 1) = e + a /\ Pos(c, i, k) = e + (a + (n + 2))
    BY <1>1, <1>2, <1>6, <1>7 DEF Pos
  <1>12. e + (a + (n + 2)) = (e + a) + n + 2
    BY <1>5
  <1> QED
    BY <1>10, <1>11, <1>12

-----------------------------------------------------------------------------
(* The order of the places where lines and requests end.                   *)

(* Before its first line a request begins, after its last one it ends. *)
LEMMA PosEnds ==
    ASSUME NEW c, IsClient(c), NEW i \in 1..Len(c)
    PROVE  /\ Pos(c, i, 0) = EndOf(c, i - 1)
           /\ Pos(c, i, LineCount(c[i])) = EndOf(c, i)
  <1>1. PICK r : r = c[i] /\ IsRequest(r)
    BY DEF IsClient
  <1>2. PICK J : J = Joined(LinesOf(r))
    OBVIOUS
  <1>3. J[0] = <<>> /\ Text(r) = J[LineCount(r)]
    BY <1>1, <1>2, TextIs
  <1>4. EndOf(c, i - 1) \in Nat /\ EndOf(c, i) = EndOf(c, i - 1) + Len(Text(r))
    BY <1>1, TextInStream DEF Within
  <1> QED
    BY <1>1, <1>2, <1>3, <1>4, EmptyLen DEF Pos

(* A place is a number. *)
LEMMA PosNat ==
    ASSUME NEW c, IsClient(c), NEW i \in 1..Len(c), NEW k \in 0..LineCount(c[i])
    PROVE  Pos(c, i, k) \in Nat
  <1>1. PICK r : r = c[i] /\ IsRequest(r)
    BY DEF IsClient
  <1>2. PICK J : J = Joined(LinesOf(r))
    OBVIOUS
  <1>3. J[k] \in Seq(Tokens)
    BY <1>1, <1>2, TextIs
  <1>4. Len(J[k]) \in Nat
    BY <1>3
  <1>5. EndOf(c, i - 1) \in Nat
    BY TextInStream DEF Within
  <1> QED
    BY <1>1, <1>2, <1>4, <1>5 DEF Pos

(* Later lines are at later places. *)
LEMMA PosGrow ==
    ASSUME NEW c, IsClient(c), NEW i \in 1..Len(c), NEW k \in 0..LineCount(c[i]),
           NEW m \in k..LineCount(c[i])
    PROVE  Pos(c, i, k) <= Pos(c, i, m)
  <1>1. PICK r : r = c[i] /\ IsRequest(r)
    BY DEF IsClient
  <1>2. LineCount(r) \in Nat
    BY <1>1, RequestLengths
  <1>3. PICK J : J = Joined(LinesOf(r))
    OBVIOUS
  <1>4. J[k] \in Seq(Tokens) /\ J[m] \in Seq(Tokens)
    BY <1>1, <1>2, <1>3, TextIs
  <1>5. PICK a \in Nat, b \in Nat : a = Len(J[k]) /\ b = Len(J[m])
    BY <1>4
  <1>6. a <= b
    BY <1>1, <1>3, <1>5, LinesGrow
  <1>7. PICK e \in Nat : e = EndOf(c, i - 1)
    BY TextInStream DEF Within
  <1>8. Pos(c, i, k) = e + a /\ Pos(c, i, m) = e + b
    BY <1>1, <1>3, <1>5, <1>7 DEF Pos
  <1> QED
    BY <1>6, <1>8

(* Every line has its CR and LF at least. *)
LEMMA PosStep ==
    ASSUME NEW c, IsClient(c), NEW i \in 1..Len(c), NEW k \in 1..LineCount(c[i])
    PROVE  Pos(c, i, k - 1) \in Nat /\ Pos(c, i, k - 1) + 2 <= Pos(c, i, k)
  <1>1. PICK B, n : B = BodyOf(c[i], k) /\ n = Len(B)
    OBVIOUS
  <1>2. TextHas(Stream(c), Pos(c, i, k - 1), B, n)
    BY <1>1, LineAt
  <1>3. Pos(c, i, k) = Pos(c, i, k - 1) + n + 2
    BY <1>1, LineAt
  <1>4. Pos(c, i, k - 1) \in Nat /\ n \in Nat
    BY <1>2 DEF TextHas
  <1> QED
    BY <1>3, <1>4

(* Inside a request the lines are between its ends. *)
LEMMA PosInside ==
    ASSUME NEW c, IsClient(c), NEW i \in 1..Len(c), NEW k \in 1..(LineCount(c[i]) - 1)
    PROVE  EndOf(c, i - 1) < Pos(c, i, k) /\ Pos(c, i, k) < EndOf(c, i)
  <1>1. PICK n \in Nat : n = LineCount(c[i])
    BY RequestLengths DEF IsClient
  <1>2. /\ k \in 1..n /\ k + 1 \in 1..n /\ (k + 1) - 1 = k /\ k - 1 \in 0..n
        /\ k + 1 \in 0..n /\ 0 \in 0..n /\ n \in (k + 1)..n /\ k \in 0..n
        /\ n \in 0..n
    BY <1>1
  <1>3. Pos(c, i, 0) <= Pos(c, i, k - 1)
    BY <1>1, <1>2, PosGrow
  <1>4. Pos(c, i, k - 1) \in Nat /\ Pos(c, i, k - 1) + 2 <= Pos(c, i, k)
    BY <1>1, <1>2, PosStep
  <1>5. Pos(c, i, k) \in Nat /\ Pos(c, i, k) + 2 <= Pos(c, i, k + 1)
    BY <1>1, <1>2, PosStep
  <1>6. Pos(c, i, k + 1) <= Pos(c, i, n)
    BY <1>1, <1>2, PosGrow
  <1>7. Pos(c, i, 0) \in Nat /\ Pos(c, i, n) \in Nat /\ Pos(c, i, k + 1) \in Nat
    BY <1>1, <1>2, PosNat
  <1>8. Pos(c, i, 0) < Pos(c, i, k) /\ Pos(c, i, k) < Pos(c, i, n)
    BY <1>3, <1>4, <1>5, <1>6, <1>7
  <1> QED
    BY <1>1, <1>8, PosEnds

(* Later requests end later, *)
LEMMA EndsGrow ==
    ASSUME NEW c, IsClient(c), NEW i \in 0..Len(c), NEW j \in i..Len(c)
    PROVE  EndOf(c, i) <= EndOf(c, j)
  <1>1. PICK n, s : n = Len(c) /\ s = Texts(c)
    OBVIOUS
  <1>2. n \in Nat /\ n = Len(s) /\ \A m \in 1..n : s[m] \in Seq(Tokens)
    BY <1>1, TextsSeq
  <1>3. FrontOf(Joined(s)[i], Joined(s)[j])
    BY <1>1, <1>2, JoinedFront
  <1> QED
    BY <1>1, <1>3 DEF FrontOf, EndOf

(* and at another place, *)
LEMMA EndsStrict ==
    ASSUME NEW c, IsClient(c), NEW i \in 0..Len(c), NEW j \in 0..Len(c), i < j
    PROVE  EndOf(c, i) < EndOf(c, j)
  <1>1. PICK n \in Nat : n = Len(c)
    BY StreamIs
  <1>2. j \in 1..n /\ j - 1 \in i..n /\ j - 1 \in 0..n
    BY <1>1
  <1>3. PICK m \in Nat : m = LineCount(c[j]) /\ m >= 2
    BY <1>1, <1>2, RequestLengths DEF IsClient
  <1>4. 1 \in 1..(m - 1)
    BY <1>3
  <1>5. EndOf(c, j - 1) < Pos(c, j, 1) /\ Pos(c, j, 1) < EndOf(c, j)
    BY <1>1, <1>2, <1>3, <1>4, PosInside
  <1>6. EndOf(c, i) <= EndOf(c, j - 1)
    BY <1>1, <1>2, EndsGrow
  <1>7. EndOf(c, i) \in Nat /\ EndOf(c, j - 1) \in Nat /\ EndOf(c, j) \in Nat
    BY <1>1, <1>2, StreamIs
  <1>8. Pos(c, j, 1) \in Nat
    BY <1>1, <1>2, <1>3, PosNat
  <1> QED
    BY <1>5, <1>6, <1>7, <1>8

(* so the place tells the request. *)
LEMMA EndUnique ==
    ASSUME NEW c, IsClient(c), NEW i \in 0..Len(c), NEW j \in 0..Len(c),
           EndOf(c, i) = EndOf(c, j)
    PROVE  i = j
  <1>1. PICK n \in Nat : n = Len(c)
    BY StreamIs
  <1>2. EndOf(c, i) \in Nat /\ EndOf(c, j) \in Nat
    BY StreamIs
  <1>3. CASE i < j
    BY <1>2, <1>3, EndsStrict
  <1>4. CASE j < i
    BY <1>2, <1>4, EndsStrict
  <1> QED
    BY <1>1, <1>3, <1>4

(* Behind the beginning of a request the first end is its own. *)
LEMMA NextEnd ==
    ASSUME NEW c, IsClient(c), NEW i \in 1..Len(c), NEW e \in Ends(c),
           EndOf(c, i - 1) < e
    PROVE  e \in Nat /\ EndOf(c, i) <= e
  <1>1. PICK n \in Nat : n = Len(c)
    BY StreamIs
  <1>2. PICK j \in 0..n : e = EndOf(c, j)
    BY <1>1 DEF Ends
  <1>3. i \in 0..n /\ i - 1 \in 0..n
    BY <1>1
  <1>4. EndOf(c, i - 1) \in Nat /\ e \in Nat
    BY <1>1, <1>2, <1>3, StreamIs
  <1>5. ~(j <= i - 1)
    <2> SUFFICES ASSUME j <= i - 1 PROVE FALSE
      OBVIOUS
    <2>1. i - 1 \in j..n
      BY <1>3
    <2>2. EndOf(c, j) <= EndOf(c, i - 1)
      BY <1>1, <2>1, EndsGrow
    <2> QED
      BY <1>2, <1>4, <2>2
  <1>6. j \in i..n
    BY <1>1, <1>5
  <1>7. EndOf(c, i) <= EndOf(c, j)
    BY <1>1, <1>3, <1>6, EndsGrow
  <1> QED
    BY <1>2, <1>4, <1>7

(* A line that begins where a request ends is the first of the next one. *)
LEMMA EndIsFirst ==
    ASSUME NEW c, IsClient(c), NEW i \in 1..Len(c),
           NEW k \in 0..(LineCount(c[i]) - 1), Pos(c, i, k) \in Ends(c)
    PROVE  k = 0
  <1> SUFFICES ASSUME k # 0 PROVE FALSE
    OBVIOUS
  <1>1. PICK n \in Nat : n = LineCount(c[i])
    BY RequestLengths DEF IsClient
  <1>2. k \in 1..(LineCount(c[i]) - 1)
    BY <1>1
  <1>3. EndOf(c, i - 1) < Pos(c, i, k) /\ Pos(c, i, k) < EndOf(c, i)
    BY <1>2, PosInside
  <1>4. Pos(c, i, k) \in Nat /\ EndOf(c, i) <= Pos(c, i, k)
    BY <1>3, NextEnd
  <1>5. EndOf(c, i) \in Nat
    <2>1. i \in 0..Len(c)
      BY StreamIs
    <2> QED
      BY <2>1, StreamIs
  <1> QED
    BY <1>3, <1>4, <1>5

-----------------------------------------------------------------------------
(* The input buffer as a window on the text.                               *)

(* A section of a sequence, from its members. *)
LEMMA SubSeqIs ==
    ASSUME NEW T, NEW s \in Seq(T), NEW a \in Int, NEW b \in Int, NEW U, NEW u \in Seq(U),
           NEW n \in Nat, n = Len(u), a >= 1, b <= Len(s), b - a + 1 = n,
           \A j \in 1..n : s[a - 1 + j] = u[j]
    PROVE  SubSeq(s, a, b) = u
  <1>1. SubSeq(s, a, b) = [i \in 1..n |-> s[i + a - 1]]
    OBVIOUS
  <1>2. u = [i \in 1..n |-> u[i]]
    OBVIOUS
  <1>3. ASSUME NEW i \in 1..n
        PROVE  s[i + a - 1] = u[i]
    <2>1. a - 1 + i = i + a - 1
      OBVIOUS
    <2>2. s[a - 1 + i] = u[i]
      OBVIOUS
    <2> QED
      BY <2>1, <2>2
  <1> QED
    BY <1>1, <1>2, <1>3

(* The members of a section. *)
LEMMA SubSeqAt ==
    ASSUME NEW T, NEW s \in Seq(T), NEW a \in Nat, NEW b \in Nat, a >= 1,
           b <= Len(s), a <= b + 1
    PROVE  /\ SubSeq(s, a, b) \in Seq(T) /\ Len(SubSeq(s, a, b)) = b - a + 1
           /\ \A j \in 1..(b - a + 1) : SubSeq(s, a, b)[j] = s[a - 1 + j]
  OBVIOUS

(* std::find returns the first place where the token is. *)
LEMMA FindIs ==
    ASSUME NEW s, NEW i \in Int, NEW end \in Int, NEW t, NEW j \in Int,
           i <= j, j <= end, j < end => s[j] = t,
           \A m \in i..(j - 1) : s[m] # t
    PROVE  Find(s, i, end, t) = j
  <1> DEFINE S == {m \in i..(end - 1) : s[m] = t} \cup {end}
  <1>1. S \subseteq Int
    OBVIOUS
  <1>2. j \in S
    OBVIOUS
  <1>3. ASSUME NEW m \in S
        PROVE  j <= m
    BY <1>3
  <1>4. Find(s, i, end, t) = Min(S)
    BY DEF Find
  <1> HIDE DEF S
  <1> QED
    BY <1>1, <1>2, <1>3, <1>4, MinIs

(* q is what s has behind its first m members. *)
IsFrom(q, T, s, m) ==
    /\ q \in Seq(T) /\ Len(q) = Len(s) - m
    /\ \A j \in 1..(Len(s) - m) : q[j] = s[m + j]

LEMMA FromAt ==
    ASSUME NEW T, NEW s \in Seq(T), NEW m \in Nat, m <= Len(s)
    PROVE  IsFrom(From(s, m + 1), T, s, m)
  <1>1. PICK n \in Nat : n = Len(s)
    OBVIOUS
  <1>2. /\ m + 1 \in Nat /\ m + 1 >= 1 /\ m + 1 <= n + 1
        /\ n - (m + 1) + 1 = n - m /\ (m + 1) - 1 = m
    BY <1>1
  <1>3. From(s, m + 1) = SubSeq(s, m + 1, n)
    BY <1>1 DEF From
  <1>4. PICK q : q = SubSeq(s, m + 1, n)
    OBVIOUS
  <1>5. /\ q \in Seq(T) /\ Len(q) = n - (m + 1) + 1
        /\ \A j \in 1..(n - (m + 1) + 1) : q[j] = s[(m + 1) - 1 + j]
    BY <1>1, <1>2, <1>4, SubSeqAt
  <1>6. q \in Seq(T) /\ Len(q) = n - m /\ \A j \in 1..(n - m) : q[j] = s[m + j]
    BY <1>2, <1>5
  <1> QED
    BY <1>1, <1>3, <1>4, <1>6 DEF IsFrom

(* m tokens are retrieved. *)
LEMMA WindowRetrieve ==
    ASSUME NEW text, NEW p, NEW buf, NEW rem, Window(text, p, buf, rem),
           NEW m \in Nat, m <= Len(buf)
    PROVE  /\ Window(text, p + m, From(buf, m + 1), rem)
           /\ Len(From(buf, m + 1)) = Len(buf) - m
  <1>1. PICK n \in Nat : n = Len(buf)
    BY DEF Window
  <1>2. buf \in Seq(Tokens)
    BY DEF Window
  <1>3. PICK b : b = From(buf, m + 1)
    OBVIOUS
  <1>4. b \in Seq(Tokens) /\ Len(b) = n - m /\ \A j \in 1..(n - m) : b[j] = buf[m + j]
    <2>1. IsFrom(b, Tokens, buf, m)
      BY <1>1, <1>2, <1>3, FromAt
    <2> QED
      BY <1>1, <2>1 DEF IsFrom
  <1>5. PICK r \in Nat : r = Len(rem)
    BY DEF Window
  <1>6. /\ p \in Nat /\ rem \in Seq(Tokens) /\ p + n + r = Len(text)
        /\ \A j \in 1..n : buf[j] = text[p + j]
        /\ \A j \in 1..r : rem[j] = text[p + n + j]
    BY <1>1, <1>5 DEF Window
  <1>7. \A j \in 1..(n - m) : b[j] = text[(p + m) + j]
    <2> SUFFICES ASSUME NEW j \in 1..(n - m) PROVE b[j] = text[(p + m) + j]
      OBVIOUS
    <2>1. m + j \in 1..n /\ p + (m + j) = (p + m) + j
      BY <1>1, <1>6
    <2> QED
      BY <1>4, <1>6, <2>1
  <1>8. \A j \in 1..r : rem[j] = text[(p + m) + (n - m) + j]
    <2> SUFFICES ASSUME NEW j \in 1..r PROVE rem[j] = text[(p + m) + (n - m) + j]
      OBVIOUS
    <2>1. p + n + j = (p + m) + (n - m) + j
      BY <1>6
    <2> QED
      BY <1>6, <2>1
  <1>9. p + m \in Nat /\ (p + m) + (n - m) + r = Len(text)
    BY <1>6
  <1>10. Window(text, p + m, b, rem)
    BY <1>4, <1>5, <1>6, <1>7, <1>8, <1>9 DEF Window
  <1> QED
    BY <1>1, <1>3, <1>4, <1>10

(* m tokens are read. *)
AfterRead(text, p, buf, m, b, q) ==
    Window(text, p, b, q) /\ Len(b) = Len(buf) + m

LEMMA WindowRead ==
    ASSUME NEW text, NEW p, NEW buf, NEW rem, Window(text, p, buf, rem),
           NEW m \in 1..Len(rem), NEW b, b = buf \o SubSeq(rem, 1, m),
           NEW q, q = From(rem, m + 1)
    PROVE  AfterRead(text, p, buf, m, b, q)
  <1>1. PICK n \in Nat, r \in Nat : n = Len(buf) /\ r = Len(rem)
    BY DEF Window
  <1>2. /\ p \in Nat /\ buf \in Seq(Tokens) /\ rem \in Seq(Tokens)
        /\ p + n + r = Len(text)
        /\ \A j \in 1..n : buf[j] = text[p + j]
        /\ \A j \in 1..r : rem[j] = text[p + n + j]
    BY <1>1 DEF Window
  <1>3. PICK s : s = SubSeq(rem, 1, m)
    OBVIOUS
  <1>4. s \in Seq(Tokens) /\ Len(s) = m /\ \A j \in 1..m : s[j] = rem[j]
    <2>1. m \in Nat /\ m <= r /\ 1 <= m + 1 /\ m - 1 + 1 = m
          /\ \A j \in 1..m : 1 - 1 + j = j
      BY <1>1
    <2> QED
      BY <1>1, <1>2, <1>3, <2>1, SubSeqAt
  <1>5. b \in Seq(Tokens) /\ IsConcat(b, n, buf, m, s)
    BY <1>1, <1>2, <1>3, <1>4, ConcatAt
  <1>6. /\ Len(b) = n + m
        /\ \A j \in 1..n : b[j] = buf[j]
        /\ \A j \in 1..m : b[n + j] = s[j]
    BY <1>5 DEF IsConcat
  <1>7. q \in Seq(Tokens) /\ Len(q) = r - m /\ \A j \in 1..(r - m) : q[j] = rem[m + j]
    <2>1. m \in Nat /\ m <= r
      BY <1>1
    <2>2. IsFrom(q, Tokens, rem, m)
      BY <1>1, <1>2, <2>1, FromAt
    <2> QED
      BY <1>1, <2>2 DEF IsFrom
  <1>8. \A j \in 1..(n + m) : b[j] = text[p + j]
    <2> SUFFICES ASSUME NEW j \in 1..(n + m) PROVE b[j] = text[p + j]
      OBVIOUS
    <2>1. CASE j <= n
      BY <1>1, <1>2, <1>6, <2>1
    <2>2. CASE ~(j <= n)
      <3>1. PICK d \in 1..m : d \in 1..r /\ n + d = j /\ p + n + d = p + j
        <4>1. /\ j - n \in 1..m /\ j - n \in 1..r /\ n + (j - n) = j
              /\ p + n + (j - n) = p + j
          BY <1>1, <1>2, <2>2
        <4> QED
          BY <4>1
      <3>2. b[n + d] = s[d]
        BY <1>6
      <3>3. s[d] = rem[d] /\ rem[d] = text[p + n + d]
        BY <1>2, <1>4, <3>1
      <3> QED
        BY <3>1, <3>2, <3>3
    <2> QED
      BY <2>1, <2>2
  <1>9. \A j \in 1..(r - m) : q[j] = text[p + (n + m) + j]
    <2> SUFFICES ASSUME NEW j \in 1..(r - m) PROVE q[j] = text[p + (n + m) + j]
      OBVIOUS
    <2>1. m + j \in 1..r /\ p + n + (m + j) = p + (n + m) + j
      BY <1>1, <1>2
    <2> QED
      BY <1>2, <1>7, <2>1
  <1>10. p + (n + m) + (r - m) = Len(text)
    <2>1. p \in Nat /\ m \in Nat
      BY <1>1, <1>2
    <2>2. p + (n + m) + (r - m) = p + n + r
      BY <2>1
    <2> QED
      BY <1>2, <2>2
  <1> QED
    BY <1>1, <1>2, <1>5, <1>6, <1>7, <1>8, <1>9, <1>10 DEF Window, AfterRead

(* A buffer with less than the line has no CR LF. *)
LEMMA LineMissing ==
    ASSUME NEW text, NEW p, NEW buf, NEW rem, Window(text, p, buf, rem),
           NEW B, NEW n, TextHas(text, p, B, n), Len(buf) < n + 2
    PROVE  findCRLF(buf) = 0
  <1>1. /\ n \in Nat /\ Len(buf) \in Nat /\ \A j \in 1..Len(buf) : buf[j] = text[p + j]
        /\ \A j \in 1..n : text[p + j] = B[j] /\ B[j] \in Plain
    BY DEF Window, TextHas
  <1>2. \A j \in 1..(Len(buf) - 1) : buf[j] # "CR"
    BY <1>1 DEF Plain
  <1> QED
    BY <1>2 DEF findCRLF

(* In a buffer with the whole line the first CR LF is its end. *)
LEMMA LineFound ==
    ASSUME NEW text, NEW p, NEW buf, NEW rem, Window(text, p, buf, rem),
           NEW B, NEW n, TextHas(text, p, B, n), n + 2 <= Len(buf)
    PROVE  findCRLF(buf) = n + 1 /\ Before(buf, n + 1) = B
  <1>1. /\ n \in Nat /\ Len(buf) \in Nat /\ p \in Nat /\ buf \in Seq(Tokens)
        /\ \A j \in 1..Len(buf) : buf[j] = text[p + j]
        /\ \A j \in 1..n : text[p + j] = B[j] /\ B[j] \in Plain
        /\ B \in Seq(Plain) /\ Len(B) = n
        /\ text[p + n + 1] = "CR" /\ text[p + n + 2] = "LF"
    BY DEF Window, TextHas
  <1>2. \A j \in 1..n : buf[j] = B[j] /\ buf[j] # "CR"
    <2> SUFFICES ASSUME NEW j \in 1..n PROVE buf[j] = B[j] /\ buf[j] # "CR"
      OBVIOUS
    <2>1. j \in 1..Len(buf)
      BY <1>1
    <2>2. buf[j] = text[p + j] /\ text[p + j] = B[j] /\ B[j] \in Plain
      BY <1>1, <2>1
    <2> QED
      BY <2>2 DEF Plain
  <1>3. buf[n + 1] = "CR" /\ buf[n + 1 + 1] = "LF"
    <2>1. /\ n + 1 \in 1..Len(buf) /\ n + 1 + 1 \in 1..Len(buf)
          /\ p + (n + 1) = p + n + 1 /\ p + (n + 1 + 1) = p + n + 2
      BY <1>1
    <2> QED
      BY <1>1, <2>1
  <1> DEFINE I == {i \in 1..(Len(buf) - 1) : buf[i] = "CR" /\ buf[i + 1] = "LF"}
  <1>4. I \subseteq Int
    OBVIOUS
  <1>5. n + 1 \in I
    BY <1>1, <1>3
  <1>6. ASSUME NEW i \in I
        PROVE  n + 1 <= i
    BY <1>1, <1>2, <1>6
  <1>7. findCRLF(buf) = IF I = {} THEN 0 ELSE Min(I)
    BY DEF findCRLF
  <1> HIDE DEF I
  <1>8. findCRLF(buf) = n + 1
    BY <1>4, <1>5, <1>6, <1>7, MinIs
  <1>9. Before(buf, n + 1) = B
    <2>1. /\ (n + 1) - 1 = n /\ n - 1 + 1 = n /\ n \in Int /\ n <= Len(buf)
          /\ \A j \in 1..n : 1 - 1 + j = j
      BY <1>1
    <2>2. SubSeq(buf, 1, n) = B
      BY <1>1, <1>2, <2>1, SubSeqIs
    <2> QED
      BY <2>1, <2>2 DEF Before
  <1> QED
    BY <1>8, <1>9

-----------------------------------------------------------------------------
(* What the parser makes of a line.                                        *)

(* setMethod knows the five methods and no other. *)
LEMMA MethodIs ==
    ASSUME NEW m, NEW w, w = <<m>>
    PROVE  /\ m \in DOMAIN Methods <=> setMethod(w) # "kInvalid"
           /\ m \in DOMAIN Methods => setMethod(w) = Methods[m]
  <1>1. Len(w) = 1 /\ w[1] = m
    OBVIOUS
  <1>2. \A x \in DOMAIN Methods : Methods[x] # "kInvalid"
    BY DEF Methods
  <1> QED
    BY <1>1, <1>2 DEF setMethod

(* setVersion knows the two versions and no other. *)
LEMMA VersionIs ==
    ASSUME NEW v
    PROVE  v \in {"HTTP/1.0", "HTTP/1.1"} <=> setVersion(<<v>>) # "kUnknown"
  <1>1. <<v>> = <<"HTTP/1.1">> <=> v = "HTTP/1.1"
    OBVIOUS
  <1>2. <<v>> = <<"HTTP/1.0">> <=> v = "HTTP/1.0"
    OBVIOUS
  <1>3. CASE v = "HTTP/1.1"
    BY <1>3, <1>1, <1>2 DEF setVersion
  <1>4. CASE v = "HTTP/1.0"
    BY <1>4, <1>1, <1>2 DEF setVersion
  <1>5. CASE v # "HTTP/1.1" /\ v # "HTTP/1.0"
    BY <1>5, <1>1, <1>2 DEF setVersion
  <1> QED
    BY <1>3, <1>4, <1>5

(* Before the first header line there are no headers. *)
LEMMA NoHeaders ==
    ASSUME NEW r
    PROVE  HeadersUpto(r, 0) = <<>>
  BY DEF HeadersUpto

(* What the client wrote on its request line. *)
HasParts(r, np, nq) ==
    /\ \E U : r.path \in Seq(U) /\ r.query \in Seq(U)
    /\ np = Len(r.path) /\ nq = Len(r.query) /\ np \in Nat /\ nq \in Nat
    /\ r.method # "SP"
    /\ \A j \in 1..np : r.path[j] # "SP" /\ r.path[j] # "?"
    /\ \A j \in 1..nq : r.query[j] # "SP"
    /\ nq # 0 => r.query[1] = "?"

LEMMA RequestHasParts ==
    ASSUME NEW r, IsRequest(r)
    PROVE  HasParts(r, Len(r.path), Len(r.query))
  <1>1. r.method \in Words
    BY DEF IsRequest, RequestType
  <1>2. r.path \in Seq(STRING \ {"SP", "?", "CR", "LF"})
    BY DEF IsRequest, RequestType
  <1>3. r.query \in Seq(STRING \ {"SP", "CR", "LF"})
    BY DEF IsRequest, RequestType
  <1>4. \A j \in 1..Len(r.path) : r.path[j] \in STRING \ {"SP", "?", "CR", "LF"}
    BY <1>2
  <1>5. \A j \in 1..Len(r.query) : r.query[j] \in STRING \ {"SP", "CR", "LF"}
    BY <1>3
  <1>6. Len(r.query) # 0 => r.query[1] = "?"
    BY <1>3, EmptyLen DEF IsRequest
  <1>7. r.path \in Seq(Plain) /\ r.query \in Seq(Plain)
    BY <1>2, <1>3, PlainTokens, SeqMono
  <1> QED
    BY <1>1, <1>4, <1>5, <1>6, <1>7, RequestLengths DEF Words, HasParts

(* Where the blanks and the question mark of a request line are. *)
LEMMA RequestFinds ==
    ASSUME NEW r, NEW np \in Nat, NEW nq \in Nat, HasParts(r, np, nq), NEW B,
           IsRequestBody(B, r, np, nq)
    PROVE  /\ Find(B, 1, Len(B) + 1, "SP") = 2
           /\ Find(B, 3, Len(B) + 1, "SP") = np + nq + 3
           /\ Find(B, 3, np + nq + 3, "?") = np + 3
  <1>1. /\ Len(B) = np + nq + 4 /\ B[1] = r.method /\ B[2] = "SP"
        /\ \A j \in 1..np : B[2 + j] = r.path[j]
        /\ \A j \in 1..nq : B[2 + np + j] = r.query[j]
        /\ B[np + nq + 3] = "SP"
    BY DEF IsRequestBody
  <1>2. /\ r.method # "SP"
        /\ \A j \in 1..np : r.path[j] # "SP" /\ r.path[j] # "?"
        /\ \A j \in 1..nq : r.query[j] # "SP"
        /\ nq # 0 => r.query[1] = "?"
    BY DEF HasParts
  <1>3. PICK end \in Int : end = Len(B) + 1 /\ end = np + nq + 5
    BY <1>1
  <1>4. \A m \in 3..(np + 2) : B[m] # "SP" /\ B[m] # "?"
    <2> SUFFICES ASSUME NEW m \in 3..(np + 2) PROVE B[m] # "SP" /\ B[m] # "?"
      OBVIOUS
    <2>1. PICK j \in 1..np : m = 2 + j
      <3>1. m - 2 \in 1..np /\ m = 2 + (m - 2)
        OBVIOUS
      <3> QED
        BY <3>1
    <2> QED
      BY <1>1, <1>2, <2>1
  <1>5. \A m \in (np + 3)..(np + nq + 2) : B[m] # "SP"
    <2> SUFFICES ASSUME NEW m \in (np + 3)..(np + nq + 2) PROVE B[m] # "SP"
      OBVIOUS
    <2>1. PICK j \in 1..nq : m = 2 + np + j
      <3>1. m - 2 - np \in 1..nq /\ m = 2 + np + (m - 2 - np)
        OBVIOUS
      <3> QED
        BY <3>1
    <2> QED
      BY <1>1, <1>2, <2>1
  <1>6. Find(B, 1, end, "SP") = 2
    <2>1. \A m \in 1..(2 - 1) : B[m] # "SP"
      BY <1>1, <1>2
    <2>2. 1 <= 2 /\ 2 <= end
      BY <1>3
    <2> QED
      BY <1>1, <2>1, <2>2, FindIs
  <1>7. Find(B, 3, end, "SP") = np + nq + 3
    <2>1. PICK e \in Int : e = np + nq + 3
      OBVIOUS
    <2>2. \A m \in 3..(e - 1) : B[m] # "SP"
      BY <1>4, <1>5, <2>1
    <2>3. 3 <= e /\ e <= end /\ B[e] = "SP"
      BY <1>1, <1>3, <2>1
    <2>4. Find(B, 3, end, "SP") = e
      BY <2>2, <2>3, FindIs
    <2> QED
      BY <2>1, <2>4
  <1>8. Find(B, 3, np + nq + 3, "?") = np + 3
    <2>1. PICK e \in Int, f \in Int : e = np + nq + 3 /\ f = np + 3
      OBVIOUS
    <2>2. \A m \in 3..(f - 1) : B[m] # "?"
      BY <1>4, <2>1
    <2>3. 3 <= f /\ f <= e
      BY <2>1
    <2>4. f < e => B[f] = "?"
      <3> SUFFICES ASSUME f < e PROVE B[f] = "?"
        OBVIOUS
      <3>1. nq # 0 /\ 1 \in 1..nq /\ f = 2 + np + 1
        BY <2>1
      <3> QED
        BY <1>1, <1>2, <3>1
    <2>5. PICK i \in Int : i = 3
      OBVIOUS
    <2>6. i <= f /\ f <= e /\ \A m \in i..(f - 1) : B[m] # "?"
      BY <2>2, <2>3, <2>5
    <2>7. Find(B, i, e, "?") = f
      BY <2>4, <2>6, FindIs
    <2> QED
      BY <2>1, <2>5, <2>7
  <1> QED
    BY <1>3, <1>6, <1>7, <1>8

(* And what is between them. *)
LEMMA RequestParts ==
    ASSUME NEW r, NEW np \in Nat, NEW nq \in Nat, HasParts(r, np, nq), NEW B,
           IsRequestBody(B, r, np, nq)
    PROVE  /\ Before(B, 2) = <<r.method>>
           /\ SubSeq(B, 3, np + 2) = r.path
           /\ SubSeq(B, np + 3, np + nq + 2) = r.query
           /\ From(B, np + nq + 4) = <<r.version>>
  <1>1. /\ Len(B) = np + nq + 4 /\ B[1] = r.method /\ B \in Seq(Plain)
        /\ \A j \in 1..np : B[2 + j] = r.path[j]
        /\ \A j \in 1..nq : B[2 + np + j] = r.query[j]
        /\ B[np + nq + 4] = r.version
    BY DEF IsRequestBody
  <1>2. Before(B, 2) = <<r.method>>
    <2>1. PICK u : u = <<r.method>>
      OBVIOUS
    <2>2. u \in Seq({r.method}) /\ Len(u) = 1 /\ u[1] = r.method
      BY <2>1, SingleSeq
    <2>3. \A j \in 1..1 : B[1 - 1 + j] = u[j]
      BY <1>1, <2>2
    <2>4. SubSeq(B, 1, 1) = u
      BY <1>1, <2>2, <2>3, SubSeqIs
    <2> QED
      BY <2>1, <2>4 DEF Before
  <1>3. SubSeq(B, 3, np + 2) = r.path
    <2>1. PICK u, U : u = r.path /\ u \in Seq(U) /\ np = Len(u)
      BY DEF HasParts
    <2>2. PICK e \in Int : e = np + 2
      OBVIOUS
    <2>3. e - 3 + 1 = np /\ e <= Len(B)
      BY <1>1, <2>2
    <2>4. \A j \in 1..np : B[3 - 1 + j] = u[j]
      BY <1>1, <2>1
    <2>5. SubSeq(B, 3, e) = u
      BY <1>1, <2>1, <2>3, <2>4, SubSeqIs
    <2> QED
      BY <2>1, <2>2, <2>5
  <1>4. SubSeq(B, np + 3, np + nq + 2) = r.query
    <2>1. PICK u, U : u = r.query /\ u \in Seq(U) /\ nq = Len(u)
      BY DEF HasParts
    <2>2. PICK a \in Int, e \in Int : a = np + 3 /\ e = np + nq + 2
      OBVIOUS
    <2>3. e - a + 1 = nq /\ e <= Len(B) /\ a >= 1 /\ a - 1 = 2 + np
      BY <1>1, <2>2
    <2>4. \A j \in 1..nq : B[a - 1 + j] = u[j]
      BY <1>1, <2>1, <2>3
    <2>5. SubSeq(B, a, e) = u
      BY <1>1, <2>1, <2>3, <2>4, SubSeqIs
    <2> QED
      BY <2>1, <2>2, <2>5
  <1>5. From(B, np + nq + 4) = <<r.version>>
    <2>1. PICK u : u = <<r.version>>
      OBVIOUS
    <2>2. u \in Seq({r.version}) /\ Len(u) = 1 /\ u[1] = r.version
      BY <2>1, SingleSeq
    <2>3. PICK e \in Int : e = np + nq + 4
      OBVIOUS
    <2>4. e - e + 1 = 1 /\ e - 1 + 1 = e /\ e >= 1 /\ e <= Len(B) /\ e = Len(B)
      BY <1>1, <2>3
    <2>5. \A j \in 1..1 : B[e - 1 + j] = u[j]
      BY <1>1, <2>2, <2>3, <2>4
    <2>6. SubSeq(B, e, e) = u
      BY <1>1, <2>2, <2>4, <2>5, SubSeqIs
    <2> QED
      BY <2>1, <2>3, <2>4, <2>6 DEF From
  <1> QED
    BY <1>2, <1>3, <1>4, <1>5

(* A request line is accepted if and only if it is well formed, and means  *)
(* what the client wrote.                                                  *)
Filled(m, v, p, q) ==
    [NewRequest EXCEPT !.method = m, !.version = v, !.path = p, !.query = q]

ParsedAs(B, m, v, request) ==
    processRequestLine(B) = [ok |-> m # "kInvalid" /\ v # "kUnknown",
                             request |-> request]

(* What processRequestLine makes of the parts. *)
LEMMA RequestLineIs ==
    ASSUME NEW r, NEW np \in Nat, NEW nq \in Nat, HasParts(r, np, nq), NEW B,
           IsRequestBody(B, r, np, nq), NEW m, m = setMethod(<<r.method>>),
           NEW v, v = setVersion(<<r.version>>)
    PROVE  ParsedAs(B, m, v, Filled(m, v, r.path, r.query))
  <1>1. PICK end, sp2, q : end = Len(B) + 1 /\ sp2 = np + nq + 3 /\ q = np + 3
    OBVIOUS
  <1>2. /\ Find(B, 1, end, "SP") = 2 /\ Find(B, 3, end, "SP") = sp2
        /\ Find(B, 3, sp2, "?") = q
    BY <1>1, RequestFinds
  <1>3. /\ sp2 + 1 = np + nq + 4 /\ q - 1 = np + 2 /\ sp2 - 1 = np + nq + 2
        /\ end = np + nq + 5 /\ 2 < end /\ sp2 < end /\ 2 + 1 = 3
    BY <1>1 DEF IsRequestBody
  <1>4. /\ Before(B, 2) = <<r.method>> /\ From(B, sp2 + 1) = <<r.version>>
        /\ SubSeq(B, 3, q - 1) = r.path /\ SubSeq(B, q, sp2 - 1) = r.query
    <2>1. /\ Before(B, 2) = <<r.method>>
          /\ SubSeq(B, 3, np + 2) = r.path
          /\ SubSeq(B, np + 3, np + nq + 2) = r.query
          /\ From(B, np + nq + 4) = <<r.version>>
      BY RequestParts
    <2> QED
      BY <1>1, <1>3, <2>1, Zenon
  <1>5. PICK p, u : p = r.path /\ u = r.query
    OBVIOUS
  <1>6. processRequestLine(B) =
            [ok |-> 2 < end /\ m # "kInvalid" /\ sp2 < end /\ v # "kUnknown",
             request |-> Filled(m, v, p, u)]
    BY <1>1, <1>2, <1>3, <1>4, <1>5, Zenon DEF processRequestLine, Filled
  <1> QED
    BY <1>3, <1>5, <1>6, Zenon DEF ParsedAs

LEMMA RequestLineParsed ==
    ASSUME NEW r, IsRequest(r), NEW B, B = RequestBody(r)
    PROVE  /\ processRequestLine(B).ok <=> WellFormed(r)
           /\ WellFormed(r) => processRequestLine(B).request = MeaningUpto(r, 0)
  <1>1. PICK np \in Nat, nq \in Nat : np = Len(r.path) /\ nq = Len(r.query)
    BY RequestLengths
  <1>2. IsRequestBody(B, r, np, nq)
    BY <1>1, RequestBodyAt
  <1>3. HasParts(r, np, nq)
    BY <1>1, RequestHasParts
  <1>4. PICK m, v : m = setMethod(<<r.method>>) /\ v = setVersion(<<r.version>>)
    OBVIOUS
  <1>5. PICK request : request = Filled(m, v, r.path, r.query)
    OBVIOUS
  <1>6. ParsedAs(B, m, v, request)
    BY <1>2, <1>3, <1>4, <1>5, RequestLineIs
  <1>7. WellFormed(r) <=> (m # "kInvalid" /\ v # "kUnknown")
    BY <1>4, MethodIs, VersionIs DEF WellFormed
  <1>8. WellFormed(r) => m = Methods[r.method]
    BY <1>4, MethodIs DEF WellFormed
  <1>9. ASSUME WellFormed(r)
        PROVE  request = MeaningUpto(r, 0)
    <2>1. request = [method |-> m, version |-> v, path |-> r.path,
                     query |-> r.query, headers |-> <<>>]
      BY <1>5 DEF NewRequest, Filled
    <2>2. MeaningUpto(r, 0) = [method |-> m, path |-> r.path, query |-> r.query,
                               version |-> v, headers |-> <<>>]
      BY <1>4, <1>8, <1>9, NoHeaders DEF MeaningUpto
    <2> QED
      BY <2>1, <2>2
  <1>10. /\ processRequestLine(B).ok = (m # "kInvalid" /\ v # "kUnknown")
         /\ processRequestLine(B).request = request
    BY <1>6 DEF ParsedAs
  <1> QED
    BY <1>7, <1>9, <1>10

(* What the client wrote on a header line. *)
HasField(h, n) ==
    /\ h.field # "SP" /\ h.field # ":"
    /\ \E U : h.value \in Seq(U)
    /\ n = Len(h.value) /\ n \in Nat
    /\ n # 0 => h.value[1] # "SP" /\ h.value[n] # "SP"

LEMMA HeaderHasField ==
    ASSUME NEW h, IsHeader(h)
    PROVE  HasField(h, Len(h.value))
  <1>1. h.field \in Words /\ h.value \in Seq(STRING \ {"CR", "LF"})
    BY DEF IsHeader, Headers
  <1>2. Len(h.value) # 0 => h.value[1] # "SP" /\ h.value[Len(h.value)] # "SP"
    BY <1>1, EmptyLen DEF IsHeader
  <1>3. h.value \in Seq(Plain)
    BY <1>1, PlainTokens, SeqMono
  <1>4. Len(h.value) \in Nat
    BY <1>1
  <1> QED
    BY <1>1, <1>2, <1>3, <1>4 DEF Words, HasField

(* Where the colon and the first blank of a header line are. *)
LEMMA HeaderFinds ==
    ASSUME NEW h, NEW n \in Nat, HasField(h, n), NEW B, IsHeaderBody(B, h, n)
    PROVE  /\ Find(B, 1, Len(B) + 1, "SP") = 3
           /\ Find(B, 1, Len(B) + 1, ":") = 2
           /\ 2 <= Len(B) /\ Before(B, 2) = <<h.field>>
           /\ Len(Before(B, 3)) = 2
  <1>1. /\ B \in Seq(Plain) /\ Len(B) = n + 4
        /\ B[1] = h.field /\ B[2] = ":" /\ B[3] = "SP"
    BY DEF IsHeaderBody
  <1>2. B[1] # "SP" /\ B[1] # ":"
    BY <1>1 DEF HasField
  <1>3. PICK end \in Int, i \in Int, s \in Int, t \in Int :
            end = Len(B) + 1 /\ i = 1 /\ s = 3 /\ t = 2
    BY <1>1
  <1>4. /\ i <= s /\ s <= end /\ B[s] = "SP" /\ i <= t /\ t <= end /\ B[t] = ":"
        /\ \A m \in i..(s - 1) : B[m] # "SP"
        /\ \A m \in i..(t - 1) : B[m] # ":"
    BY <1>1, <1>2, <1>3
  <1>5. Find(B, i, end, "SP") = s
    BY <1>4, FindIs
  <1>6. Find(B, i, end, ":") = t
    BY <1>4, FindIs
  <1>7. Before(B, 2) = <<h.field>>
    <2>1. PICK u : u = <<h.field>>
      OBVIOUS
    <2>2. u \in Seq({h.field}) /\ Len(u) = 1 /\ u[1] = h.field
      BY <2>1, SingleSeq
    <2>3. \A j \in 1..1 : B[1 - 1 + j] = u[j]
      BY <1>1, <2>2
    <2>4. SubSeq(B, 1, 1) = u
      BY <1>1, <2>2, <2>3, SubSeqIs
    <2> QED
      BY <2>1, <2>4 DEF Before
  <1>8. Len(Before(B, 3)) = 2
    <2>1. Len(SubSeq(B, 1, 2)) = 2 - 1 + 1
      BY <1>1, SubSeqAt
    <2> QED
      BY <2>1 DEF Before
  <1> QED
    BY <1>1, <1>3, <1>5, <1>6, <1>7, <1>8

(* In an empty line nothing is found. *)
LEMMA EmptyFinds ==
    ASSUME NEW t
    PROVE  Find(<<>>, 1, 1, t) = 1
  <1>1. PICK s : s = <<>>
    OBVIOUS
  <1>2. PICK i \in Int : i = 1
    OBVIOUS
  <1>3. i <= i /\ ~(i < i) /\ \A m \in i..(i - 1) : s[m] # t
    BY <1>2
  <1>4. Find(s, i, i, t) = i
    BY <1>3, FindIs
  <1> QED
    BY <1>1, <1>2, <1>4

(* No other line is taken for a request line. *)
LEMMA HeaderNotRequest ==
    ASSUME NEW h, IsHeader(h), NEW B, B = HeaderBody(h)
    PROVE  ~processRequestLine(B).ok
  <1>1. PICK n \in Nat : n = Len(h.value)
    BY HeaderHasField DEF HasField
  <1>2. IsHeaderBody(B, h, n) /\ HasField(h, n)
    BY <1>1, HeaderBodyAt, HeaderHasField
  <1>3. Find(B, 1, Len(B) + 1, "SP") = 3 /\ Len(Before(B, 3)) = 2
    BY <1>2, HeaderFinds
  <1>4. setMethod(Before(B, 3)) = "kInvalid"
    <2>1. PICK w : w = Before(B, 3)
      OBVIOUS
    <2>2. ~(Len(w) = 1)
      BY <1>3, <2>1
    <2>3. setMethod(w) = "kInvalid"
      BY <2>2, Zenon DEF setMethod
    <2> QED
      BY <2>1, <2>3
  <1> QED
    BY <1>3, <1>4, Zenon DEF processRequestLine

(* Nor is the empty line. *)
LEMMA EmptyNotRequest == ~processRequestLine(<<>>).ok
  <1>1. Len(<<>>) + 1 = 1 /\ ~(1 < 1)
    BY EmptyLen
  <1>2. Find(<<>>, 1, Len(<<>>) + 1, "SP") = Len(<<>>) + 1
    BY <1>1, EmptyFinds
  <1> QED
    BY <1>1, <1>2, Zenon DEF processRequestLine

(* Trim takes the blanks away, and nothing of the value. *)
LEMMA TrimIs ==
    ASSUME NEW s, NEW v, NEW n \in Nat, NEW T, NEW U, s \in Seq(T), v \in Seq(U),
           Len(v) = n, Len(s) = n + 2, s[1] = "SP", s[n + 2] = "SP",
           \A j \in 1..n : s[1 + j] = v[j],
           n # 0 => v[1] # "SP" /\ v[n] # "SP"
    PROVE  Trim(s) = v
  <1> DEFINE W == {i \in DOMAIN s : s[i] # "SP"}
  <1>1. DOMAIN s = 1..(n + 2)
    OBVIOUS
  <1>2. Trim(s) = IF W = {} THEN <<>> ELSE SubSeq(s, Min(W), Max(W))
    BY DEF Trim
  <1>3. \A i \in W : i \in Int /\ 2 <= i /\ i <= n + 1
    BY <1>1
  <1>4. CASE n = 0
    <2>1. W = {}
      BY <1>3, <1>4
    <2>2. v = <<>>
      BY <1>4
    <2> QED
      BY <1>2, <2>1, <2>2
  <1>5. CASE n # 0
    <2>1. s[2] = v[1] /\ s[n + 1] = v[n]
      <3>1. 1 \in 1..n /\ n \in 1..n /\ 1 + 1 = 2 /\ 1 + n = n + 1
        BY <1>5
      <3> QED
        BY <3>1
    <2>2. 2 \in W /\ n + 1 \in W
      BY <1>1, <1>5, <2>1
    <2> HIDE DEF W
    <2>3. W \subseteq Int /\ (\A i \in W : 2 <= i) /\ (\A i \in W : i <= n + 1)
      BY <1>3
    <2>4. Min(W) = 2
      BY <2>2, <2>3, MinIs
    <2>5. Max(W) = n + 1
      BY <2>2, <2>3, MaxIs
    <2>6. PICK a \in Int, b \in Int : a = 2 /\ b = n + 1
      OBVIOUS
    <2>7. a >= 1 /\ b <= Len(s) /\ b - a + 1 = n /\ a - 1 = 1
      BY <2>6
    <2>8. \A j \in 1..n : s[a - 1 + j] = v[j]
      BY <2>7
    <2>9. SubSeq(s, a, b) = v
      BY <2>7, <2>8, SubSeqIs
    <2> QED
      BY <1>2, <2>2, <2>4, <2>5, <2>6, <2>9
  <1> QED
    BY <1>4, <1>5

(* The value of a header without the blanks around it. *)
LEMMA HeaderValue ==
    ASSUME NEW h, NEW n \in Nat, HasField(h, n), NEW B, IsHeaderBody(B, h, n)
    PROVE  Trim(From(B, 3)) = h.value
  <1>1. /\ B \in Seq(Plain) /\ Len(B) = n + 4 /\ B[3] = "SP" /\ B[n + 4] = "SP"
        /\ \A j \in 1..n : B[3 + j] = h.value[j]
    BY DEF IsHeaderBody
  <1>2. PICK v, U : /\ v = h.value /\ v \in Seq(U) /\ Len(v) = n
                    /\ n # 0 => v[1] # "SP" /\ v[n] # "SP"
    BY DEF HasField
  <1>3. PICK s : s = From(B, 3)
    OBVIOUS
  <1>4. /\ s \in Seq(Plain) /\ Len(s) = n + 2
        /\ \A j \in 1..(n + 2) : s[j] = B[2 + j]
    <2>1. PICK m \in Nat : m = 2 /\ m + 1 = 3 /\ m <= Len(B) /\ Len(B) - m = n + 2
      BY <1>1
    <2>2. IsFrom(s, Plain, B, m)
      BY <1>1, <1>3, <2>1, FromAt
    <2> QED
      BY <2>1, <2>2 DEF IsFrom
  <1>5. s[1] = "SP" /\ s[n + 2] = "SP" /\ \A j \in 1..n : s[1 + j] = v[j]
    <2>1. s[1] = "SP"
      BY <1>1, <1>4
    <2>2. s[n + 2] = "SP"
      <3>1. n + 2 \in 1..(n + 2) /\ 2 + (n + 2) = n + 4
        OBVIOUS
      <3> QED
        BY <1>1, <1>4, <3>1
    <2>3. ASSUME NEW j \in 1..n
          PROVE  s[1 + j] = v[j]
      <3>1. 1 + j \in 1..(n + 2) /\ 2 + (1 + j) = 3 + j
        OBVIOUS
      <3> QED
        BY <1>1, <1>2, <1>4, <3>1
    <2> QED
      BY <2>1, <2>2, <2>3
  <1>6. Trim(s) = v
    BY <1>2, <1>4, <1>5, TrimIs
  <1> QED
    BY <1>2, <1>3, <1>6

(* The header that comes next, of two for a field the last one. *)
LEMMA HeadersStep ==
    ASSUME NEW r, NEW k \in Nat, NEW h, h = r.headers[k + 1]
    PROVE  WithHeader(HeadersUpto(r, k), <<h.field>>, h.value) = HeadersUpto(r, k + 1)
  <1> DEFINE S(f, m) == {i \in 1..m : r.headers[i].field = f}
             D(m) == {<<r.headers[i].field>> : i \in 1..m}
             V(m) == [f \in D(m) |-> r.headers[Max(S(f[1], m))].value]
             new == <<h.field>>
             X == [f \in D(k) \cup {new} |-> IF f = new THEN h.value ELSE V(k)[f]]
  <1>1. HeadersUpto(r, k) = V(k) /\ HeadersUpto(r, k + 1) = V(k + 1)
    BY DEF HeadersUpto
  <1>2. 1..(k + 1) = (1..k) \cup {k + 1} /\ k + 1 \in 1..(k + 1)
    OBVIOUS
  <1>3. D(k + 1) = D(k) \cup {new}
    BY <1>2
  <1>4. WithHeader(V(k), new, h.value) = X
    BY DEF WithHeader
  <1>5. ASSUME NEW f \in D(k + 1)
        PROVE  X[f] = V(k + 1)[f]
    <2>1. PICK j \in 1..(k + 1) : f = <<r.headers[j].field>>
      BY <1>5
    <2>2. PICK w : w = r.headers[j].field /\ f = <<w>> /\ f[1] = w
      BY <2>1
    <2>3. CASE f = new
      <3>1. w = h.field
        BY <2>2, <2>3
      <3>2. k + 1 \in S(w, k + 1)
        BY <1>2, <3>1
      <3>3. S(w, k + 1) \subseteq Int /\ \A i \in S(w, k + 1) : i <= k + 1
        OBVIOUS
      <3>4. Max(S(w, k + 1)) = k + 1
        <4> HIDE DEF S
        <4> QED
          BY <3>2, <3>3, MaxIs
      <3>5. V(k + 1)[f] = r.headers[Max(S(w, k + 1))].value
        BY <2>2
      <3>6. X[f] = h.value
        BY <1>3, <2>3
      <3> QED
        BY <3>4, <3>5, <3>6
    <2>4. CASE f # new
      <3>1. f \in D(k)
        BY <1>3, <2>4
      <3>2. w # h.field
        BY <2>2, <2>4
      <3>3. S(w, k + 1) = S(w, k)
        BY <1>2, <3>2
      <3>4. V(k + 1)[f] = r.headers[Max(S(w, k + 1))].value
        BY <2>2
      <3>5. X[f] = V(k)[f]
        BY <2>4, <3>1
      <3>6. V(k)[f] = r.headers[Max(S(w, k))].value
        BY <2>2, <3>1
      <3> QED
        BY <3>3, <3>4, <3>5, <3>6
    <2> QED
      BY <2>3, <2>4
  <1>6. X = V(k + 1)
    BY <1>3, <1>5
  <1> QED
    BY <1>1, <1>4, <1>6

(* A header line goes to the request as the header that the client wrote. *)
LEMMA HeaderLineParsed ==
    ASSUME NEW r, IsRequest(r), NEW k \in Nat, k + 1 \in 1..Len(r.headers),
           NEW B, B = HeaderBody(r.headers[k + 1])
    PROVE  /\ Find(B, 1, Len(B) + 1, ":") = 2 /\ 2 <= Len(B)
           /\ addHeader(MeaningUpto(r, k), B, 2) = MeaningUpto(r, k + 1)
  <1>1. PICK h : h = r.headers[k + 1] /\ IsHeader(h)
    BY DEF IsRequest
  <1>2. PICK n \in Nat : n = Len(h.value)
    BY <1>1, HeaderHasField DEF HasField
  <1>3. IsHeaderBody(B, h, n) /\ HasField(h, n)
    BY <1>1, <1>2, HeaderBodyAt, HeaderHasField
  <1>4. /\ Find(B, 1, Len(B) + 1, ":") = 2 /\ 2 <= Len(B)
        /\ Before(B, 2) = <<h.field>>
    BY <1>3, HeaderFinds
  <1>5. Trim(From(B, 2 + 1)) = h.value
    <2>1. Trim(From(B, 3)) = h.value
      BY <1>3, HeaderValue
    <2>2. 2 + 1 = 3
      OBVIOUS
    <2> QED
      BY <2>1, <2>2
  <1>6. PICK m, m2 : m = MeaningUpto(r, k) /\ m2 = MeaningUpto(r, k + 1)
    OBVIOUS
  <1>7. addHeader(m, B, 2) =
            [m EXCEPT !.headers = WithHeader(@, <<h.field>>, h.value)]
    BY <1>4, <1>5 DEF addHeader
  <1>8. WithHeader(HeadersUpto(r, k), <<h.field>>, h.value) = HeadersUpto(r, k + 1)
    BY <1>1, HeadersStep
  <1>9. [m EXCEPT !.headers = WithHeader(@, <<h.field>>, h.value)] = m2
    BY <1>6, <1>8 DEF MeaningUpto
  <1> QED
    BY <1>4, <1>6, <1>7, <1>9

-----------------------------------------------------------------------------
(* From line to line.                                                      *)

(* The numbers of a window. *)
LEMMA WindowCount ==
    ASSUME NEW text, NEW p, NEW buf, NEW rem, Window(text, p, buf, rem)
    PROVE  /\ p \in Nat /\ Len(buf) \in Nat /\ Len(rem) \in Nat /\ Len(text) \in Nat
           /\ (Len(text) - Len(rem)) - Len(buf) = p
           /\ Len(text) - Len(rem) = p + Len(buf)
           /\ p + Len(buf) <= Len(text)
  <1>1. PICK n \in Nat, m \in Nat : n = Len(buf) /\ m = Len(rem)
    BY DEF Window
  <1>2. p \in Nat /\ p + n + m = Len(text)
    BY <1>1 DEF Window
  <1>3. PICK t : t = Len(text)
    OBVIOUS
  <1>4. t \in Nat /\ (t - m) - n = p /\ t - m = p + n /\ p + n <= t
    BY <1>2, <1>3
  <1> QED
    BY <1>1, <1>2, <1>3, <1>4

(* Where a request ends a line begins, or the text is at its end. *)
LEMMA EndAtLine ==
    ASSUME NEW c, IsClient(c), NEW i \in 0..Len(c)
    PROVE  AtLine(c, EndOf(c, i))
  <1>1. PICK n \in Nat : n = Len(c)
    BY StreamIs
  <1>2. CASE i = n
    BY <1>1, <1>2, StreamIs DEF AtLine
  <1>3. CASE i # n
    <2>1. PICK j \in 1..n : j = i + 1 /\ j - 1 = i
      <3>1. i + 1 \in 1..n /\ (i + 1) - 1 = i
        BY <1>1, <1>3
      <3> QED
        BY <3>1
    <2>2. PICK m \in Nat : m = LineCount(c[j]) /\ m >= 2
      BY <1>1, <2>1, RequestLengths DEF IsClient
    <2>3. Pos(c, j, 0) = EndOf(c, i)
      BY <1>1, <2>1, PosEnds
    <2>4. 0 \in 0..(m - 1)
      BY <2>2
    <2>5. LineBegins(c, EndOf(c, i), j, 0)
      BY <1>1, <2>1, <2>2, <2>3, <2>4 DEF LineBegins
    <2> QED
      BY <2>1, <2>5 DEF AtLine
  <1> QED
    BY <1>2, <1>3

(* Line k + 1 of request i. *)
IsLineNo(c, i, k) == i \in 1..Len(c) /\ k \in 0..(LineCount(c[i]) - 1)

(* The numbers of a line. *)
LEMMA LineNo ==
    ASSUME NEW c, IsClient(c), NEW i, NEW k, IsLineNo(c, i, k)
    PROVE  /\ i \in 1..Len(c) /\ i \in Nat /\ k \in Nat
           /\ k \in 0..LineCount(c[i]) /\ k + 1 \in 1..LineCount(c[i])
           /\ LineCount(c[i]) \in Nat /\ LineCount(c[i]) >= 2
           /\ k + 1 \in 0..LineCount(c[i]) /\ (k + 1) - 1 = k
           /\ IsRequest(c[i]) /\ Len(c) \in Nat /\ i \in 0..Len(c) /\ i - 1 \in 0..Len(c)
           /\ LineCount(c[i]) \in (k + 1)..LineCount(c[i])
           /\ LineCount(c[i]) \in 0..LineCount(c[i])
           /\ EndOf(c, i) \in Nat /\ EndOf(c, i - 1) \in Nat
  <1>1. PICK n \in Nat : n = Len(c)
    BY StreamIs
  <1>2. i \in 1..n /\ IsRequest(c[i]) /\ k \in 0..(LineCount(c[i]) - 1)
    BY <1>1 DEF IsLineNo, IsClient
  <1>3. PICK m \in Nat : m = LineCount(c[i]) /\ m >= 2
    BY <1>2, RequestLengths
  <1>4. i \in Nat /\ i \in 0..n /\ i - 1 \in 0..n
    BY <1>2
  <1>5. k \in 0..(m - 1)
    BY <1>2, <1>3
  <1>6. /\ k \in Nat /\ k \in 0..m /\ k + 1 \in 1..m /\ k + 1 \in 0..m
        /\ (k + 1) - 1 = k /\ m \in (k + 1)..m /\ m \in 0..m
    BY <1>5
  <1>7. EndOf(c, i) \in Nat /\ EndOf(c, i - 1) \in Nat
    BY <1>1, <1>4, StreamIs
  <1> QED
    BY <1>1, <1>2, <1>3, <1>4, <1>6, <1>7

(* Behind a line the next one begins. *)
LEMMA NextAtLine ==
    ASSUME NEW c, IsClient(c), NEW i, NEW k, IsLineNo(c, i, k)
    PROVE  AtLine(c, Pos(c, i, k + 1))
  <1>1. PICK m \in Nat : m = LineCount(c[i])
    BY LineNo
  <1>2. k \in Nat /\ k + 1 \in 1..m /\ i \in 1..Len(c) /\ i \in 0..Len(c) /\ i \in Nat
    BY <1>1, LineNo
  <1>3. CASE k + 1 = m
    <2>1. Pos(c, i, k + 1) = EndOf(c, i)
      BY <1>1, <1>2, <1>3, PosEnds
    <2> QED
      BY <1>2, <2>1, EndAtLine
  <1>4. CASE k + 1 # m
    <2>1. k + 1 \in 0..(m - 1) /\ k + 1 \in Nat
      BY <1>2, <1>4
    <2>2. LineBegins(c, Pos(c, i, k + 1), i, k + 1)
      BY <1>1, <1>2, <2>1 DEF LineBegins
    <2> QED
      BY <1>2, <2>1, <2>2 DEF AtLine
  <1> QED
    BY <1>3, <1>4

(* The buffer has only a part of the line ... *)
NotSeen(c, p, buf, i, k) ==
    findCRLF(buf) = 0 /\ p + Len(buf) < Pos(c, i, k + 1)

(* ... or all of it, and what is behind it. *)
Seen(c, p, buf, rem, i, k, B) ==
    /\ findCRLF(buf) # 0 /\ Before(buf, findCRLF(buf)) = B
    /\ Window(Stream(c), Pos(c, i, k + 1), From(buf, findCRLF(buf) + 2), rem)
    /\ p < Pos(c, i, k + 1)

(* There is no third case. *)
LEMMA LineSeen ==
    ASSUME NEW c, IsClient(c), NEW i, NEW k, IsLineNo(c, i, k), NEW p,
           p = Pos(c, i, k), NEW buf, NEW rem, Window(Stream(c), p, buf, rem),
           NEW B, B = BodyOf(c[i], k + 1)
    PROVE  NotSeen(c, p, buf, i, k) \/ Seen(c, p, buf, rem, i, k, B)
  <1>1. PICK n : n = Len(B)
    OBVIOUS
  <1>2. i \in 1..Len(c) /\ k + 1 \in 1..LineCount(c[i]) /\ (k + 1) - 1 = k
    BY LineNo
  <1>3. PICK k1 : k1 = k + 1 /\ k1 \in 1..LineCount(c[i]) /\ k1 - 1 = k
    BY <1>2
  <1>4. /\ TextHas(Stream(c), Pos(c, i, k1 - 1), B, n)
        /\ Pos(c, i, k1) = Pos(c, i, k1 - 1) + n + 2
    BY <1>1, <1>2, <1>3, LineAt
  <1>5. TextHas(Stream(c), p, B, n) /\ Pos(c, i, k + 1) = p + n + 2
    BY <1>3, <1>4
  <1>6. n \in Nat /\ p \in Nat
    BY <1>5 DEF TextHas
  <1>7. PICK l \in Nat : l = Len(buf)
    BY WindowCount
  <1>8. CASE l < n + 2
    <2>1. findCRLF(buf) = 0
      BY <1>5, <1>7, <1>8, LineMissing
    <2>2. p + l < p + n + 2
      BY <1>6, <1>8
    <2> QED
      BY <1>5, <1>7, <2>1, <2>2 DEF NotSeen
  <1>9. CASE n + 2 <= l
    <2>1. findCRLF(buf) = n + 1 /\ Before(buf, n + 1) = B
      BY <1>5, <1>7, <1>9, LineFound
    <2>2. PICK m \in Nat : m = n + 2 /\ m + 1 = (n + 1) + 2 /\ p + m = p + n + 2
      BY <1>6
    <2>3. m <= Len(buf)
      BY <1>7, <1>9, <2>2
    <2>4. Window(Stream(c), p + m, From(buf, m + 1), rem)
      BY <2>3, WindowRetrieve
    <2>5. n + 1 # 0 /\ p < p + n + 2
      BY <1>6
    <2> QED
      BY <1>5, <2>1, <2>2, <2>4, <2>5 DEF Seen
  <1> QED
    BY <1>6, <1>7, <1>8, <1>9

(* Up to the end of a request all of its lines are there. *)
LEMMA LineBeforeEnd ==
    ASSUME NEW c, IsClient(c), NEW i, NEW k, IsLineNo(c, i, k),
           NEW e \in Ends(c), EndOf(c, i - 1) < e
    PROVE  e \in Nat /\ Pos(c, i, k + 1) \in Nat /\ Pos(c, i, k + 1) <= e
  <1>1. PICK m \in Nat : m = LineCount(c[i])
    BY LineNo
  <1>2. PICK k1 \in 0..m : k1 = k + 1 /\ m \in k1..m /\ m \in 0..m
    BY <1>1, LineNo
  <1>3. i \in 1..Len(c) /\ EndOf(c, i) \in Nat
    BY LineNo
  <1>4. e \in Nat /\ EndOf(c, i) <= e
    BY <1>3, NextEnd
  <1>5. Pos(c, i, k1) <= Pos(c, i, m) /\ Pos(c, i, k1) \in Nat
    BY <1>1, <1>2, <1>3, PosGrow, PosNat
  <1>6. Pos(c, i, m) = EndOf(c, i)
    BY <1>1, <1>3, PosEnds
  <1> QED
    BY <1>2, <1>3, <1>4, <1>5, <1>6

-----------------------------------------------------------------------------
(* The invariant.                                                          *)

(* Every client is one that the assumptions allow. *)
LEMMA ClientIs ==
    ASSUME NEW c \in Clients
    PROVE  IsClient(c)
  BY HttpServerAssumptions DEF IsClient

(* Parsed and Received are the ends of the window. *)
LEMMA ParsedIs ==
    ASSUME NEW p, Window(Stream(requests), p, inputBuffer, rest)
    PROVE  /\ Parsed = p /\ Received = p + Len(inputBuffer)
           /\ p \in Nat /\ Len(inputBuffer) \in Nat
           /\ p + Len(inputBuffer) <= Len(Stream(requests))
  BY WindowCount DEF Parsed, Received

(* The same in the next state. *)
LEMMA ParsedIsNext ==
    ASSUME NEW p, Window(Stream(requests'), p, inputBuffer', rest')
    PROVE  /\ Parsed' = p /\ Received' = p + Len(inputBuffer')
           /\ p \in Nat /\ Len(inputBuffer') \in Nat
  BY WindowCount DEF Parsed, Received

(* The invariant holds at first. *)
LEMMA IInvInit ==
    ASSUME Init
    PROVE  IInv
  <1>1. IsClient(requests)
    BY ClientIs DEF Init
  <1>2. Stream(requests) \in Seq(Tokens) /\ Len(Stream(requests)) \in Nat
    BY <1>1, StreamIs
  <1>3. /\ rest = Stream(requests) /\ inputBuffer = <<>> /\ begin = 0
        /\ cut = FALSE /\ sent = <<>> /\ pc = "idle" /\ context = NewContext
    BY DEF Init
  <1>4. Window(Stream(requests), 0, inputBuffer, rest)
    <2>1. /\ inputBuffer \in Seq(Tokens) /\ Len(inputBuffer) = 0
      BY <1>3, EmptyLen, EmptySeq
    <2>2. 0 + 0 + Len(Stream(requests)) = Len(Stream(requests))
          /\ \A j \in 1..Len(Stream(requests)) : 0 + 0 + j = j
      BY <1>2
    <2> QED
      BY <1>2, <1>3, <2>1, <2>2 DEF Window
  <1>5. Parsed = 0 /\ Received = 0
    BY <1>3, <1>4, ParsedIs, EmptyLen
  <1>6. EndOf(requests, 0) = 0 /\ 0 \in 0..Len(requests) /\ 0 \in Ends(requests)
    <2>1. EndOf(requests, 0) = 0 /\ 0 \in 0..Len(requests)
      BY <1>1, StreamIs
    <2> QED
      BY <2>1 DEF Ends
  <1>7. AtLine(requests, Parsed)
    BY <1>1, <1>5, <1>6, EndAtLine
  <1>8. TextInv
    <2>1. /\ requests \in Clients /\ httpCallback \in Callbacks
          /\ connState \in {"kConnected", "kDisconnecting", "kDisconnected"}
      BY DEF Init
    <2>2. begin \in 0..Parsed
      BY <1>3, <1>5
    <2> QED
      BY <1>3, <1>4, <1>5, <1>7, <2>1, <2>2 DEF TextInv
  <1>9. ContextInv
    BY <1>3 DEF ContextInv
  <1>10. CutInv
    BY <1>3, <1>5, <1>6 DEF CutInv
  <1>11. AnswerInv
    <2>1. Len(sent) = 0 /\ sent \in Seq({}) /\ 0 <= Len(requests)
      BY <1>1, <1>3, StreamIs, EmptyLen, EmptySeq
    <2> QED
      BY <1>3, <1>5, <1>6, <2>1 DEF AnswerInv
  <1>12. BadRequestHasCause
    <2>1. DOMAIN sent = {}
      BY <1>3
    <2> QED
      BY <2>1 DEF BadRequestHasCause
  <1> QED
    BY <1>8, <1>9, <1>10, <1>11, <1>12 DEF IInv

(* Where the text, the answers and the callback are left alone. *)
LEMMA AnswersKept ==
    ASSUME AnswerInv, BadRequestHasCause, cut => cut', pc \in {"parse", "parsed"},
           pc' \in {"parse", "parsed"}, UNCHANGED <<fixed, sent, connState, begin>>
    PROVE  AnswerInv' /\ BadRequestHasCause'
  <1>1. /\ sent' = sent /\ connState' = connState /\ requests' = requests
        /\ httpCallback' = httpCallback /\ begin' = begin
    BY DEF fixed
  <1>2. \A r : Answer(r)' = Answer(r)
    BY <1>1 DEF Answer, ResponseTo, Respond
  <1>3. AnswerInv'
    BY <1>1, <1>2 DEF AnswerInv
  <1>4. BadRequestHasCause'
    BY <1>1 DEF BadRequestHasCause
  <1> QED
    BY <1>3, <1>4

(* What the invariant says of the text. *)
LEMMA TextFacts ==
    ASSUME TextInv
    PROVE  /\ IsClient(requests)
           /\ Window(Stream(requests), Parsed, inputBuffer, rest)
           /\ Received = Parsed + Len(inputBuffer)
           /\ Parsed \in Nat /\ Len(inputBuffer) \in Nat /\ Received \in Nat
           /\ Received <= Len(Stream(requests)) /\ Len(Stream(requests)) \in Nat
           /\ begin \in Nat /\ begin <= Parsed
  <1>1. IsClient(requests)
    BY ClientIs DEF TextInv
  <1>2. PICK p : p = Parsed
    OBVIOUS
  <1>3. Window(Stream(requests), p, inputBuffer, rest) /\ begin \in 0..p
    BY <1>2 DEF TextInv
  <1>4. /\ Received = p + Len(inputBuffer) /\ p \in Nat /\ Len(inputBuffer) \in Nat
        /\ p + Len(inputBuffer) <= Len(Stream(requests))
    BY <1>3, ParsedIs
  <1>5. Received \in Nat /\ begin \in Nat /\ begin <= p
    BY <1>3, <1>4
  <1>6. Len(Stream(requests)) \in Nat
    BY <1>1, StreamIs
  <1> QED
    BY <1>1, <1>2, <1>3, <1>4, <1>5, <1>6

(* A new context has got nothing. *)
LEMMA NewContextIs == ~gotAll(NewContext) /\ ~NewContext.ok
  BY DEF NewContext, gotAll

(* A read moves the end of the window and starts a new context. *)
LEMMA ReadKeeps ==
    ASSUME IInv, NEW n \in 1..Len(rest), Read(n)
    PROVE  IInv'
  <1>1. TextInv /\ CutInv /\ AnswerInv /\ BadRequestHasCause
    BY DEF IInv
  <1>2. /\ pc = "idle" /\ pc' = "parse" /\ context' = NewContext
        /\ requests' = requests /\ httpCallback' = httpCallback
        /\ connState' = connState /\ sent' = sent /\ begin' = Parsed
        /\ inputBuffer' = inputBuffer \o SubSeq(rest, 1, n)
        /\ rest' = From(rest, n + 1)
        /\ cut' = (cut \/ Received + n \notin Ends(requests))
    BY DEF Read, fixed
  <1>3. PICK p \in Nat : p = Parsed /\ Window(Stream(requests), p, inputBuffer, rest)
    BY <1>1, TextFacts
  <1>4. /\ Window(Stream(requests), p, inputBuffer', rest')
        /\ Len(inputBuffer') = Len(inputBuffer) + n
    <2>1. PICK buf, rem : buf = inputBuffer /\ rem = rest
      OBVIOUS
    <2>2. PICK b, q : b = buf \o SubSeq(rem, 1, n) /\ q = From(rem, n + 1)
      OBVIOUS
    <2>3. n \in 1..Len(rem) /\ Window(Stream(requests), p, buf, rem)
      BY <1>3, <2>1
    <2>4. AfterRead(Stream(requests), p, buf, n, b, q)
      BY <2>2, <2>3, WindowRead
    <2> QED
      BY <1>2, <2>1, <2>2, <2>4 DEF AfterRead
  <1>5. Parsed' = p /\ Received' = p + Len(inputBuffer')
    BY <1>2, <1>4, ParsedIsNext
  <1>6. Received' = Received + n /\ inputBuffer' # <<>>
    <2>1. Received = p + Len(inputBuffer) /\ Len(inputBuffer) \in Nat /\ n \in Nat /\ n > 0
      BY <1>1, <1>3, TextFacts
    <2>2. Received' = Received + n
      BY <1>4, <1>5, <2>1
    <2>3. Len(inputBuffer') # 0
      BY <1>4, <2>1
    <2> QED
      BY <2>2, <2>3, EmptyLen
  <1>7. TextInv'
    <2>1. p \in 0..p
      OBVIOUS
    <2>2. /\ requests \in Clients /\ httpCallback \in Callbacks
          /\ connState \in {"kConnected", "kDisconnecting", "kDisconnected"}
          /\ cut \in BOOLEAN /\ AtLine(requests, p)
      BY <1>1, <1>3 DEF TextInv
    <2> QED
      BY <1>2, <1>3, <1>4, <1>5, <2>1, <2>2 DEF TextInv
  <1>8. ContextInv'
    BY <1>2, <1>3, <1>5, <1>6, NewContextIs DEF ContextInv
  <1>9. CutInv'
    <2> SUFFICES ASSUME ~cut' PROVE CutInv'
      BY DEF CutInv
    <2>1. ~cut /\ Received' \in Ends(requests)
      BY <1>2, <1>6
    <2>2. p \in Ends(requests)
      BY <1>1, <1>2, <1>3, <2>1 DEF CutInv
    <2> QED
      BY <1>2, <1>3, <2>1, <2>2 DEF CutInv
  <1>10. \A r : Answer(r)' = Answer(r)
    BY <1>2 DEF Answer, ResponseTo, Respond
  <1>11. AnswerInv'
    <2>1. ~cut' => ~cut
      BY <1>2
    <2>2. ~cut /\ connState = "kConnected" => EndOf(requests, Len(sent)) = p
      BY <1>1, <1>2, <1>3 DEF AnswerInv
    <2> QED
      BY <1>1, <1>2, <1>3, <1>10, <2>1, <2>2 DEF AnswerInv
  <1>12. BadRequestHasCause'
    BY <1>1, <1>2 DEF BadRequestHasCause
  <1> QED
    BY <1>7, <1>8, <1>9, <1>11, <1>12 DEF IInv

(* A close leaves the text and the answers alone. *)
LEMMA PeerClosesKeeps ==
    ASSUME IInv, PeerCloses
    PROVE  IInv'
  <1>1. TextInv /\ ContextInv /\ CutInv /\ AnswerInv /\ BadRequestHasCause
    BY DEF IInv
  <1>2. /\ connState' = "kDisconnected" /\ requests' = requests
        /\ httpCallback' = httpCallback /\ rest' = rest /\ pc' = pc
        /\ inputBuffer' = inputBuffer /\ context' = context /\ begin' = begin
        /\ cut' = cut /\ sent' = sent
    BY DEF PeerCloses, fixed
  <1>3. Parsed' = Parsed /\ Received' = Received
    BY <1>2 DEF Parsed, Received
  <1>4. \A r : Answer(r)' = Answer(r)
    BY <1>2 DEF Answer, ResponseTo, Respond
  <1>5. TextInv'
    BY <1>1, <1>2, <1>3 DEF TextInv
  <1>6. ContextInv'
    BY <1>1, <1>2, <1>3 DEF ContextInv
  <1>7. CutInv'
    BY <1>1, <1>2, <1>3 DEF CutInv
  <1>8. AnswerInv'
    BY <1>1, <1>2, <1>3, <1>4 DEF AnswerInv
  <1>9. BadRequestHasCause'
    BY <1>1, <1>2 DEF BadRequestHasCause
  <1> QED
    BY <1>5, <1>6, <1>7, <1>8, <1>9 DEF IInv

(* A step of the parser, which comes to place q. *)
LEMMA ParseStepKeeps ==
    ASSUME IInv, ParseStep, pc' \in {"parse", "parsed"}, NEW q,
           Window(Stream(requests), q, inputBuffer', rest), AtLine(requests, q),
           Parsed <= q
    PROVE  /\ TextInv' /\ AnswerInv' /\ BadRequestHasCause'
           /\ Parsed' = q /\ Received' = Received
  <1>1. TextInv /\ AnswerInv /\ BadRequestHasCause
    BY DEF IInv
  <1>2. /\ requests' = requests /\ httpCallback' = httpCallback /\ rest' = rest
        /\ connState' = connState /\ begin' = begin /\ cut' = cut /\ sent' = sent
        /\ pc = "parse"
    BY DEF ParseStep, fixed
  <1>3. Parsed' = q /\ q \in Nat
    BY <1>2, ParsedIsNext
  <1>4. Received' = Received
    BY <1>2 DEF Received
  <1>5. TextInv'
    <2>1. begin \in 0..q
      BY <1>1, <1>3, TextFacts
    <2>2. /\ requests \in Clients /\ httpCallback \in Callbacks
          /\ connState \in {"kConnected", "kDisconnecting", "kDisconnected"}
          /\ cut \in BOOLEAN
      BY <1>1 DEF TextInv
    <2> QED
      BY <1>2, <1>3, <2>1, <2>2 DEF TextInv
  <1>6. AnswerInv' /\ BadRequestHasCause'
    BY <1>1, <1>2, AnswersKept DEF ParseStep
  <1> QED
    BY <1>3, <1>4, <1>5, <1>6

(* Only the first line of a request counts as a request line. *)
LEMMA WhichLine ==
    ASSUME NEW r, IsRequest(r), NEW k \in 0..(LineCount(r) - 1), NEW B,
           B = BodyOf(r, k + 1), NEW pr, pr = processRequestLine(B)
    PROVE  /\ pr.ok => k = 0 /\ WellFormed(r) /\ pr.request = MeaningUpto(r, 0)
           /\ k = 0 /\ WellFormed(r) => pr.ok
  <1>1. PICK m \in Nat : m = Len(r.headers) /\ LineCount(r) = m + 2
    BY RequestLengths DEF LineCount
  <1>2. CASE k = 0
    <2>1. B = RequestBody(r)
      BY <1>2 DEF BodyOf
    <2> QED
      BY <1>2, <2>1, RequestLineParsed
  <1>3. CASE k # 0 /\ k < m + 1
    <2>1. /\ k + 1 # 1 /\ k + 1 < m + 2 /\ (k + 1) - 1 = k /\ k \in 1..m
      BY <1>1, <1>3
    <2>2. B = HeaderBody(r.headers[k])
      BY <1>1, <2>1 DEF BodyOf
    <2>3. IsHeader(r.headers[k])
      BY <1>1, <2>1, RequestLengths
    <2> QED
      BY <1>3, <2>2, <2>3, HeaderNotRequest
  <1>4. CASE k # 0 /\ ~(k < m + 1)
    <2>1. k + 1 # 1 /\ ~(k + 1 < m + 2)
      BY <1>1, <1>4
    <2>2. B = <<>>
      BY <1>1, <2>1 DEF BodyOf
    <2> QED
      BY <1>4, <2>2, EmptyNotRequest
  <1> QED
    BY <1>2, <1>3, <1>4

(* A new context is at the beginning of some line. *)
LEMMA AtRequestLine ==
    ASSUME IInv, pc = "parse", context.state = "kExpectRequestLine"
    PROVE  /\ context = NewContext /\ begin = Parsed /\ Parsed < Received
           /\ \E i, k \in Nat : IsLineNo(requests, i, k) /\ Parsed = Pos(requests, i, k)
  <1>1. TextInv /\ ContextInv
    BY DEF IInv
  <1>2. context = NewContext
    <2>1. \A i, k \in Nat : ~Halfway(requests, begin, Parsed, context, i, k)
      BY DEF Halfway
    <2>2. \A i \in Nat : ~Complete(requests, begin, Parsed, context, i)
      BY DEF Complete
    <2> QED
      BY <1>1, <2>1, <2>2 DEF ContextInv
  <1>3. begin = Parsed /\ inputBuffer # <<>>
    BY <1>1, <1>2 DEF ContextInv
  <1>4. PICK p \in Nat, l \in Nat, e \in Nat :
            /\ p = Parsed /\ l = Len(inputBuffer) /\ e = Len(Stream(requests))
            /\ Received = p + l /\ p + l <= e
    BY <1>1, TextFacts
  <1>5. l # 0
    <2>1. inputBuffer \in Seq(Tokens)
      BY <1>1 DEF TextInv, Window
    <2> QED
      BY <1>3, <1>4, <2>1
  <1>6. p < p + l /\ p # e
    BY <1>4, <1>5
  <1>7. AtLine(requests, p)
    BY <1>1, <1>4 DEF TextInv
  <1>8. PICK i \in Nat, k \in Nat : LineBegins(requests, p, i, k)
    BY <1>4, <1>6, <1>7 DEF AtLine
  <1>9. IsLineNo(requests, i, k) /\ p = Pos(requests, i, k)
    BY <1>8 DEF LineBegins, IsLineNo
  <1> QED
    BY <1>2, <1>3, <1>4, <1>6, <1>9

(* The request line is taken, refused or awaited. *)
LEMMA ParseRequestLineKeeps ==
    ASSUME IInv, ParseRequestLine
    PROVE  IInv'
  <1>1. TextInv /\ ContextInv /\ CutInv
    BY DEF IInv
  <1>2. ParseStep /\ pc = "parse" /\ context.state = "kExpectRequestLine"
    BY DEF ParseRequestLine, ParseStep
  <1>3. /\ requests' = requests /\ begin' = begin /\ cut' = cut /\ rest' = rest
    BY <1>2 DEF ParseStep, fixed
  <1>4. context = NewContext /\ begin = Parsed /\ Parsed < Received
    BY <1>2, AtRequestLine
  <1>5. PICK i \in Nat, k \in Nat :
            IsLineNo(requests, i, k) /\ Parsed = Pos(requests, i, k)
    BY <1>2, AtRequestLine
  <1>6. PICK p : p = Parsed
    OBVIOUS
  <1>7. /\ p \in Nat /\ Len(inputBuffer) \in Nat /\ Received = p + Len(inputBuffer)
        /\ Window(Stream(requests), p, inputBuffer, rest) /\ IsClient(requests)
    BY <1>1, <1>6, TextFacts
  <1>8. PICK r : r = requests[i] /\ IsRequest(r) /\ k \in 0..(LineCount(r) - 1)
    BY <1>5, <1>7 DEF IsLineNo, IsClient
  <1>9. PICK B : B = BodyOf(r, k + 1)
    OBVIOUS
  <1>10. \/ NotSeen(requests, p, inputBuffer, i, k)
         \/ Seen(requests, p, inputBuffer, rest, i, k, B)
    BY <1>5, <1>6, <1>7, <1>8, <1>9, LineSeen
  <1>11. PICK f, pr : /\ f = findCRLF(inputBuffer)
                      /\ pr = processRequestLine(Before(inputBuffer, f))
    OBVIOUS
  <1>12. CASE f # 0 /\ pr.ok
    <2>1. /\ context' = [state |-> "kExpectHeaders", ok |-> TRUE,
                         request |-> pr.request]
          /\ inputBuffer' = From(inputBuffer, f + 2) /\ pc' = pc
      BY <1>11, <1>12 DEF ParseRequestLine, RetrieveLine
    <2>2. Seen(requests, p, inputBuffer, rest, i, k, B)
      BY <1>10, <1>11, <1>12 DEF NotSeen
    <2>3. Before(inputBuffer, f) = B
      BY <1>11, <2>2 DEF Seen
    <2>4. k = 0 /\ WellFormed(r) /\ pr.request = MeaningUpto(r, 0)
      BY <1>8, <1>9, <1>11, <1>12, <2>3, WhichLine
    <2>5. PICK q : q = Pos(requests, i, k + 1)
      OBVIOUS
    <2>6. Window(Stream(requests), q, inputBuffer', rest) /\ p < q
      BY <1>11, <2>1, <2>2, <2>5 DEF Seen
    <2>7. AtLine(requests, q)
      BY <1>5, <1>7, <2>5, NextAtLine
    <2>8. p <= q
      <3>1. q \in Nat
        BY <2>6, WindowCount
      <3> QED
        BY <1>7, <2>6, <3>1
    <2>9. /\ TextInv' /\ AnswerInv' /\ BadRequestHasCause'
          /\ Parsed' = q /\ Received' = Received
      BY <1>2, <1>6, <2>1, <2>6, <2>7, <2>8, ParseStepKeeps
    <2>10. Halfway(requests, begin, q, context', i, 0)
      <3>1. i \in 1..Len(requests)
        BY <1>5 DEF IsLineNo
      <3>2. begin = EndOf(requests, i - 1)
        BY <1>4, <1>5, <1>7, <2>4, <3>1, PosEnds
      <3>3. q = Pos(requests, i, 0 + 1)
        BY <2>4, <2>5
      <3>4. 0 \in 0..Len(requests[i].headers)
        BY <1>8, RequestLengths
      <3>5. context' = [state |-> "kExpectHeaders", ok |-> TRUE,
                        request |-> MeaningUpto(requests[i], 0)]
        BY <1>8, <2>1, <2>4
      <3>6. context'.ok
        BY <2>1
      <3> QED
        BY <1>8, <2>4, <3>1, <3>2, <3>3, <3>4, <3>5, <3>6 DEF Halfway
    <2>11. ContextInv'
      <3>1. ~gotAll(context') /\ context' # NewContext
        BY <2>1 DEF gotAll, NewContext
      <3>2. \E j, m \in Nat : Halfway(requests', begin', Parsed', context', j, m)
        BY <1>3, <2>9, <2>10
      <3> QED
        BY <3>1, <3>2 DEF ContextInv
    <2>12. CutInv'
      BY <1>1, <1>2, <1>3, <2>1, <2>9 DEF CutInv
    <2> QED
      BY <2>9, <2>11, <2>12 DEF IInv
  <1>13. CASE ~(f # 0 /\ pr.ok)
    <2>1. context' = context /\ inputBuffer' = inputBuffer /\ pc' = "parsed"
      BY <1>11, <1>13 DEF ParseRequestLine
    <2>2. AtLine(requests, p) /\ p <= p
      BY <1>1, <1>6, <1>7 DEF TextInv
    <2>3. /\ TextInv' /\ AnswerInv' /\ BadRequestHasCause'
          /\ Parsed' = p /\ Received' = Received
      BY <1>2, <1>6, <1>7, <2>1, <2>2, ParseStepKeeps
    <2>4. ContextInv'
      BY <1>3, <1>4, <1>6, <2>1, <2>3 DEF ContextInv
    <2>5. ASSUME ~cut
          PROVE  Rejected(requests, begin)
      <3>1. Received \in Ends(requests) /\ begin \in Ends(requests)
        BY <1>1, <2>5 DEF CutInv
      <3>2. i \in 1..Len(requests)
        BY <1>5 DEF IsLineNo
      <3>3. k = 0
        BY <1>4, <1>5, <1>7, <1>8, <3>1, <3>2, EndIsFirst
      <3>4. p = EndOf(requests, i - 1)
        BY <1>5, <1>6, <1>7, <3>2, <3>3, PosEnds
      <3>5. /\ Pos(requests, i, k + 1) \in Nat
            /\ Pos(requests, i, k + 1) <= Received
        BY <1>4, <1>5, <1>6, <1>7, <3>1, <3>4, LineBeforeEnd
      <3>6. Seen(requests, p, inputBuffer, rest, i, k, B)
        BY <1>7, <1>10, <3>5 DEF NotSeen
      <3>7. Before(inputBuffer, f) = B /\ f # 0
        BY <1>11, <3>6 DEF Seen
      <3>8. ~WellFormed(r)
        BY <1>8, <1>9, <1>11, <1>13, <3>3, <3>7, WhichLine
      <3> QED
        BY <1>4, <1>6, <1>8, <3>2, <3>4, <3>8 DEF Rejected
    <2>6. CutInv'
      BY <1>1, <1>3, <2>1, <2>3, <2>5 DEF CutInv
    <2> QED
      BY <2>3, <2>4, <2>6 DEF IInv
  <1> QED
    BY <1>12, <1>13

(* What a line behind the request line is. *)
LEMMA WhichHeader ==
    ASSUME NEW r, IsRequest(r), NEW k \in 0..Len(r.headers), NEW B,
           B = BodyOf(r, k + 2), NEW colon, colon = Find(B, 1, Len(B) + 1, ":")
    PROVE  /\ Len(B) \in Nat /\ colon \in Nat
           /\ colon <= Len(B) =>
                /\ k + 1 \in 0..Len(r.headers)
                /\ addHeader(MeaningUpto(r, k), B, colon) = MeaningUpto(r, k + 1)
           /\ colon > Len(B) => k = Len(r.headers)
  <1>1. PICK m \in Nat : m = Len(r.headers) /\ LineCount(r) = m + 2
    BY RequestLengths DEF LineCount
  <1>2. CASE k < m
    <2>1. /\ k + 2 # 1 /\ k + 2 < m + 2 /\ (k + 2) - 1 = k + 1 /\ k + 1 \in 1..m
          /\ k \in Nat /\ k + 1 \in 0..m
      BY <1>1, <1>2
    <2>2. B = HeaderBody(r.headers[k + 1])
      BY <1>1, <2>1 DEF BodyOf
    <2>3. /\ Find(B, 1, Len(B) + 1, ":") = 2 /\ 2 <= Len(B)
          /\ addHeader(MeaningUpto(r, k), B, 2) = MeaningUpto(r, k + 1)
      BY <1>1, <2>1, <2>2, HeaderLineParsed
    <2>4. Len(B) \in Nat
      <3>1. IsRequest(r) /\ k + 2 \in 1..LineCount(r)
        BY <1>1, <2>1
      <3> QED
        BY <3>1, LineOf DEF IsLine
    <2> QED
      BY <1>1, <2>1, <2>3, <2>4
  <1>3. CASE ~(k < m)
    <2>1. k + 2 # 1 /\ ~(k + 2 < m + 2) /\ k = m
      BY <1>1, <1>3
    <2>2. B = <<>>
      BY <1>1, <2>1 DEF BodyOf
    <2>3. colon > Len(B) /\ ~(colon <= Len(B)) /\ Len(B) \in Nat /\ colon \in Nat
      <3>1. Len(<<>>) = 0 /\ Len(<<>>) + 1 = 1
        BY EmptyLen
      <3>2. Find(<<>>, 1, Len(<<>>) + 1, ":") = 1
        BY <3>1, EmptyFinds
      <3> QED
        BY <2>2, <3>1, <3>2
    <2> QED
      BY <1>1, <2>1, <2>3
  <1> QED
    BY <1>2, <1>3

(* Behind k headers is line k + 2. *)
LEMMA HeaderLineNo ==
    ASSUME NEW r, IsRequest(r), NEW k \in 0..Len(r.headers)
    PROVE  /\ k + 1 \in 0..(LineCount(r) - 1) /\ (k + 1) + 1 = k + 2 /\ k \in Nat
           /\ (k + 1) \in 1..(LineCount(r) - 1)
           /\ k = Len(r.headers) => k + 2 = LineCount(r)
  <1>1. PICK m \in Nat : m = Len(r.headers) /\ LineCount(r) = m + 2
    BY RequestLengths DEF LineCount
  <1> QED
    BY <1>1

(* A context that expects headers has the request up to there. *)
LEMMA AtHeaders ==
    ASSUME IInv, context.state = "kExpectHeaders"
    PROVE  \E i, k \in Nat : Halfway(requests, begin, Parsed, context, i, k)
  <1>1. context # NewContext
    BY DEF NewContext
  <1>2. \A i \in Nat : ~Complete(requests, begin, Parsed, context, i)
    BY DEF Complete
  <1> QED
    BY <1>1, <1>2 DEF IInv, ContextInv

(* A header is taken, the headers end, or the line is awaited. *)
LEMMA ParseHeadersKeeps ==
    ASSUME IInv, ParseHeaders
    PROVE  IInv'
  <1>1. TextInv /\ ContextInv /\ CutInv
    BY DEF IInv
  <1>2. ParseStep /\ pc = "parse" /\ context.state = "kExpectHeaders"
    BY DEF ParseHeaders, ParseStep
  <1>3. requests' = requests /\ begin' = begin /\ cut' = cut /\ rest' = rest
    BY <1>2 DEF ParseStep, fixed
  <1>4. PICK i \in Nat, k \in Nat : Halfway(requests, begin, Parsed, context, i, k)
    BY <1>2, AtHeaders
  <1>5. PICK p : p = Parsed
    OBVIOUS
  <1>6. /\ p \in Nat /\ Len(inputBuffer) \in Nat /\ Received = p + Len(inputBuffer)
        /\ Window(Stream(requests), p, inputBuffer, rest) /\ IsClient(requests)
    BY <1>1, <1>5, TextFacts
  <1>7. /\ i \in 1..Len(requests) /\ k \in 0..Len(requests[i].headers)
        /\ begin = EndOf(requests, i - 1) /\ p = Pos(requests, i, k + 1)
        /\ WellFormed(requests[i])
        /\ context = [state |-> "kExpectHeaders", ok |-> TRUE,
                      request |-> MeaningUpto(requests[i], k)]
    BY <1>4, <1>5 DEF Halfway
  <1>8. PICK r : r = requests[i] /\ IsRequest(r)
    BY <1>6, <1>7 DEF IsClient
  <1>9. /\ k + 1 \in 0..(LineCount(r) - 1) /\ (k + 1) + 1 = k + 2
        /\ k + 1 \in 1..(LineCount(r) - 1) /\ k = Len(r.headers) => k + 2 = LineCount(r)
    BY <1>7, <1>8, HeaderLineNo
  <1>10. PICK k1 : k1 = k + 1 /\ IsLineNo(requests, i, k1) /\ k1 + 1 = k + 2
    BY <1>7, <1>8, <1>9 DEF IsLineNo
  <1>11. PICK B : B = BodyOf(r, k + 2)
    OBVIOUS
  <1>12. \/ NotSeen(requests, p, inputBuffer, i, k1)
         \/ Seen(requests, p, inputBuffer, rest, i, k1, B)
    BY <1>6, <1>7, <1>8, <1>10, <1>11, LineSeen
  <1>13. PICK f, line, colon :
            /\ f = findCRLF(inputBuffer) /\ line = Before(inputBuffer, f)
            /\ colon = Find(line, 1, Len(line) + 1, ":")
    OBVIOUS
  <1>14. CASE f = 0
    <2>1. context' = context /\ inputBuffer' = inputBuffer /\ pc' = "parsed"
      BY <1>13, <1>14 DEF ParseHeaders
    <2>2. AtLine(requests, p) /\ p <= p
      BY <1>1, <1>5, <1>6 DEF TextInv
    <2>3. /\ TextInv' /\ AnswerInv' /\ BadRequestHasCause'
          /\ Parsed' = p /\ Received' = Received
      BY <1>2, <1>5, <1>6, <2>1, <2>2, ParseStepKeeps
    <2>4. ContextInv'
      <3>1. ~gotAll(context') /\ context' # NewContext
        BY <1>2, <2>1 DEF gotAll, NewContext
      <3>2. \E j, m \in Nat : Halfway(requests', begin', Parsed', context', j, m)
        BY <1>3, <1>4, <1>5, <2>1, <2>3
      <3> QED
        BY <3>1, <3>2 DEF ContextInv
    <2>5. cut
      <3> SUFFICES ASSUME ~cut PROVE FALSE
        OBVIOUS
      <3>1. Received \in Ends(requests)
        BY <1>1 DEF CutInv
      <3>2. EndOf(requests, i - 1) < p
        BY <1>6, <1>7, <1>8, <1>9, PosInside
      <3>3. EndOf(requests, i - 1) < Received
        <4>1. EndOf(requests, i - 1) \in Nat
          BY <1>6, <1>10, LineNo
        <4> QED
          BY <1>6, <3>2, <4>1
      <3>4. /\ Pos(requests, i, k1 + 1) \in Nat
            /\ Pos(requests, i, k1 + 1) <= Received
        BY <1>6, <1>10, <3>1, <3>3, LineBeforeEnd
      <3>5. ~NotSeen(requests, p, inputBuffer, i, k1)
        BY <1>6, <3>4 DEF NotSeen
      <3> QED
        BY <1>12, <1>13, <1>14, <3>5 DEF Seen
    <2>6. CutInv'
      BY <1>3, <2>5 DEF CutInv
    <2> QED
      BY <2>3, <2>4, <2>6 DEF IInv
  <1>15. CASE f # 0
    <2>1. Seen(requests, p, inputBuffer, rest, i, k1, B)
      BY <1>12, <1>13, <1>15 DEF NotSeen
    <2>2. line = B
      BY <1>13, <2>1 DEF Seen
    <2>3. PICK q : q = Pos(requests, i, k + 2)
      OBVIOUS
    <2>4. inputBuffer' = From(inputBuffer, f + 2)
      BY <1>13, <1>15 DEF ParseHeaders, RetrieveLine
    <2>5. Window(Stream(requests), q, inputBuffer', rest) /\ p < q
      BY <1>10, <1>13, <2>1, <2>3, <2>4 DEF Seen
    <2>6. AtLine(requests, q)
      BY <1>6, <1>10, <2>3, NextAtLine
    <2>7. p <= q
      <3>1. q \in Nat
        BY <2>5, WindowCount
      <3> QED
        BY <1>6, <2>5, <3>1
    <2>8. /\ Len(B) \in Nat /\ colon \in Nat
          /\ colon <= Len(B) =>
               /\ k + 1 \in 0..Len(r.headers)
               /\ addHeader(MeaningUpto(r, k), B, colon) = MeaningUpto(r, k + 1)
          /\ colon > Len(B) => k = Len(r.headers)
      BY <1>7, <1>8, <1>11, <1>13, <2>2, WhichHeader
    <2>9. CASE colon <= Len(B)
      <3>1. ~(colon > Len(B))
        BY <2>8, <2>9
      <3>2. /\ context' = [context EXCEPT !.request = addHeader(@, line, colon)]
            /\ pc' = pc
        BY <1>13, <1>15, <2>2, <3>1 DEF ParseHeaders
      <3>3. context' = [state |-> "kExpectHeaders", ok |-> TRUE,
                        request |-> MeaningUpto(r, k + 1)]
        BY <1>7, <1>8, <2>2, <2>8, <2>9, <3>2
      <3>4. /\ TextInv' /\ AnswerInv' /\ BadRequestHasCause'
            /\ Parsed' = q /\ Received' = Received
        BY <1>2, <1>5, <2>5, <2>6, <2>7, <3>2, ParseStepKeeps
      <3>5. Halfway(requests, begin, q, context', i, k1)
        <4>1. k1 \in 0..Len(requests[i].headers) /\ q = Pos(requests, i, k1 + 1)
          BY <1>8, <1>10, <2>3, <2>8, <2>9
        <4>2. context' = [state |-> "kExpectHeaders", ok |-> TRUE,
                          request |-> MeaningUpto(requests[i], k1)]
          BY <1>8, <1>10, <3>3
        <4>3. context'.ok
          BY <3>3
        <4> QED
          BY <1>7, <4>1, <4>2, <4>3 DEF Halfway
      <3>6. ContextInv'
        <4>1. ~gotAll(context') /\ context' # NewContext
          BY <3>3 DEF gotAll, NewContext
        <4>2. k1 \in Nat
          BY <1>10
        <4>3. \E j, m \in Nat : Halfway(requests', begin', Parsed', context', j, m)
          BY <1>3, <3>4, <3>5, <4>2
        <4> QED
          BY <4>1, <4>3 DEF ContextInv
      <3>7. CutInv'
        BY <1>1, <1>2, <1>3, <3>2, <3>4 DEF CutInv
      <3> QED
        BY <3>4, <3>6, <3>7 DEF IInv
    <2>10. CASE ~(colon <= Len(B))
      <3>1. colon > Len(B)
        BY <2>8, <2>10
      <3>2. context' = [context EXCEPT !.state = "kGotAll"]
        <4>1. context' = EndOfHeaders
          BY <1>13, <1>15, <2>2, <2>10 DEF ParseHeaders
        <4> QED
          BY <4>1 DEF EndOfHeaders
      <3>3. k = Len(r.headers)
        BY <2>8, <3>1
      <3>4. context' = [state |-> "kGotAll", ok |-> TRUE, request |-> Meaning(r)]
        <4>1. MeaningUpto(r, k) = Meaning(r)
          BY <3>3 DEF MeaningUpto, Meaning
        <4> QED
          BY <1>7, <1>8, <3>2, <4>1
      <3>5. gotAll(context')
        BY <3>4 DEF gotAll
      <3>6. pc' = "parsed"
        BY <1>13, <1>15, <2>2, <2>10, <3>5 DEF ParseHeaders
      <3>7. /\ TextInv' /\ AnswerInv' /\ BadRequestHasCause'
            /\ Parsed' = q /\ Received' = Received
        BY <1>2, <1>5, <2>5, <2>6, <2>7, <3>6, ParseStepKeeps
      <3>8. Complete(requests, begin, q, context', i)
        <4>1. q = EndOf(requests, i)
          BY <1>6, <1>7, <1>8, <1>9, <2>3, <3>3, PosEnds
        <4> QED
          BY <1>7, <1>8, <3>4, <4>1 DEF Complete
      <3>9. ContextInv'
        <4>1. context' # NewContext
          BY <3>4 DEF NewContext
        <4>2. \E j \in Nat : Complete(requests', begin', Parsed', context', j)
          BY <1>3, <3>7, <3>8
        <4> QED
          BY <3>6, <4>1, <4>2 DEF ContextInv
      <3>10. CutInv'
        BY <1>1, <1>3, <3>5, <3>6, <3>7 DEF CutInv
      <3> QED
        BY <3>7, <3>9, <3>10 DEF IInv
    <2> QED
      BY <2>9, <2>10
  <1> QED
    BY <1>14, <1>15

(* Every answer of a callback is another one than 400. *)
LEMMA NotBadRequest ==
    ASSUME httpCallback \in Callbacks, NEW req
    PROVE  /\ appendToBuffer(ResponseTo(req)) # BadRequest
           /\ ~ResponseTo(req).close =>
                appendToBuffer(ResponseTo(req)).connection = "Keep-Alive"
  <1>1. PICK resp : resp = ResponseTo(req)
    OBVIOUS
  <1>2. resp.status # "400"
    <2>1. httpCallback \in {"defaultHttpCallback", "onRequest", "keepAlive"}
      BY HttpServerAssumptions
    <2>2. CASE httpCallback = "defaultHttpCallback"
      BY <1>1, <2>2 DEF ResponseTo, Respond, defaultHttpCallback, setStatus, HttpResponse
    <2>3. CASE httpCallback = "onRequest"
      <3>1. resp = onRequestDemo(req, HttpResponse(TRUE))
        BY <1>1, <2>3 DEF ResponseTo, Respond
      <3>2. resp.status \in {"200", "404"}
        BY <3>1 DEF onRequestDemo, setBody, setStatus, addResponseHeader, HttpResponse
      <3> QED
        BY <3>2
    <2>4. CASE httpCallback = "keepAlive"
      <3>1. resp = keepAlive(req, HttpResponse(TRUE))
        BY <1>1, <2>4 DEF ResponseTo, Respond
      <3>2. resp.status = "200"
        BY <3>1 DEF keepAlive, setBody, setStatus, addResponseHeader, HttpResponse
      <3> QED
        BY <3>2
    <2> QED
      BY <2>1, <2>2, <2>3, <2>4
  <1>3. /\ appendToBuffer(resp).status = resp.status
        /\ ~resp.close => appendToBuffer(resp).connection = "Keep-Alive"
    BY DEF appendToBuffer
  <1>4. BadRequest.status = "400"
    BY DEF BadRequest
  <1> QED
    BY <1>1, <1>2, <1>3, <1>4

(* One more answer. *)
LEMMA Appended ==
    ASSUME NEW X, NEW s \in Seq(X), NEW e, NEW t, t = Append(s, e)
    PROVE  /\ t \in Seq(X \cup {e}) /\ Len(t) = Len(s) + 1 /\ Len(s) \in Nat
           /\ \A i \in 1..Len(s) : t[i] = s[i]
           /\ t[Len(s) + 1] = e
           /\ DOMAIN t = 1..(Len(s) + 1) /\ DOMAIN s = 1..Len(s)
  <1>1. s \in Seq(X \cup {e}) /\ e \in X \cup {e}
    OBVIOUS
  <1> QED
    BY <1>1

(* Why this answer: it is the one to request i, and the parse has come to  *)
(* the end of that request if the connection stays.                        *)
Due(client, b, p, a, close) ==
    \E i \in 1..Len(client) :
        /\ b = EndOf(client, i - 1) /\ a = Answer(client[i])
        /\ ~close => p = EndOf(client, i)

(* The answer that is due joins the answers. *)
LEMMA SendKeeps ==
    ASSUME IInv, pc = "parsed", pc' = "idle", NEW a, NEW close,
           SendAndShutdown(a, close),
           UNCHANGED <<fixed, rest, inputBuffer, begin, cut>>,
           ~close => a.connection = "Keep-Alive",
           ~cut => Due(requests, begin, Parsed, a, close),
           a = BadRequest => cut \/ \E i \in DOMAIN requests : ~WellFormed(requests[i])
    PROVE  AnswerInv' /\ BadRequestHasCause'
  <1>1. TextInv /\ AnswerInv /\ BadRequestHasCause
    BY DEF IInv
  <1>2. /\ requests' = requests /\ httpCallback' = httpCallback /\ begin' = begin
        /\ cut' = cut /\ rest' = rest /\ inputBuffer' = inputBuffer
    BY DEF fixed
  <1>3. \A r : Answer(r)' = Answer(r)
    BY <1>2 DEF Answer, ResponseTo, Respond
  <1>4. Parsed' = Parsed
    BY <1>2 DEF Parsed, Received
  <1>5. CASE connState # "kConnected"
    <2>1. sent' = sent /\ connState' = connState
      BY <1>5 DEF SendAndShutdown
    <2>2. AnswerInv'
      BY <1>1, <1>2, <1>3, <1>5, <2>1 DEF AnswerInv
    <2>3. BadRequestHasCause'
      BY <1>1, <1>2, <2>1 DEF BadRequestHasCause
    <2> QED
      BY <2>2, <2>3
  <1>6. CASE connState = "kConnected"
    <2>1. /\ sent' = Append(sent, a)
          /\ connState' = "kConnected" => ~close
      BY <1>6 DEF SendAndShutdown
    <2>2. PICK X : sent \in Seq(X)
      BY <1>1 DEF AnswerInv
    <2>3. PICK n \in Nat : n = Len(sent)
      BY <2>2
    <2>4. /\ sent' \in Seq(X \cup {a}) /\ Len(sent') = n + 1
          /\ \A i \in 1..n : sent'[i] = sent[i]
          /\ sent'[n + 1] = a
          /\ DOMAIN sent' = 1..(n + 1) /\ DOMAIN sent = 1..n
      BY <2>1, <2>2, <2>3, Appended
    <2>5. \A i \in 1..n : sent[i].connection = "Keep-Alive"
      BY <1>1, <1>6, <2>3 DEF AnswerInv
    <2>6. \A i \in 1..(n + 1) : i \in 1..n \/ i = n + 1
      OBVIOUS
    <2>7. \A i \in 1..((n + 1) - 1) : sent'[i].connection = "Keep-Alive"
      BY <2>4, <2>5
    <2>8. connState' = "kConnected" =>
            \A i \in 1..(n + 1) : sent'[i].connection = "Keep-Alive"
      BY <2>1, <2>4, <2>5, <2>6
    <2>9. ASSUME ~cut
          PROVE  /\ n + 1 <= Len(requests)
                 /\ \A i \in 1..(n + 1) : sent'[i] = Answer(requests[i])
                 /\ connState' = "kConnected" => EndOf(requests, n + 1) = Parsed
      <3>1. PICK i \in 1..Len(requests) :
                /\ begin = EndOf(requests, i - 1) /\ a = Answer(requests[i])
                /\ ~close => Parsed = EndOf(requests, i)
        BY <2>9 DEF Due
      <3>2. IsClient(requests)
        BY <1>1, TextFacts
      <3>3. PICK m \in Nat : m = Len(requests)
        BY <3>2, StreamIs
      <3>4. /\ n <= m /\ EndOf(requests, n) = begin
            /\ \A j \in 1..n : sent[j] = Answer(requests[j])
        BY <1>1, <1>6, <2>3, <2>9, <3>3 DEF AnswerInv
      <3>5. n \in 0..m /\ i - 1 \in 0..m
        BY <3>3, <3>4
      <3>6. n = i - 1
        BY <3>1, <3>2, <3>3, <3>4, <3>5, EndUnique
      <3>7. i = n + 1 /\ n + 1 <= m
        BY <3>3, <3>6
      <3> QED
        BY <2>1, <2>4, <2>6, <3>1, <3>3, <3>4, <3>7
    <2>10. AnswerInv'
      BY <1>2, <1>3, <1>4, <2>4, <2>7, <2>8, <2>9 DEF AnswerInv
    <2>11. BadRequestHasCause'
      <3> SUFFICES ASSUME ~cut, \A i \in DOMAIN requests : WellFormed(requests[i]),
                          NEW i \in 1..(n + 1), sent'[i] = BadRequest
                   PROVE  FALSE
        BY <1>2, <2>4 DEF BadRequestHasCause
      <3>1. a # BadRequest
        OBVIOUS
      <3>2. i \in 1..n /\ sent[i] = BadRequest
        BY <2>4, <2>6, <3>1
      <3> QED
        BY <1>1, <2>4, <3>2 DEF BadRequestHasCause
    <2> QED
      BY <2>10, <2>11
  <1> QED
    BY <1>5, <1>6

(* The end of onMessage answers what was parsed, or drops it. *)
LEMMA OnMessageEndsKeeps ==
    ASSUME IInv, OnMessageEnds
    PROVE  IInv'
  <1>1. TextInv /\ ContextInv /\ CutInv /\ AnswerInv /\ BadRequestHasCause
    BY DEF IInv
  <1>2. /\ pc = "parsed" /\ pc' = "idle" /\ context' = context /\ begin' = begin
        /\ requests' = requests /\ httpCallback' = httpCallback /\ rest' = rest
        /\ inputBuffer' = inputBuffer /\ cut' = cut
    BY DEF OnMessageEnds, fixed
  <1>3. UNCHANGED <<fixed, rest, inputBuffer, begin, cut>>
    BY <1>2 DEF fixed
  <1>4. Parsed' = Parsed /\ Received' = Received
    BY <1>2 DEF Parsed, Received
  <1>5. IsClient(requests) /\ httpCallback \in Callbacks
    BY <1>1, TextFacts DEF TextInv
  <1>6. Len(requests) \in Nat /\ DOMAIN requests = 1..Len(requests)
    BY <1>5 DEF IsClient
  <1>7. connState' \in {"kConnected", "kDisconnecting", "kDisconnected"}
    BY <1>1 DEF TextInv, OnMessageEnds, SendAndShutdown
  <1>8. TextInv'
    BY <1>1, <1>2, <1>4, <1>7 DEF TextInv
  <1>9. ContextInv'
    BY <1>1, <1>2, <1>4 DEF ContextInv
  <1>10. CASE context = NewContext
    <2>1. begin = Parsed /\ ~context.ok
      BY <1>1, <1>2, <1>10, NewContextIs DEF ContextInv
    <2>2. ~cut => Rejected(requests, begin)
      BY <1>1, <1>2, <1>10, NewContextIs DEF CutInv
    <2>3. SendAndShutdown(BadRequest, TRUE)
      BY <2>1 DEF OnMessageEnds
    <2>4. ~cut => Due(requests, begin, Parsed, BadRequest, TRUE)
      BY <2>2 DEF Rejected, Due, Answer
    <2>5. cut \/ \E i \in DOMAIN requests : ~WellFormed(requests[i])
      BY <1>6, <2>2 DEF Rejected
    <2>6. AnswerInv' /\ BadRequestHasCause'
      BY <1>2, <1>3, <2>3, <2>4, <2>5, SendKeeps
    <2>7. CutInv'
      BY <1>1, <1>2, <1>4, <2>1 DEF CutInv
    <2> QED
      BY <1>8, <1>9, <2>6, <2>7 DEF IInv
  <1>11. ASSUME NEW i \in Nat, NEW k \in Nat,
                Halfway(requests, begin, Parsed, context, i, k)
         PROVE  IInv'
    <2>1. /\ i \in 1..Len(requests) /\ begin = EndOf(requests, i - 1)
          /\ WellFormed(requests[i]) /\ context.ok /\ ~gotAll(context)
      BY <1>11 DEF Halfway, gotAll
    <2>2. cut
      <3> SUFFICES ASSUME ~cut PROVE FALSE
        OBVIOUS
      <3>1. PICK j \in 1..Len(requests) :
                begin = EndOf(requests, j - 1) /\ ~WellFormed(requests[j])
        BY <1>1, <1>2, <2>1 DEF CutInv, Rejected
      <3>2. i - 1 \in 0..Len(requests) /\ j - 1 \in 0..Len(requests)
        BY <1>6, <2>1
      <3>3. i - 1 = j - 1
        BY <1>5, <2>1, <3>1, <3>2, EndUnique
      <3>4. i = j
        BY <1>6, <3>3
      <3> QED
        BY <2>1, <3>1, <3>4
    <2>3. sent' = sent /\ connState' = connState
      BY <2>1 DEF OnMessageEnds
    <2>4. \A r : Answer(r)' = Answer(r)
      BY <1>2 DEF Answer, ResponseTo, Respond
    <2>5. AnswerInv'
      BY <1>1, <1>2, <2>2, <2>3 DEF AnswerInv
    <2>6. BadRequestHasCause' /\ CutInv'
      BY <1>2, <2>2 DEF BadRequestHasCause, CutInv
    <2> QED
      BY <1>8, <1>9, <2>5, <2>6 DEF IInv
  <1>12. ASSUME NEW i \in Nat, Complete(requests, begin, Parsed, context, i)
         PROVE  IInv'
    <2>1. /\ i \in 1..Len(requests) /\ begin = EndOf(requests, i - 1)
          /\ Parsed = EndOf(requests, i) /\ WellFormed(requests[i])
          /\ context.ok /\ gotAll(context)
          /\ context.request = Meaning(requests[i])
      BY <1>12 DEF Complete, gotAll
    <2>2. PICK resp : resp = ResponseTo(context.request)
      OBVIOUS
    <2>3. SendAndShutdown(appendToBuffer(resp), resp.close)
      BY <2>1, <2>2 DEF OnMessageEnds
    <2>4. appendToBuffer(resp) = Answer(requests[i])
      BY <2>1, <2>2 DEF Answer
    <2>5. /\ appendToBuffer(resp) # BadRequest
          /\ ~resp.close => appendToBuffer(resp).connection = "Keep-Alive"
      BY <1>5, <2>2, NotBadRequest
    <2>6. Due(requests, begin, Parsed, appendToBuffer(resp), resp.close)
      BY <2>1, <2>4 DEF Due
    <2>7. AnswerInv' /\ BadRequestHasCause'
      BY <1>2, <1>3, <2>3, <2>5, <2>6, SendKeeps
    <2>8. Parsed \in Ends(requests)
      BY <1>6, <2>1 DEF Ends
    <2>9. CutInv'
      BY <1>1, <1>2, <1>4, <2>8 DEF CutInv
    <2> QED
      BY <1>8, <1>9, <2>7, <2>9 DEF IInv
  <1> QED
    BY <1>1, <1>10, <1>11, <1>12 DEF ContextInv

(* Every step keeps the invariant. *)
LEMMA IInvNext ==
    ASSUME IInv, [Next]_vars
    PROVE  IInv'
  <1>1. CASE ParseRequestLine
    BY <1>1, ParseRequestLineKeeps
  <1>2. CASE ParseHeaders
    BY <1>2, ParseHeadersKeeps
  <1>3. CASE OnMessageEnds
    BY <1>3, OnMessageEndsKeeps
  <1>4. CASE PeerCloses
    BY <1>4, PeerClosesKeeps
  <1>5. ASSUME NEW n \in 1..Len(rest), Read(n)
        PROVE  IInv'
    BY <1>5, ReadKeeps
  <1>6. CASE UNCHANGED vars
    <2>1. /\ requests' = requests /\ httpCallback' = httpCallback /\ rest' = rest
          /\ inputBuffer' = inputBuffer /\ connState' = connState /\ pc' = pc
          /\ context' = context /\ begin' = begin /\ cut' = cut /\ sent' = sent
      BY <1>6 DEF vars
    <2>2. Parsed' = Parsed /\ Received' = Received
      BY <2>1 DEF Parsed, Received
    <2>3. \A r : Answer(r)' = Answer(r)
      BY <2>1 DEF Answer, ResponseTo, Respond
    <2>4. TextInv' /\ ContextInv'
      BY <2>1, <2>2 DEF IInv, TextInv, ContextInv
    <2>5. CutInv' /\ BadRequestHasCause'
      BY <2>1, <2>2 DEF IInv, CutInv, BadRequestHasCause
    <2>6. AnswerInv'
      BY <2>1, <2>2, <2>3 DEF IInv, AnswerInv
    <2> QED
      BY <2>4, <2>5, <2>6 DEF IInv
  <1> QED
    BY <1>1, <1>2, <1>3, <1>4, <1>5, <1>6 DEF Next, LoopThread

(* So it always holds. *)
LEMMA Invariance == Spec => []IInv
  <1>1. Init => IInv
    BY IInvInit
  <1>2. IInv /\ [Next]_vars => IInv'
    BY IInvNext
  <1> QED
    BY <1>1, <1>2, PTL DEF Spec

-----------------------------------------------------------------------------
(* The results.                                                            *)

(* What is in the window is the text from its place on. *)
LEMMA WindowJoined ==
    ASSUME NEW text, NEW T, text \in Seq(T), NEW p, NEW buf, NEW rem,
           Window(text, p, buf, rem)
    PROVE  buf \o rem = From(text, p + 1)
  <1>1. PICK n \in Nat, m \in Nat, t \in Nat :
            n = Len(buf) /\ m = Len(rem) /\ t = Len(text)
    BY WindowCount
  <1>2. /\ buf \in Seq(Tokens) /\ rem \in Seq(Tokens) /\ p \in Nat
        /\ p + n + m = t
        /\ \A j \in 1..n : buf[j] = text[p + j]
        /\ \A j \in 1..m : rem[j] = text[p + n + j]
    BY <1>1 DEF Window
  <1>3. PICK u : u = buf \o rem
    OBVIOUS
  <1>4. u \in Seq(Tokens) /\ IsConcat(u, n, buf, m, rem)
    BY <1>1, <1>2, <1>3, ConcatAt
  <1>5. /\ Len(u) = n + m /\ \A j \in 1..n : u[j] = buf[j]
        /\ \A j \in 1..m : u[n + j] = rem[j]
    BY <1>4 DEF IsConcat
  <1>6. \A j \in 1..(n + m) : text[p + j] = u[j]
    <2> SUFFICES ASSUME NEW j \in 1..(n + m) PROVE text[p + j] = u[j]
      OBVIOUS
    <2>1. CASE j \in 1..n
      BY <1>2, <1>5, <2>1
    <2>2. CASE j \notin 1..n
      <3>1. PICK d \in 1..m : n + d = j /\ p + n + d = p + j
        <4>1. j - n \in 1..m /\ n + (j - n) = j /\ p + n + (j - n) = p + j
          BY <1>2, <2>2
        <4> QED
          BY <4>1
      <3>2. u[n + d] = rem[d] /\ rem[d] = text[p + n + d]
        BY <1>2, <1>5
      <3> QED
        BY <3>1, <3>2
    <2> QED
      BY <2>1, <2>2
  <1>7. PICK a \in Int, l \in Nat : a = p + 1 /\ l = n + m
    BY <1>2
  <1>8. a >= 1 /\ t - a + 1 = l /\ a - 1 = p /\ t \in Int
    BY <1>2, <1>7
  <1>9. \A j \in 1..l : text[a - 1 + j] = u[j]
    BY <1>6, <1>7, <1>8
  <1>10. l = Len(u) /\ t <= Len(text)
    BY <1>1, <1>5, <1>7
  <1>11. SubSeq(text, a, t) = u
    BY <1>4, <1>8, <1>9, <1>10, SubSeqIs
  <1> QED
    BY <1>1, <1>3, <1>7, <1>11 DEF From

(* The parser never loses its place: what is buffered and what is still to *)
(* be read are the client's text from the parsed place on, and the context *)
(* is in a state that parseRequest has a step for.                         *)
THEOREM TypeCorrect == Spec => []TypeOK
  <1>1. IInv => TypeOK
    <2> SUFFICES ASSUME IInv PROVE TypeOK
      OBVIOUS
    <2>1. TextInv /\ ContextInv
      BY DEF IInv
    <2>2. IsClient(requests) /\ Window(Stream(requests), Parsed, inputBuffer, rest)
      BY <2>1, TextFacts
    <2>3. Stream(requests) \in Seq(Tokens)
      BY <2>2, StreamIs
    <2>4. inputBuffer \o rest = From(Stream(requests), Parsed + 1)
      BY <2>2, <2>3, WindowJoined
    <2>5. context.state \in {"kExpectRequestLine", "kExpectHeaders", "kGotAll"}
      BY <2>1 DEF ContextInv, NewContext, Halfway, Complete
    <2> QED
      BY <2>1, <2>4, <2>5 DEF TextInv, TypeOK
  <1> QED
    BY <1>1, Invariance, PTL

(* Whatever requests clients write and however reads cut them, onMessage   *)
(* hands a request to the callback only as one that the client wrote, from *)
(* its first line to its last, with its method, target, version and        *)
(* headers.                                                                *)
THEOREM RequestsParsedAsWritten == Spec => []ParsedIsWritten
  <1>1. IInv => ParsedIsWritten
    <2> SUFFICES ASSUME IInv, pc = "parsed", gotAll(context) PROVE ParsedIsWritten
      BY DEF ParsedIsWritten
    <2>1. TextInv /\ ContextInv
      BY DEF IInv
    <2>2. IsClient(requests)
      BY <2>1, TextFacts
    <2>3. DOMAIN requests = 1..Len(requests)
      BY <2>2 DEF IsClient
    <2>4. \A i, k \in Nat : ~Halfway(requests, begin, Parsed, context, i, k)
      BY DEF Halfway, gotAll
    <2>5. PICK i \in Nat : Complete(requests, begin, Parsed, context, i)
      BY <2>1, <2>4, NewContextIs DEF ContextInv
    <2>6. /\ i \in DOMAIN requests
          /\ begin = EndOf(requests, i - 1) /\ Parsed = EndOf(requests, i)
          /\ WellFormed(requests[i]) /\ context.request = Meaning(requests[i])
      BY <2>3, <2>5 DEF Complete
    <2> QED
      BY <2>6 DEF ParsedIsWritten
  <1> QED
    BY <1>1, Invariance, PTL

(* As long as no read has ended inside a request, the responses are the    *)
(* ones to the client's requests in their order, and in any case none      *)
(* follows one that closes the connection.                                 *)
THEOREM AnswersInOrder == Spec => []ResponsesInOrder
  <1>1. IInv => ResponsesInOrder
    <2> SUFFICES ASSUME IInv PROVE ResponsesInOrder
      OBVIOUS
    <2>1. TextInv /\ AnswerInv
      BY DEF IInv
    <2>2. IsClient(requests)
      BY <2>1, TextFacts
    <2>3. PICK m \in Nat : m = Len(requests) /\ DOMAIN requests = 1..m
      BY <2>2 DEF IsClient
    <2>4. PICK X : sent \in Seq(X)
      BY <2>1 DEF AnswerInv
    <2>5. PICK n \in Nat : n = Len(sent)
      BY <2>4
    <2>6. ASSUME ~cut
          PROVE  IsPrefix(sent, [i \in DOMAIN requests |-> Answer(requests[i])])
      <3>1. n <= m /\ \A i \in 1..n : sent[i] = Answer(requests[i])
        BY <2>1, <2>3, <2>5, <2>6 DEF AnswerInv
      <3> DEFINE A == [i \in 1..m |-> Answer(requests[i])]
      <3>2. A \in Seq({Answer(requests[i]) : i \in 1..m}) /\ Len(A) = m
        OBVIOUS
      <3>3. \A i \in 1..n : sent[i] = A[i]
        BY <3>1
      <3> HIDE DEF A
      <3>4. IsPrefix(sent, A)
        <4>1. 1 \in Int /\ n - 1 + 1 = n /\ \A j \in 1..n : 1 - 1 + j = j
          OBVIOUS
        <4>2. \A j \in 1..n : A[1 - 1 + j] = sent[j]
          BY <3>3, <4>1
        <4>3. SubSeq(A, 1, n) = sent
          BY <2>4, <2>5, <3>1, <3>2, <4>1, <4>2, SubSeqIs
        <4>4. SubSeq(sent, 1, n) = sent
          BY <2>4, <2>5
        <4> QED
          BY <2>5, <3>1, <3>2, <4>3, <4>4 DEF IsPrefix
      <3> QED
        BY <2>3, <3>4 DEF A
    <2>7. \A i \in 1..(Len(sent) - 1) : sent[i].connection = "Keep-Alive"
      BY <2>1 DEF AnswerInv
    <2> QED
      BY <2>6, <2>7 DEF ResponsesInOrder
  <1> QED
    BY <1>1, Invariance, PTL

(* 400 goes only to a client one of whose requests is not HTTP, or was cut *)
(* by a read.                                                              *)
THEOREM BadRequestCaused == Spec => []BadRequestHasCause
  <1>1. IInv => BadRequestHasCause
    BY DEF IInv
  <1> QED
    BY <1>1, Invariance, PTL

=============================================================================
