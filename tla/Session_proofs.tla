---------------------------- MODULE Session_proofs ----------------------------
(***************************************************************************)
(* The place of a datagram in the queues of Exchange says what it can be,  *)
(* for any number of runs and calls.  The lemmas on the steps of Exchange  *)
(* speak of one step, so that Quadrocopt_proofs can use them too.          *)
(***************************************************************************)
EXTENDS Session, SequenceTheorems, TLAPS

-----------------------------------------------------------------------------
(* Queues.                                                                 *)

\* What SequencesExt's Front and RemoveAt leave of a sequence.
LEMMA FrontElements ==
  ASSUME NEW T, NEW s \in Seq(T), s # <<>>
  PROVE  /\ Front(s) \in Seq(T)
         /\ Len(Front(s)) = Len(s) - 1
         /\ \A j \in 1 .. Len(s) - 1 : Front(s)[j] = s[j]
<1>1. Len(s) \in Nat \ {0} /\ Len(s) - 1 \in Nat /\ Front(s) = SubSeq(s, 1, Len(s) - 1)
  BY DEF Front
<1> DEFINE n == Len(s) - 1
<1>2. n \in Nat /\ n <= Len(s)
  BY <1>1
<1>3. SubSeq(s, 1, n) \in Seq(T) /\ Len(SubSeq(s, 1, n)) = n
      /\ \A j \in 1 .. n : SubSeq(s, 1, n)[j] = s[j]
  <2> HIDE DEF n
  <2> QED
    BY <1>2
<1> QED
  BY <1>1, <1>3

LEMMA RemoveElements ==
  ASSUME NEW T, NEW s \in Seq(T), NEW i \in DOMAIN s
  PROVE  /\ RemoveAt(s, i) \in Seq(T)
         /\ Len(RemoveAt(s, i)) = Len(s) - 1
         /\ \A j \in 1 .. Len(s) - 1 : RemoveAt(s, i)[j] = IF j < i THEN s[j] ELSE s[j + 1]
<1>1. i \in 1 .. Len(s)
  OBVIOUS
<1> DEFINE a == SubSeq(s, 1, i - 1)
           b == SubSeq(s, i + 1, Len(s))
<1>2. a \in Seq(T) /\ Len(a) = i - 1 /\ \A j \in 1 .. i - 1 : a[j] = s[j]
  BY <1>1
<1>3. b \in Seq(T) /\ Len(b) = Len(s) - i /\ \A j \in 1 .. Len(s) - i : b[j] = s[j + i]
  BY <1>1
<1>4. RemoveAt(s, i) = a \o b
  BY DEF RemoveAt
<1> HIDE DEF a, b
<1>5. /\ a \o b \in Seq(T) /\ Len(a \o b) = Len(a) + Len(b)
      /\ \A j \in 1 .. Len(a) + Len(b) : (a \o b)[j] = IF j <= Len(a) THEN a[j] ELSE b[j - Len(a)]
  BY <1>2, <1>3
<1>6. Len(a) + Len(b) = Len(s) - 1
  BY <1>1, <1>2, <1>3
<1>7. ASSUME NEW j \in 1 .. Len(s) - 1
      PROVE  (a \o b)[j] = IF j < i THEN s[j] ELSE s[j + 1]
  <2>1. CASE j < i
    BY <1>1, <1>2, <1>5, <1>6, <2>1
  <2>2. CASE ~(j < i)
    <3>1. j - (i - 1) \in 1 .. Len(s) - i /\ ~(j <= i - 1) /\ j - (i - 1) + i = j + 1
      BY <1>1, <2>2
    <3> QED
      BY <1>2, <1>3, <1>5, <1>6, <2>2, <3>1
  <2> QED
    BY <2>1, <2>2
<1> QED
  BY <1>4, <1>5, <1>6, <1>7

\* What may stand in a place may also stand in an earlier one.
Later(of, of2) == \A m, n \in Int : m <= n => of[n] \subseteq of2[m]

LEMMA LaterOf ==
  ASSUME request \in Int, request' \in Int, request <= request'
  PROVE  Later(HalfOf, HalfOf') /\ Later(PairOf, PairOf')
<1>1. Later(HalfOf, HalfOf')
  BY DEF Later, HalfOf
<1>2. ASSUME NEW m \in Int, NEW n \in Int, m <= n
      PROVE  PairOf[n] \subseteq PairOf'[m]
  <2>1. n .. request \subseteq m .. request'
    BY <1>2
  <2>2. PairOf[n] = [Listeners -> n .. request] /\ PairOf'[m] = [Listeners -> m .. request']
    BY DEF PairOf
  <2> QED
    BY <2>1, <2>2
<1> QED
  BY <1>1, <1>2 DEF Later

LEMMA RankedSame ==
  ASSUME NEW T, NEW q \in Seq(T), NEW b \in Int, NEW c \in Int, NEW of, NEW of2,
         Later(of, of2), Ranked(q, b, of), c <= b
  PROVE  Ranked(q, c, of2)
<1> SUFFICES ASSUME NEW i \in DOMAIN q
             PROVE  q[i] \in of2[c + i]
  BY DEF Ranked
<1>1. i \in Int /\ c + i <= b + i /\ c + i \in Int /\ b + i \in Int
  OBVIOUS
<1> QED
  BY <1>1 DEF Ranked, Later

LEMMA RankedTail ==
  ASSUME NEW T, NEW q \in Seq(T), NEW b \in Int, NEW c \in Int, NEW of, NEW of2,
         Later(of, of2), Ranked(q, b, of), q # <<>>, c <= b + 1
  PROVE  Ranked(Tail(q), c, of2) /\ Head(q) \in of2[b + 1]
<1>1. Len(Tail(q)) = Len(q) - 1 /\ Len(q) \in Nat \ {0} /\ Head(q) = q[1]
      /\ \A i \in 1 .. Len(q) - 1 : Tail(q)[i] = q[i + 1]
  OBVIOUS
<1>2. ASSUME NEW i \in DOMAIN Tail(q)
      PROVE  Tail(q)[i] \in of2[c + i]
  <2>1. i \in Nat /\ Tail(q)[i] = q[i + 1] /\ i + 1 \in DOMAIN q
    BY <1>1
  <2>2. q[i + 1] \in of[b + (i + 1)]
    BY <2>1 DEF Ranked
  <2>3. c + i <= b + (i + 1) /\ c + i \in Int /\ b + (i + 1) \in Int
    BY <2>1
  <2> QED
    BY <2>1, <2>2, <2>3 DEF Later
<1>3. Head(q) \in of2[b + 1]
  BY <1>1 DEF Ranked, Later
<1> QED
  BY <1>2, <1>3 DEF Ranked

LEMMA RankedAppend ==
  ASSUME NEW T, NEW q \in Seq(T), NEW b \in Int, NEW c \in Int, NEW of, NEW of2,
         Later(of, of2), Ranked(q, b, of), c <= b,
         NEW x \in T, NEW n \in Int, x \in of[n], c + Len(q) + 1 <= n
  PROVE  Ranked(Append(q, x), c, of2)
<1> SUFFICES ASSUME NEW i \in DOMAIN Append(q, x)
             PROVE  Append(q, x)[i] \in of2[c + i]
  BY DEF Ranked
<1>1. Len(q) \in Nat /\ i \in 1 .. Len(q) + 1
  OBVIOUS
<1>2. CASE i = Len(q) + 1
  <2>1. Append(q, x)[i] = x /\ c + i <= n /\ c + i \in Int
    BY <1>2
  <2> QED
    BY <2>1 DEF Later
<1>3. CASE i # Len(q) + 1
  <2>1. i \in DOMAIN q /\ Append(q, x)[i] = q[i] /\ c + i <= b + i /\ c + i \in Int
        /\ b + i \in Int
    BY <1>1, <1>3
  <2> QED
    BY <2>1 DEF Later, Ranked
<1> QED
  BY <1>2, <1>3

LEMMA RankedFront ==
  ASSUME NEW T, NEW q \in Seq(T), NEW b \in Int, NEW c \in Int, NEW of, NEW of2,
         Later(of, of2), Ranked(q, b, of), q # <<>>, c <= b
  PROVE  Ranked(Front(q), c, of2)
<1> SUFFICES ASSUME NEW i \in DOMAIN Front(q)
             PROVE  Front(q)[i] \in of2[c + i]
  BY DEF Ranked
<1>1. i \in 1 .. Len(q) - 1 /\ Front(q)[i] = q[i]
  BY FrontElements
<1>2. i \in DOMAIN q /\ c + i <= b + i /\ c + i \in Int /\ b + i \in Int
  BY <1>1
<1> QED
  BY <1>1, <1>2 DEF Later, Ranked

LEMMA RankedRemove ==
  ASSUME NEW T, NEW q \in Seq(T), NEW b \in Int, NEW c \in Int, NEW of, NEW of2,
         Later(of, of2), Ranked(q, b, of), c <= b, NEW i \in DOMAIN q
  PROVE  Ranked(RemoveAt(q, i), c, of2)
<1> SUFFICES ASSUME NEW j \in DOMAIN RemoveAt(q, i)
             PROVE  RemoveAt(q, i)[j] \in of2[c + j]
  BY DEF Ranked
<1>1. /\ j \in 1 .. Len(q) - 1 /\ i \in 1 .. Len(q) /\ Len(q) \in Nat
      /\ RemoveAt(q, i)[j] = IF j < i THEN q[j] ELSE q[j + 1]
  <2>1. RemoveAt(q, i) \in Seq(T) /\ Len(RemoveAt(q, i)) = Len(q) - 1
    BY RemoveElements
  <2>2. j \in 1 .. Len(q) - 1
    BY <2>1
  <2>3. \A k \in 1 .. Len(q) - 1 : RemoveAt(q, i)[k] = IF k < i THEN q[k] ELSE q[k + 1]
    BY RemoveElements
  <2>4. i \in 1 .. Len(q) /\ Len(q) \in Nat
    OBVIOUS
  <2> QED
    BY <2>2, <2>3, <2>4
<1>2. CASE j < i
  <2>1. j \in DOMAIN q /\ c + j <= b + j /\ c + j \in Int /\ b + j \in Int
    BY <1>1
  <2> QED
    BY <1>1, <1>2, <2>1 DEF Later, Ranked
<1>3. CASE ~(j < i)
  <2>1. j + 1 \in DOMAIN q /\ c + j <= b + (j + 1) /\ c + j \in Int /\ b + (j + 1) \in Int
    BY <1>1
  <2> QED
    BY <1>1, <1>3, <2>1 DEF Later, Ranked
<1> QED
  BY <1>2, <1>3

-----------------------------------------------------------------------------
(* Exchange: the types.                                                    *)

LEMMA ExchangeTypeInit ==
  ASSUME Init
  PROVE  TypeOK
<1> USE DEF Init, ServerInit, ClientInit
<1>1. inbox \in [Listeners -> Seq(Int)] /\ halves \in [Listeners -> Seq(Int)]
      /\ \A l \in Listeners : Len(halves[l]) <= 3
  OBVIOUS
<1>2. answers \in Seq(Pairs) /\ results \in Seq(Pairs) /\ received \in Seq(Pairs)
      /\ Len(results) <= 2 /\ Len(received) <= 2
  OBVIOUS
<1>3. /\ sent \in [Listeners -> Nat]
      /\ sent[LISTENER_FIRST] \in {sent[LISTENER_SECOND], sent[LISTENER_SECOND] + 1}
      /\ sent[LISTENER_FIRST] <= request
  BY DEF Listeners, LISTENER_FIRST, LISTENER_SECOND
<1>4. calls \in 0 .. Calls
  BY ExchangeAssumption
<1>5. got \in Pairs \cup {NULL} /\ calling \in BOOLEAN
  OBVIOUS
<1>6. request \in Nat \ {0}
  OBVIOUS
<1> HIDE DEF Init
<1> QED
  BY <1>1, <1>2, <1>3, <1>4, <1>5, <1>6 DEF TypeOK

LEMMA ClientType ==
  ASSUME TypeOK, ClientNext
  PROVE  TypeOK'
<1> USE DEF sockets, server, client
<1>1. ASSUME Call
      PROVE  TypeOK'
  <2>1. request' \in Nat \ {0} /\ calls' \in 0 .. Calls /\ calling' \in BOOLEAN
    BY <1>1, ExchangeAssumption DEF TypeOK, Call, MoreCalls
  <2>2. sent[LISTENER_FIRST] <= request'
    <3>1. sent[LISTENER_FIRST] \in Nat
      BY DEF TypeOK, Listeners
    <3> QED
      BY <1>1, <3>1 DEF TypeOK, Call
  <2> QED
    BY <1>1, <2>1, <2>2 DEF TypeOK, Call
<1>2. ASSUME NEW l \in Listeners, Send(l)
      PROVE  TypeOK'
  <2>1. sent'[l] \in Int /\ sent' \in [Listeners -> Nat]
    BY <1>2 DEF TypeOK, Send
  <2>2. inbox' \in [Listeners -> Seq(Int)]
    BY <1>2, <2>1 DEF TypeOK, Send
  <2>3. /\ sent'[LISTENER_FIRST] \in {sent'[LISTENER_SECOND], sent'[LISTENER_SECOND] + 1}
        /\ sent'[LISTENER_FIRST] <= request'
    BY <1>2 DEF TypeOK, Send, Listeners, LISTENER_FIRST, LISTENER_SECOND
  <2> QED
    BY <1>2, <2>1, <2>2, <2>3 DEF TypeOK, Send
<1>3. ASSUME Receive
      PROVE  TypeOK'
  <2>1. Head(answers) \in Pairs /\ answers' \in Seq(Pairs)
    BY <1>3 DEF TypeOK, Receive
  <2>2. received' \in Seq(Pairs) /\ Len(received') <= 2
    BY <1>3, <2>1 DEF TypeOK, Receive
  <2> QED
    BY <1>3, <2>1, <2>2 DEF TypeOK, Receive
<1>4. ASSUME Return
      PROVE  TypeOK'
  <2>1. Head(received) \in Pairs /\ received' \in Seq(Pairs) /\ Len(received') <= 2
    BY <1>4 DEF TypeOK, Return
  <2> QED
    BY <1>4, <2>1 DEF TypeOK, Return
<1>5. ASSUME Stop
      PROVE  TypeOK'
  <2>1. received' \in Seq(Pairs) /\ Len(received') <= 2
    BY <1>5, FrontElements DEF TypeOK, Stop
  <2> QED
    BY <1>5, <2>1 DEF TypeOK, Stop
<1> QED
  BY <1>1, <1>2, <1>3, <1>4, <1>5 DEF ClientNext

LEMMA ServerType ==
  ASSUME TypeOK, ServerNext
  PROVE  TypeOK'
<1> USE DEF sockets, server, client
<1>1. ASSUME NEW l \in Listeners, Take(l)
      PROVE  TypeOK'
  <2>1. Head(inbox[l]) \in Int /\ Tail(inbox[l]) \in Seq(Int)
    BY <1>1 DEF TypeOK, Take, Socket
  <2>2. inbox' \in [Listeners -> Seq(Int)]
    BY <1>1, <2>1 DEF TypeOK, Take, Socket
  <2>3. halves' \in [Listeners -> Seq(Int)]
    BY <1>1, <2>1 DEF TypeOK, Take, Socket
  <2>4. ASSUME NEW k \in Listeners
        PROVE  Len(halves'[k]) <= 3
    BY <1>1, <2>1 DEF TypeOK, Take, Socket
  <2> QED
    BY <1>1, <2>2, <2>3, <2>4 DEF TypeOK, Take
<1>2. ASSUME Compute
      PROVE  TypeOK'
  <2>1. \A l \in Listeners : Head(halves[l]) \in Int /\ Tail(halves[l]) \in Seq(Int)
                             /\ Len(Tail(halves[l])) <= 3
    BY <1>2 DEF TypeOK, Compute
  <2>2. halves' \in [Listeners -> Seq(Int)] /\ \A l \in Listeners : Len(halves'[l]) <= 3
    BY <1>2, <2>1 DEF Compute
  <2> DEFINE result == [l \in Listeners |-> Head(halves[l])]
  <2>3. result \in Pairs
    BY <2>1 DEF Pairs
  <2>4. results' = Append(results, result) \/ results' = <<result, result>>
    BY <1>2 DEF Compute
  <2>5. results' \in Seq(Pairs) /\ Len(results') <= 2
    <3> HIDE DEF result
    <3>1. results \in Seq(Pairs) /\ Len(results) < 2
      BY <1>2 DEF TypeOK, Compute
    <3>2. CASE results' = Append(results, result)
      BY <2>3, <3>1, <3>2
    <3>3. CASE results' = <<result, result>>
      BY <2>3, <3>3
    <3> QED
      BY <2>4, <3>2, <3>3
  <2> QED
    BY <1>2, <2>2, <2>5 DEF TypeOK, Compute
<1>3. ASSUME Answer
      PROVE  TypeOK'
  <2>1. Head(results) \in Pairs /\ results' \in Seq(Pairs) /\ Len(results') <= 2
    BY <1>3 DEF TypeOK, Answer
  <2>2. answers' \in Seq(Pairs)
    BY <1>3, <2>1 DEF TypeOK, Answer
  <2> QED
    BY <1>3, <2>1, <2>2 DEF TypeOK, Answer
<1> QED
  BY <1>1, <1>2, <1>3 DEF ServerNext

LEMMA LoseType ==
  ASSUME TypeOK, Lose
  PROVE  TypeOK'
<1> USE DEF sockets, server, client
<1>1. ASSUME NEW l \in Listeners, LoseHalf(l)
      PROVE  TypeOK'
  <2>1. PICK i \in DOMAIN inbox[l] : inbox' = [inbox EXCEPT ![l] = RemoveAt(inbox[l], i)]
    BY <1>1 DEF LoseHalf
  <2>2. inbox[l] \in Seq(Int)
    BY DEF TypeOK
  <2>3. RemoveAt(inbox[l], i) \in Seq(Int)
    BY <2>2, RemoveElements
  <2>4. inbox' \in [Listeners -> Seq(Int)]
    BY <2>1, <2>3 DEF TypeOK
  <2> QED
    BY <1>1, <2>4 DEF TypeOK, LoseHalf
<1>2. ASSUME LoseAnswer
      PROVE  TypeOK'
  <2>1. PICK i \in DOMAIN answers : answers' = RemoveAt(answers, i)
    BY <1>2 DEF LoseAnswer
  <2>2. answers' \in Seq(Pairs)
    BY <2>1, RemoveElements DEF TypeOK
  <2> QED
    BY <1>2, <2>2 DEF TypeOK, LoseAnswer
<1> QED
  BY <1>1, <1>2 DEF Lose

-----------------------------------------------------------------------------
(* Exchange: what stands in which place.                                   *)

LEMMA Numbers ==
  ASSUME NEW old \in Int, TypeOK
  PROVE  /\ request \in Nat /\ Done(old) \in Int /\ BeforeAnswers(old) \in Int
         /\ BeforeResults(old) \in Int /\ BeforeHalves(old) \in Int
         /\ Len(received) \in Nat /\ Len(answers) \in Nat /\ Len(results) \in Nat
         /\ \A l \in Listeners : /\ BeforeInbox(old, l) \in Int
                                 /\ Len(halves[l]) \in Nat /\ Len(inbox[l]) \in Nat
                                 /\ sent[l] \in Nat /\ sent[l] <= request
<1>1. request \in Nat /\ Done(old) \in Int
  BY DEF TypeOK, Done
<1>2. Len(received) \in Nat /\ Len(answers) \in Nat /\ Len(results) \in Nat
  BY DEF TypeOK
<1>3. \A l \in Listeners : Len(halves[l]) \in Nat /\ Len(inbox[l]) \in Nat
  BY DEF TypeOK
<1>4. \A l \in Listeners : sent[l] \in Nat /\ sent[l] <= request
  <2>1. sent[LISTENER_FIRST] \in Nat /\ sent[LISTENER_SECOND] \in Nat
        /\ sent[LISTENER_SECOND] <= sent[LISTENER_FIRST] /\ sent[LISTENER_FIRST] <= request
    BY DEF TypeOK, Listeners
  <2> QED
    BY <1>1, <2>1 DEF Listeners
<1>5. BeforeAnswers(old) \in Int /\ BeforeResults(old) \in Int /\ BeforeHalves(old) \in Int
  BY <1>1, <1>2 DEF BeforeAnswers, BeforeResults, BeforeHalves
<1> QED
  BY <1>1, <1>2, <1>3, <1>4, <1>5 DEF BeforeInbox

\* A queue that a step does not touch keeps its order.
LEMMA Unmoved ==
  ASSUME NEW old \in Int, NEW new \in Int, TypeOK, TypeOK', Recent(old), request <= request'
  PROVE  /\ received' = received /\ Done(new)' <= Done(old)
              => Ranked(received, Done(new), PairOf)'
         /\ answers' = answers /\ BeforeAnswers(new)' <= BeforeAnswers(old)
              => Ranked(answers, BeforeAnswers(new), PairOf)'
         /\ results' = results /\ BeforeResults(new)' <= BeforeResults(old)
              => Ranked(results, BeforeResults(new), PairOf)'
         /\ \A l \in Listeners :
              halves'[l] = halves[l] /\ BeforeHalves(new)' <= BeforeHalves(old)
                => Ranked(halves[l], BeforeHalves(new), HalfOf)'
         /\ \A l \in Listeners :
              inbox'[l] = inbox[l] /\ BeforeInbox(new, l)' <= BeforeInbox(old, l)
                => Ranked(inbox[l], BeforeInbox(new, l), HalfOf)'
<1>1. /\ request \in Int /\ Done(old) \in Int /\ BeforeAnswers(old) \in Int
      /\ BeforeResults(old) \in Int /\ BeforeHalves(old) \in Int
      /\ \A l \in Listeners : BeforeInbox(old, l) \in Int
  BY Numbers
<1>2. /\ request' \in Int /\ Done(new)' \in Int
      /\ Len(received') \in Nat /\ Len(answers') \in Nat /\ Len(results') \in Nat
      /\ \A l \in Listeners : Len(halves'[l]) \in Nat
  <2>1. request' \in Int
    BY DEF TypeOK
  <2>2. Done(new)' \in Int
    BY <2>1 DEF Done
  <2>3. Len(received') \in Nat /\ Len(answers') \in Nat /\ Len(results') \in Nat
    <3>1. received' \in Seq(Pairs) /\ answers' \in Seq(Pairs) /\ results' \in Seq(Pairs)
      BY DEF TypeOK
    <3> QED
      BY <3>1
  <2>4. ASSUME NEW l \in Listeners
        PROVE  Len(halves'[l]) \in Nat
    BY DEF TypeOK
  <2> QED
    BY <2>1, <2>2, <2>3, <2>4
<1>3. /\ BeforeAnswers(new)' \in Int /\ BeforeResults(new)' \in Int /\ BeforeHalves(new)' \in Int
      /\ \A l \in Listeners : BeforeInbox(new, l)' \in Int
  <2>1. BeforeAnswers(new)' \in Int
    BY <1>2 DEF BeforeAnswers
  <2>2. BeforeResults(new)' \in Int
    BY <1>2, <2>1 DEF BeforeResults
  <2>3. BeforeHalves(new)' \in Int
    BY <1>2, <2>2 DEF BeforeHalves
  <2>4. ASSUME NEW l \in Listeners
        PROVE  BeforeInbox(new, l)' \in Int
    BY <1>2, <2>3 DEF BeforeInbox
  <2> QED
    BY <2>1, <2>2, <2>3, <2>4
<1>4. Later(HalfOf, HalfOf') /\ Later(PairOf, PairOf')
  BY <1>1, <1>2, LaterOf
<1>5. received \in Seq(Pairs) /\ answers \in Seq(Pairs) /\ results \in Seq(Pairs)
      /\ \A l \in Listeners : halves[l] \in Seq(Int) /\ inbox[l] \in Seq(Int)
  BY DEF TypeOK
<1> HIDE DEF HalfOf, PairOf
<1>6. received' = received /\ Done(new)' <= Done(old) => Ranked(received, Done(new), PairOf)'
  BY <1>1, <1>2, <1>4, <1>5, RankedSame DEF Recent
<1>7. answers' = answers /\ BeforeAnswers(new)' <= BeforeAnswers(old)
        => Ranked(answers, BeforeAnswers(new), PairOf)'
  BY <1>1, <1>3, <1>4, <1>5, RankedSame DEF Recent
<1>8. results' = results /\ BeforeResults(new)' <= BeforeResults(old)
        => Ranked(results, BeforeResults(new), PairOf)'
  BY <1>1, <1>3, <1>4, <1>5, RankedSame DEF Recent
<1>9. ASSUME NEW l \in Listeners, halves'[l] = halves[l],
             BeforeHalves(new)' <= BeforeHalves(old)
      PROVE  Ranked(halves[l], BeforeHalves(new), HalfOf)'
  BY <1>1, <1>3, <1>4, <1>5, <1>9, RankedSame DEF Recent
<1>10. ASSUME NEW l \in Listeners, inbox'[l] = inbox[l],
              BeforeInbox(new, l)' <= BeforeInbox(old, l)
       PROVE  Ranked(inbox[l], BeforeInbox(new, l), HalfOf)'
  BY <1>1, <1>3, <1>4, <1>5, <1>10, RankedSame DEF Recent
<1> QED
  BY <1>6, <1>7, <1>8, <1>9, <1>10

LEMMA ClientPlaces ==
  ASSUME NEW old \in Int, NEW gone \in [Listeners -> Nat],
         TypeOK, AllAccounted(old, gone), Recent(old), ClientNext
  PROVE  AllAccounted(old, gone)' /\ Recent(old)'
<1>1. TypeOK'
  BY ClientType
<1>2. /\ request \in Nat /\ Done(old) \in Int /\ BeforeAnswers(old) \in Int
      /\ BeforeResults(old) \in Int /\ BeforeHalves(old) \in Int
      /\ Len(received) \in Nat /\ Len(answers) \in Nat /\ Len(results) \in Nat
      /\ \A l \in Listeners : /\ BeforeInbox(old, l) \in Int
                              /\ Len(halves[l]) \in Nat /\ Len(inbox[l]) \in Nat
                              /\ sent[l] \in Nat /\ sent[l] <= request
  BY Numbers
<1>3. request' \in Nat /\ request <= request'
  BY <1>2 DEF ClientNext, Call, Send, Receive, Return, Stop
<1>4. Later(HalfOf, HalfOf') /\ Later(PairOf, PairOf')
  BY <1>2, <1>3, LaterOf
<1> DEFINE Kept ==
      /\ Done(old)' = Done(old) /\ BeforeAnswers(old)' = BeforeAnswers(old)
      /\ BeforeResults(old)' = BeforeResults(old) /\ BeforeHalves(old)' = BeforeHalves(old)
      /\ \A l \in Listeners : BeforeInbox(old, l)' = BeforeInbox(old, l)
<1> USE DEF sockets, server, client
<1>5. ASSUME Call
      PROVE  AllAccounted(old, gone)' /\ Recent(old)'
  <2>1. Done(old)' = Done(old)
    BY <1>2, <1>5 DEF Call, Answered, Done
  <2>2. Kept
    BY <1>5, <2>1 DEF Call, BeforeAnswers, BeforeResults, BeforeHalves, BeforeInbox
  <2>3. AllAccounted(old, gone)'
    BY <1>5, <2>2 DEF Call, AllAccounted
  <2>4. ~(got # NULL /\ ~calling)'
    BY <1>5 DEF Call
  <2>5. UNCHANGED <<received, answers, results, halves, inbox>>
    BY <1>5 DEF Call
  <2> QED
    BY <1>1, <1>2, <1>3, <2>2, <2>3, <2>4, <2>5, Unmoved DEF Recent
<1>6. ASSUME NEW l \in Listeners, Send(l)
      PROVE  AllAccounted(old, gone)' /\ Recent(old)'
  <2>1. Kept
    BY <1>6 DEF Send, Done, BeforeAnswers, BeforeResults, BeforeHalves, BeforeInbox
  <2>2. UNCHANGED <<received, answers, results, halves, got, calling, request>>
    BY <1>6 DEF Send
  <2>3. /\ sent'[l] = sent[l] + 1 /\ sent'[l] <= request
        /\ inbox'[l] = Append(inbox[l], sent[l] + 1)
        /\ \A k \in Listeners \ {l} : inbox'[k] = inbox[k] /\ sent'[k] = sent[k]
    <3>1. sent \in [Listeners -> Nat] /\ inbox \in [Listeners -> Seq(Int)]
      BY DEF TypeOK
    <3>2. sent'[l] = sent[l] + 1 /\ \A k \in Listeners \ {l} : sent'[k] = sent[k]
      BY <1>6, <3>1 DEF Send
    <3>3. /\ inbox'[l] = Append(inbox[l], sent'[l])
          /\ \A k \in Listeners \ {l} : inbox'[k] = inbox[k]
      BY <1>6, <3>1 DEF Send
    <3>4. sent[l] < request
      BY <1>6 DEF Send
    <3> QED
      BY <1>2, <3>2, <3>3, <3>4
  <2>4. inbox[l] \in Seq(Int) /\ Len(inbox'[l]) = Len(inbox[l]) + 1
    BY <1>2, <2>3 DEF TypeOK
  <2>5. ASSUME NEW k \in Listeners
        PROVE  BeforeInbox(old, k)' + Len(inbox'[k]) + gone[k] <= sent'[k]
    <3>1. BeforeInbox(old, k) + Len(inbox[k]) + gone[k] <= sent[k]
      BY DEF AllAccounted
    <3> gone[k] \in Nat
      OBVIOUS
    <3>2. CASE k = l
      <4>1. BeforeInbox(old, k) \in Int /\ Len(inbox[k]) \in Nat /\ sent[k] \in Nat
        BY <1>2
      <4>2. BeforeInbox(old, k)' = BeforeInbox(old, k) /\ Len(inbox'[k]) = Len(inbox[k]) + 1
            /\ sent'[k] = sent[k] + 1
        BY <2>1, <2>3, <2>4, <3>2
      <4> QED
        BY <3>1, <4>1, <4>2
    <3>3. CASE k # l
      BY <2>1, <2>3, <3>1, <3>3
    <3> QED
      BY <3>2, <3>3
  <2>6. Ranked(inbox[l], BeforeInbox(old, l), HalfOf)'
    <3>1. BeforeInbox(old, l) + Len(inbox[l]) + gone[l] <= sent[l]
      BY DEF AllAccounted
    <3> gone[l] \in Nat
      OBVIOUS
    <3>2. sent[l] + 1 \in HalfOf[sent[l] + 1]
      BY <1>2, <2>3 DEF HalfOf
    <3>3. BeforeInbox(old, l) + Len(inbox[l]) + 1 <= sent[l] + 1 /\ sent[l] + 1 \in Int
      <4>1. BeforeInbox(old, l) \in Int /\ Len(inbox[l]) \in Nat /\ sent[l] \in Nat
        BY <1>2
      <4> QED
        BY <3>1, <4>1
    <3>4. Ranked(inbox[l], BeforeInbox(old, l), HalfOf) /\ BeforeInbox(old, l) \in Int
      BY <1>2 DEF Recent
    <3> HIDE DEF HalfOf
    <3> QED
      BY <1>4, <2>1, <2>3, <2>4, <3>2, <3>3, <3>4, RankedAppend
  <2>7. ASSUME NEW k \in Listeners
        PROVE  Ranked(inbox[k], BeforeInbox(old, k), HalfOf)'
    <3>1. CASE k = l
      BY <2>6, <3>1
    <3>2. CASE k # l
      BY <1>1, <1>2, <1>3, <2>1, <2>3, <3>2, Unmoved
    <3> QED
      BY <3>1, <3>2
  <2>8. (got # NULL /\ ~calling => got \in PairOf[Done(old)])'
    BY <2>1, <2>2 DEF Recent, PairOf
  <2>9. AllAccounted(old, gone)'
    BY <2>5 DEF AllAccounted
  <2>10. /\ Ranked(received, Done(old), PairOf)' /\ Ranked(answers, BeforeAnswers(old), PairOf)'
         /\ Ranked(results, BeforeResults(old), PairOf)'
         /\ \A k \in Listeners : Ranked(halves[k], BeforeHalves(old), HalfOf)'
    BY <1>1, <1>2, <1>3, <2>1, <2>2, Unmoved
  <2> QED
    BY <2>7, <2>8, <2>9, <2>10 DEF Recent
<1>7. ASSUME Receive
      PROVE  AllAccounted(old, gone)' /\ Recent(old)'
  <2>1. UNCHANGED <<inbox, results, halves, sent, got, calling, request>>
    BY <1>7 DEF Receive
  <2>2. /\ received \in Seq(Pairs) /\ answers \in Seq(Pairs) /\ answers # <<>>
        /\ received' = Append(received, Head(answers)) /\ answers' = Tail(answers)
    BY <1>7 DEF Receive, TypeOK
  <2>3. /\ Head(answers) \in Pairs
        /\ Len(received') = Len(received) + 1 /\ Len(answers') = Len(answers) - 1
    BY <2>2
  <2>4. Done(old)' = Done(old)
    BY <2>1 DEF Done
  <2>5. BeforeAnswers(old)' = BeforeAnswers(old) + 1
    BY <1>2, <2>3, <2>4 DEF BeforeAnswers
  <2>6. BeforeResults(old)' = BeforeResults(old)
    BY <1>2, <2>3, <2>5 DEF BeforeResults
  <2>7. BeforeHalves(old)' = BeforeHalves(old)
        /\ \A l \in Listeners : BeforeInbox(old, l)' = BeforeInbox(old, l)
    BY <2>1, <2>6 DEF BeforeHalves, BeforeInbox
  <2>8. AllAccounted(old, gone)'
    BY <2>1, <2>7 DEF AllAccounted
  <2>9. Ranked(answers, BeforeAnswers(old), PairOf)'
        /\ Head(answers) \in PairOf'[BeforeAnswers(old) + 1]
    <3>1. Ranked(answers, BeforeAnswers(old), PairOf)
      BY DEF Recent
    <3>2. BeforeAnswers(old) \in Int /\ BeforeAnswers(old) + 1 \in Int
          /\ BeforeAnswers(old) + 1 <= BeforeAnswers(old) + 1
      BY <1>2
    <3>3. /\ Ranked(Tail(answers), BeforeAnswers(old) + 1, PairOf')
          /\ Head(answers) \in PairOf'[BeforeAnswers(old) + 1]
      BY <1>4, <2>2, <3>1, <3>2, RankedTail
    <3> QED
      BY <2>2, <2>5, <3>3
  <2>10. Ranked(received, Done(old), PairOf)'
    <3>1. PairOf' = PairOf
      BY <2>1 DEF PairOf
    <3>2. Done(old) + Len(received) + 1 = BeforeAnswers(old) + 1 /\ BeforeAnswers(old) + 1 \in Int
      BY <1>2 DEF BeforeAnswers
    <3>3. Ranked(received, Done(old), PairOf)
      BY DEF Recent
    <3> HIDE DEF PairOf
    <3> QED
      BY <1>2, <1>4, <2>2, <2>3, <2>4, <2>9, <3>1, <3>2, <3>3, RankedAppend
  <2>11. /\ Ranked(results, BeforeResults(old), PairOf)'
         /\ \A k \in Listeners : /\ Ranked(halves[k], BeforeHalves(old), HalfOf)'
                                 /\ Ranked(inbox[k], BeforeInbox(old, k), HalfOf)'
    <3>1. BeforeResults(old)' <= BeforeResults(old) /\ BeforeHalves(old)' <= BeforeHalves(old)
          /\ \A k \in Listeners : BeforeInbox(old, k)' <= BeforeInbox(old, k)
      BY <1>2, <2>6, <2>7
    <3> QED
      BY <1>1, <1>3, <2>1, <3>1, Unmoved
  <2>12. (got # NULL /\ ~calling => got \in PairOf[Done(old)])'
    BY <2>1, <2>4 DEF Recent, PairOf
  <2> QED
    BY <2>8, <2>9, <2>10, <2>11, <2>12 DEF Recent
<1>8. ASSUME Return
      PROVE  AllAccounted(old, gone)' /\ Recent(old)'
  <2>1. UNCHANGED <<inbox, answers, results, halves, sent, request>> /\ calling /\ ~calling'
    BY <1>8 DEF Return
  <2>2. /\ received \in Seq(Pairs) /\ received # <<>>
        /\ received' = Tail(received) /\ got' = Head(received)
    BY <1>8 DEF Return, TypeOK
  <2>3. Len(received') = Len(received) - 1
    BY <2>2
  <2>4. Done(old)' = Done(old) + 1
    BY <1>2, <2>1 DEF Done
  <2>5. BeforeAnswers(old)' = BeforeAnswers(old)
    BY <1>2, <2>3, <2>4 DEF BeforeAnswers
  <2>6. BeforeResults(old)' = BeforeResults(old) /\ BeforeHalves(old)' = BeforeHalves(old)
        /\ \A l \in Listeners : BeforeInbox(old, l)' = BeforeInbox(old, l)
    BY <2>1, <2>5 DEF BeforeResults, BeforeHalves, BeforeInbox
  <2>7. AllAccounted(old, gone)'
    BY <2>1, <2>6 DEF AllAccounted
  <2>8. Ranked(received, Done(old), PairOf)' /\ got' \in PairOf'[Done(old) + 1]
    <3>1. Ranked(received, Done(old), PairOf)
      BY DEF Recent
    <3>2. Done(old) \in Int /\ Done(old) + 1 \in Int /\ Done(old) + 1 <= Done(old) + 1
      BY <1>2
    <3>3. /\ Ranked(Tail(received), Done(old) + 1, PairOf')
          /\ Head(received) \in PairOf'[Done(old) + 1]
      BY <1>4, <2>2, <3>1, <3>2, RankedTail
    <3> QED
      BY <2>2, <2>4, <3>3
  <2>9. /\ Ranked(answers, BeforeAnswers(old), PairOf)'
        /\ Ranked(results, BeforeResults(old), PairOf)'
        /\ \A k \in Listeners : /\ Ranked(halves[k], BeforeHalves(old), HalfOf)'
                                /\ Ranked(inbox[k], BeforeInbox(old, k), HalfOf)'
    BY <1>1, <1>2, <1>3, <2>1, <2>5, <2>6, Unmoved
  <2> QED
    BY <2>4, <2>7, <2>8, <2>9 DEF Recent
<1>9. ASSUME Stop
      PROVE  AllAccounted(old, gone)' /\ Recent(old)'
  <2>1. UNCHANGED <<inbox, answers, results, halves, sent, got, calling, request>>
    BY <1>9 DEF Stop
  <2>2. received \in Seq(Pairs) /\ received # <<>> /\ received' = Front(received)
    BY <1>9 DEF Stop, TypeOK
  <2>3. Len(received') = Len(received) - 1
    BY <2>2, FrontElements
  <2>4. Done(old)' = Done(old)
    BY <2>1 DEF Done
  <2>5. BeforeAnswers(old)' = BeforeAnswers(old) - 1
    BY <1>2, <2>3, <2>4 DEF BeforeAnswers
  <2>6. BeforeResults(old)' = BeforeResults(old) - 1
    BY <1>2, <2>1, <2>5 DEF BeforeResults, BeforeAnswers
  <2>7. BeforeHalves(old)' = BeforeHalves(old) - 1
    BY <1>2, <2>1, <2>6 DEF BeforeHalves, BeforeResults
  <2>8. ASSUME NEW k \in Listeners
        PROVE  BeforeInbox(old, k)' = BeforeInbox(old, k) - 1
    <3>1. Len(halves'[k]) = Len(halves[k]) /\ Len(halves[k]) \in Nat
      BY <1>2, <2>1
    <3> QED
      BY <1>2, <2>7, <3>1 DEF BeforeInbox
  <2>9. ASSUME NEW k \in Listeners
        PROVE  BeforeInbox(old, k)' + Len(inbox'[k]) + gone[k] <= sent'[k]
    <3>1. BeforeInbox(old, k) + Len(inbox[k]) + gone[k] <= sent[k]
      BY DEF AllAccounted
    <3>2. /\ gone[k] \in Nat /\ BeforeInbox(old, k) \in Int
          /\ Len(inbox[k]) \in Nat /\ sent[k] \in Nat
      BY <1>2
    <3> QED
      BY <2>1, <2>8, <3>1, <3>2
  <2>10. Ranked(received, Done(old), PairOf)'
    BY <1>2, <1>4, <2>2, <2>4, RankedFront DEF Recent
  <2>11. /\ Ranked(answers, BeforeAnswers(old), PairOf)'
         /\ Ranked(results, BeforeResults(old), PairOf)'
         /\ \A k \in Listeners : /\ Ranked(halves[k], BeforeHalves(old), HalfOf)'
                                 /\ Ranked(inbox[k], BeforeInbox(old, k), HalfOf)'
    <3>1. /\ BeforeAnswers(old)' <= BeforeAnswers(old) /\ BeforeResults(old)' <= BeforeResults(old)
          /\ BeforeHalves(old)' <= BeforeHalves(old)
          /\ \A k \in Listeners : BeforeInbox(old, k)' <= BeforeInbox(old, k)
      BY <1>2, <2>5, <2>6, <2>7, <2>8
    <3> QED
      BY <1>1, <1>3, <2>1, <3>1, Unmoved
  <2>12. (got # NULL /\ ~calling => got \in PairOf[Done(old)])'
    BY <2>1, <2>4 DEF Recent, PairOf
  <2>13. AllAccounted(old, gone)'
    BY <2>9 DEF AllAccounted
  <2> QED
    BY <2>10, <2>11, <2>12, <2>13 DEF Recent
<1> QED
  BY <1>5, <1>6, <1>7, <1>8, <1>9 DEF ClientNext

LEMMA ServerPlaces ==
  ASSUME NEW old \in Int, NEW gone \in [Listeners -> Nat],
         TypeOK, AllAccounted(old, gone), Recent(old), ServerNext
  PROVE  AllAccounted(old, gone)' /\ Recent(old)'
<1>1. TypeOK'
  BY ServerType
<1>2. /\ request \in Nat /\ Done(old) \in Int /\ BeforeAnswers(old) \in Int
      /\ BeforeResults(old) \in Int /\ BeforeHalves(old) \in Int
      /\ Len(received) \in Nat /\ Len(answers) \in Nat /\ Len(results) \in Nat
      /\ \A l \in Listeners : /\ BeforeInbox(old, l) \in Int
                              /\ Len(halves[l]) \in Nat /\ Len(inbox[l]) \in Nat
                              /\ sent[l] \in Nat /\ sent[l] <= request
  BY Numbers
<1> USE DEF sockets, server, client
<1>3. UNCHANGED client
  BY DEF ServerNext, Take, Compute, Answer
<1>4. Later(HalfOf, HalfOf') /\ Later(PairOf, PairOf') /\ request <= request'
  BY <1>2, <1>3, LaterOf
<1>5. HalfOf' = HalfOf /\ PairOf' = PairOf
  BY <1>3 DEF HalfOf, PairOf
<1>6. Done(old)' = Done(old) /\ BeforeAnswers(old)' = BeforeAnswers(old)
  BY <1>3 DEF Done, BeforeAnswers
<1>7. Ranked(received, Done(old), PairOf)'
  BY <1>1, <1>2, <1>3, <1>4, <1>6, Unmoved
<1>8. (got # NULL /\ ~calling => got \in PairOf[Done(old)])'
  BY <1>3, <1>6 DEF Recent, PairOf
<1>9. ASSUME NEW l \in Listeners, Take(l)
      PROVE  AllAccounted(old, gone)' /\ Recent(old)'
  <2>1. UNCHANGED <<answers, results>>
    BY <1>9 DEF Take
  <2>2. /\ inbox[l] \in Seq(Int) /\ inbox[l] # <<>> /\ halves[l] \in Seq(Int)
        /\ Head(inbox[l]) \in Int
    BY <1>9 DEF TypeOK, Take, Socket
  <2>3. /\ halves'[l] = Append(halves[l], Head(inbox[l])) /\ inbox'[l] = Tail(inbox[l])
        /\ \A k \in Listeners \ {l} : halves'[k] = halves[k] /\ inbox'[k] = inbox[k]
    BY <1>9 DEF TypeOK, Take, Socket
  <2>4. Len(halves'[l]) = Len(halves[l]) + 1 /\ Len(inbox'[l]) = Len(inbox[l]) - 1
    BY <2>2, <2>3
  <2>5. BeforeResults(old)' = BeforeResults(old) /\ BeforeHalves(old)' = BeforeHalves(old)
    BY <1>6, <2>1 DEF BeforeResults, BeforeHalves
  <2>6. \A k \in Listeners \ {l} : BeforeInbox(old, k)' = BeforeInbox(old, k)
    BY <2>3, <2>5 DEF BeforeInbox
  <2>7. BeforeInbox(old, l)' = BeforeInbox(old, l) + 1
    <3>1. Len(halves[l]) \in Nat /\ BeforeHalves(old) \in Int
      BY <1>2
    <3> QED
      BY <2>4, <2>5, <3>1 DEF BeforeInbox
  <2>8. ASSUME NEW k \in Listeners
        PROVE  BeforeInbox(old, k)' + Len(inbox'[k]) + gone[k] <= sent'[k]
    <3>1. BeforeInbox(old, k) + Len(inbox[k]) + gone[k] <= sent[k]
      BY DEF AllAccounted
    <3>2. /\ gone[k] \in Nat /\ BeforeInbox(old, k) \in Int
          /\ Len(inbox[k]) \in Nat /\ sent[k] \in Nat
      BY <1>2
    <3>3. CASE k = l
      <4>1. BeforeInbox(old, k)' = BeforeInbox(old, k) + 1 /\ Len(inbox'[k]) = Len(inbox[k]) - 1
            /\ sent'[k] = sent[k]
        BY <1>3, <2>4, <2>7, <3>3
      <4> QED
        BY <3>1, <3>2, <4>1
    <3>4. CASE k # l
      BY <1>3, <2>3, <2>6, <3>1, <3>4
    <3> QED
      BY <3>3, <3>4
  <2>9. Ranked(inbox[l], BeforeInbox(old, l), HalfOf)'
        /\ Head(inbox[l]) \in HalfOf[BeforeInbox(old, l) + 1]
    <3>1. Ranked(inbox[l], BeforeInbox(old, l), HalfOf)
      BY DEF Recent
    <3>2. BeforeInbox(old, l) \in Int /\ BeforeInbox(old, l) + 1 \in Int
          /\ BeforeInbox(old, l) + 1 <= BeforeInbox(old, l) + 1
      BY <1>2
    <3>3. /\ Ranked(Tail(inbox[l]), BeforeInbox(old, l) + 1, HalfOf')
          /\ Head(inbox[l]) \in HalfOf'[BeforeInbox(old, l) + 1]
      BY <1>4, <2>2, <3>1, <3>2, RankedTail
    <3> HIDE DEF HalfOf
    <3> QED
      BY <1>5, <2>3, <2>7, <3>3
  <2>10. Ranked(halves[l], BeforeHalves(old), HalfOf)'
    <3>1. Ranked(halves[l], BeforeHalves(old), HalfOf)
      BY DEF Recent
    <3>2. BeforeHalves(old) \in Int /\ BeforeInbox(old, l) + 1 \in Int
          /\ BeforeHalves(old) + Len(halves[l]) + 1 <= BeforeInbox(old, l) + 1
      BY <1>2 DEF BeforeInbox
    <3>3. Ranked(Append(halves[l], Head(inbox[l])), BeforeHalves(old), HalfOf')
      <4>1. Head(inbox[l]) \in HalfOf[BeforeInbox(old, l) + 1]
        BY <2>9
      <4>2. BeforeHalves(old) <= BeforeHalves(old)
        BY <1>2
      <4> HIDE DEF HalfOf
      <4> QED
        BY <1>4, <2>2, <3>1, <3>2, <4>1, <4>2, RankedAppend
    <3> QED
      BY <2>3, <2>5, <3>3
  <2>11. \A k \in Listeners \ {l} : /\ Ranked(halves[k], BeforeHalves(old), HalfOf)'
                                    /\ Ranked(inbox[k], BeforeInbox(old, k), HalfOf)'
    BY <1>1, <1>2, <1>4, <2>3, <2>5, <2>6, Unmoved
  <2>12. /\ Ranked(answers, BeforeAnswers(old), PairOf)'
         /\ Ranked(results, BeforeResults(old), PairOf)'
    <3>1. BeforeAnswers(old)' <= BeforeAnswers(old) /\ BeforeResults(old)' <= BeforeResults(old)
      BY <1>2, <1>6, <2>5
    <3> QED
      BY <1>1, <1>4, <2>1, <3>1, Unmoved
  <2>13. \A k \in Listeners : /\ Ranked(halves[k], BeforeHalves(old), HalfOf)'
                              /\ Ranked(inbox[k], BeforeInbox(old, k), HalfOf)'
    BY <2>9, <2>10, <2>11
  <2>14. AllAccounted(old, gone)'
    BY <2>8 DEF AllAccounted
  <2> QED
    BY <1>7, <1>8, <2>12, <2>13, <2>14 DEF Recent
<1>10. ASSUME Compute
       PROVE  AllAccounted(old, gone)' /\ Recent(old)'
  <2>1. UNCHANGED <<answers, inbox>>
    BY <1>10 DEF Compute
  <2>2. \A l \in Listeners : /\ halves[l] \in Seq(Int) /\ halves[l] # <<>>
                             /\ halves'[l] = Tail(halves[l])
    BY <1>10 DEF TypeOK, Compute
  <2>3. ASSUME NEW l \in Listeners
        PROVE  Len(halves'[l]) = Len(halves[l]) - 1 /\ Head(halves[l]) \in Int
    <3>1. halves[l] \in Seq(Int) /\ halves[l] # <<>> /\ halves'[l] = Tail(halves[l])
      BY <2>2
    <3> QED
      BY <3>1
  <2> DEFINE result == [l \in Listeners |-> Head(halves[l])]
  <2>4. results \in Seq(Pairs) /\ Len(results) < 2
    BY <1>10 DEF TypeOK, Compute
  <2>5. results' = Append(results, result) \/ (results # <<>> /\ results' = <<result, result>>)
    BY <1>10 DEF Compute
  <2>6. result \in Pairs
    BY <2>3 DEF Pairs
  <2> HIDE DEF result
  <2>7. Len(results') = Len(results) + 1
    <3>1. CASE results' = Append(results, result)
      BY <2>4, <2>6, <3>1
    <3>2. CASE results # <<>> /\ results' = <<result, result>>
      <4>1. Len(results) # 0 /\ Len(results) \in Nat
        BY <2>4, <3>2
      <4> QED
        BY <2>4, <3>2, <4>1
    <3> QED
      BY <2>5, <3>1, <3>2
  <2>8. BeforeResults(old)' = BeforeResults(old)
    BY <1>6, <2>1 DEF BeforeResults
  <2>9. BeforeHalves(old)' = BeforeHalves(old) + 1
    BY <1>2, <2>7, <2>8 DEF BeforeHalves
  <2>10. ASSUME NEW k \in Listeners
         PROVE  BeforeInbox(old, k)' = BeforeInbox(old, k)
    <3>1. Len(halves[k]) \in Nat /\ BeforeHalves(old) \in Int
      BY <1>2
    <3>2. Len(halves'[k]) = Len(halves[k]) - 1
      BY <2>3
    <3> QED
      BY <2>9, <3>1, <3>2 DEF BeforeInbox
  <2>11. AllAccounted(old, gone)'
    BY <1>3, <2>1, <2>10 DEF AllAccounted
  <2>12. ASSUME NEW k \in Listeners
         PROVE  Ranked(halves[k], BeforeHalves(old), HalfOf)'
                /\ Head(halves[k]) \in HalfOf[BeforeHalves(old) + 1]
    <3>1. Ranked(halves[k], BeforeHalves(old), HalfOf)
      BY DEF Recent
    <3>2. BeforeHalves(old) \in Int /\ BeforeHalves(old) + 1 \in Int
          /\ BeforeHalves(old) + 1 <= BeforeHalves(old) + 1
      BY <1>2
    <3>3. /\ Ranked(Tail(halves[k]), BeforeHalves(old) + 1, HalfOf')
          /\ Head(halves[k]) \in HalfOf'[BeforeHalves(old) + 1]
      BY <1>4, <2>2, <3>1, <3>2, RankedTail
    <3> HIDE DEF HalfOf
    <3> QED
      BY <1>5, <2>2, <2>9, <3>3
  <2>13. result \in PairOf[BeforeHalves(old) + 1]
    <3>1. BeforeHalves(old) + 1 \in Int
      BY <1>2
    <3>2. \A k \in Listeners : Head(halves[k]) \in (BeforeHalves(old) + 1) .. request
      BY <2>12, <3>1 DEF HalfOf
    <3> QED
      BY <3>1, <3>2 DEF PairOf, result
  <2>14. Ranked(results, BeforeResults(old), PairOf)'
    <3>1. /\ BeforeResults(old) \in Int /\ Len(results) \in Nat /\ BeforeHalves(old) + 1 \in Int
          /\ BeforeResults(old) + Len(results) + 1 = BeforeHalves(old) + 1
      BY <1>2 DEF BeforeHalves
    <3>2. CASE results' = Append(results, result)
      <4>1. Ranked(results, BeforeResults(old), PairOf)
        BY DEF Recent
      <4>2. BeforeResults(old) + Len(results) + 1 <= BeforeHalves(old) + 1
        BY <3>1
      <4> QED
        BY <1>4, <2>4, <2>6, <2>8, <2>13, <3>1, <3>2, <4>1, <4>2, RankedAppend
    <3>3. CASE results # <<>> /\ results' = <<result, result>>
      <4>1. Len(results) = 1
        <5>1. Len(results) # 0 /\ Len(results) \in Nat
          BY <2>4, <3>3
        <5>2. Len(results) < 2
          BY <2>4
        <5>3. \A n \in Nat : n # 0 /\ n < 2 => n = 1
          OBVIOUS
        <5> QED
          BY <5>1, <5>2, <5>3
      <4>2. ASSUME NEW i \in 1 .. 2
            PROVE  result \in PairOf'[BeforeResults(old) + i]
        <5>1. BeforeResults(old) + i \in Int /\ BeforeResults(old) + i <= BeforeHalves(old) + 1
          BY <3>1, <4>1
        <5> QED
          BY <1>4, <2>13, <3>1, <5>1 DEF Later
      <4>3. DOMAIN results' = 1 .. 2 /\ \A i \in 1 .. 2 : results'[i] = result
        BY <3>3
      <4> HIDE DEF PairOf
      <4> QED
        BY <2>8, <4>2, <4>3 DEF Ranked
    <3> QED
      BY <2>5, <3>2, <3>3
  <2>15. Ranked(answers, BeforeAnswers(old), PairOf)'
         /\ \A k \in Listeners : Ranked(inbox[k], BeforeInbox(old, k), HalfOf)'
    <3>1. /\ BeforeAnswers(old)' <= BeforeAnswers(old)
          /\ \A k \in Listeners : BeforeInbox(old, k)' <= BeforeInbox(old, k)
      BY <1>2, <1>6, <2>10
    <3> QED
      BY <1>1, <1>4, <2>1, <3>1, Unmoved
  <2> QED
    BY <1>7, <1>8, <2>11, <2>12, <2>14, <2>15 DEF Recent
<1>11. ASSUME Answer
       PROVE  AllAccounted(old, gone)' /\ Recent(old)'
  <2>1. UNCHANGED <<halves, inbox>>
    BY <1>11 DEF Answer
  <2>2. /\ results \in Seq(Pairs) /\ results # <<>> /\ answers \in Seq(Pairs)
        /\ answers' = Append(answers, Head(results)) /\ results' = Tail(results)
    BY <1>11 DEF Answer, TypeOK
  <2>3. /\ Head(results) \in Pairs
        /\ Len(answers') = Len(answers) + 1 /\ Len(results') = Len(results) - 1
    BY <2>2
  <2>4. BeforeResults(old)' = BeforeResults(old) + 1
    BY <1>2, <1>6, <2>3 DEF BeforeResults
  <2>5. BeforeHalves(old)' = BeforeHalves(old)
    BY <1>2, <2>3, <2>4 DEF BeforeHalves
  <2>6. \A k \in Listeners : BeforeInbox(old, k)' = BeforeInbox(old, k)
    BY <2>1, <2>5 DEF BeforeInbox
  <2>7. AllAccounted(old, gone)'
    BY <1>3, <2>1, <2>6 DEF AllAccounted
  <2>8. Ranked(results, BeforeResults(old), PairOf)'
        /\ Head(results) \in PairOf[BeforeResults(old) + 1]
    <3>1. Ranked(results, BeforeResults(old), PairOf)
      BY DEF Recent
    <3>2. BeforeResults(old) \in Int /\ BeforeResults(old) + 1 \in Int
          /\ BeforeResults(old) + 1 <= BeforeResults(old) + 1
      BY <1>2
    <3>3. /\ Ranked(Tail(results), BeforeResults(old) + 1, PairOf')
          /\ Head(results) \in PairOf'[BeforeResults(old) + 1]
      BY <1>4, <2>2, <3>1, <3>2, RankedTail
    <3> HIDE DEF PairOf
    <3> QED
      BY <1>5, <2>2, <2>4, <3>3
  <2>9. Ranked(answers, BeforeAnswers(old), PairOf)'
    <3>1. Ranked(answers, BeforeAnswers(old), PairOf)
      BY DEF Recent
    <3>2. BeforeAnswers(old) \in Int /\ BeforeResults(old) + 1 \in Int
          /\ BeforeAnswers(old) + Len(answers) + 1 <= BeforeResults(old) + 1
      BY <1>2 DEF BeforeResults
    <3> QED
      BY <1>4, <1>6, <2>2, <2>3, <2>8, <3>1, <3>2, RankedAppend
  <2>10. \A k \in Listeners : /\ Ranked(halves[k], BeforeHalves(old), HalfOf)'
                              /\ Ranked(inbox[k], BeforeInbox(old, k), HalfOf)'
    <3>1. /\ BeforeHalves(old)' <= BeforeHalves(old)
          /\ \A k \in Listeners : BeforeInbox(old, k)' <= BeforeInbox(old, k)
      BY <1>2, <2>5, <2>6
    <3> QED
      BY <1>1, <1>4, <2>1, <3>1, Unmoved
  <2> QED
    BY <1>7, <1>8, <2>7, <2>8, <2>9, <2>10 DEF Recent
<1> QED
  BY <1>9, <1>10, <1>11 DEF ServerNext

\* A lost half leaves a place at the end of its port's queues for one datagram more.
LEMMA LoseHalfPlaces ==
  ASSUME NEW old \in Int, NEW gone \in [Listeners -> Nat], NEW more \in [Listeners -> Nat],
         NEW l \in Listeners, more[l] <= gone[l] + 1,
         \A k \in Listeners \ {l} : more[k] <= gone[k],
         TypeOK, AllAccounted(old, gone), Recent(old), LoseHalf(l)
  PROVE  AllAccounted(old, more)' /\ Recent(old)'
<1>1. TypeOK'
  BY LoseType DEF Lose
<1>2. /\ request \in Nat /\ Done(old) \in Int /\ BeforeAnswers(old) \in Int
      /\ BeforeResults(old) \in Int /\ BeforeHalves(old) \in Int
      /\ \A k \in Listeners : /\ BeforeInbox(old, k) \in Int
                              /\ Len(inbox[k]) \in Nat /\ sent[k] \in Nat
  BY Numbers
<1>3. UNCHANGED <<answers, halves, results, request, calls, calling, sent, received, got>>
  BY DEF LoseHalf, server, client
<1>4. Later(HalfOf, HalfOf') /\ Later(PairOf, PairOf') /\ request <= request'
  BY <1>2, <1>3, LaterOf
<1>5. /\ Done(old)' = Done(old) /\ BeforeAnswers(old)' = BeforeAnswers(old)
      /\ BeforeResults(old)' = BeforeResults(old) /\ BeforeHalves(old)' = BeforeHalves(old)
      /\ \A k \in Listeners : BeforeInbox(old, k)' = BeforeInbox(old, k)
  BY <1>3 DEF Done, BeforeAnswers, BeforeResults, BeforeHalves, BeforeInbox
<1>6. PICK i \in DOMAIN inbox[l] : inbox' = [inbox EXCEPT ![l] = RemoveAt(inbox[l], i)]
  BY DEF LoseHalf
<1>7. inbox \in [Listeners -> Seq(Int)]
  BY DEF TypeOK
<1>8. inbox'[l] = RemoveAt(inbox[l], i) /\ \A k \in Listeners \ {l} : inbox'[k] = inbox[k]
  BY <1>6, <1>7
<1>9. Len(inbox'[l]) = Len(inbox[l]) - 1
  BY <1>7, <1>8, RemoveElements
<1>10. ASSUME NEW k \in Listeners
       PROVE  BeforeInbox(old, k)' + Len(inbox'[k]) + more[k] <= sent'[k]
  <2>1. BeforeInbox(old, k) + Len(inbox[k]) + gone[k] <= sent[k]
    BY DEF AllAccounted
  <2>2. /\ gone[k] \in Nat /\ more[k] \in Nat /\ BeforeInbox(old, k) \in Int
        /\ Len(inbox[k]) \in Nat /\ sent[k] \in Nat
    BY <1>2
  <2>3. BeforeInbox(old, k)' = BeforeInbox(old, k) /\ sent'[k] = sent[k]
    BY <1>3, <1>5
  <2>4. CASE k = l
    <3>1. Len(inbox'[k]) = Len(inbox[k]) - 1 /\ more[k] <= gone[k] + 1
      BY <1>9, <2>4
    <3>2. \A a, b, c, d, e \in Int : a + b + c <= e /\ d <= c + 1 => a + (b - 1) + d <= e
      OBVIOUS
    <3>3. /\ BeforeInbox(old, k) \in Int /\ Len(inbox[k]) \in Int /\ gone[k] \in Int
          /\ more[k] \in Int /\ sent[k] \in Int
      BY <2>2
    <3>4. BeforeInbox(old, k) + (Len(inbox[k]) - 1) + more[k] <= sent[k]
      BY <2>1, <3>1, <3>2, <3>3
    <3> QED
      BY <2>3, <3>1, <3>4
  <2>5. CASE k # l
    <3>1. Len(inbox'[k]) = Len(inbox[k]) /\ more[k] <= gone[k]
      BY <1>8, <2>5
    <3> QED
      BY <2>1, <2>2, <2>3, <3>1
  <2> QED
    BY <2>4, <2>5
<1>11. Ranked(inbox[l], BeforeInbox(old, l), HalfOf)'
  <2>1. Ranked(inbox[l], BeforeInbox(old, l), HalfOf)
    BY DEF Recent
  <2>2. Ranked(RemoveAt(inbox[l], i), BeforeInbox(old, l), HalfOf')
    <3>1. BeforeInbox(old, l) <= BeforeInbox(old, l)
      BY <1>2
    <3> QED
      BY <1>2, <1>4, <1>7, <2>1, <3>1, RankedRemove
  <2> QED
    BY <1>5, <1>8, <2>2
<1>12. /\ Ranked(received, Done(old), PairOf)' /\ Ranked(answers, BeforeAnswers(old), PairOf)'
       /\ Ranked(results, BeforeResults(old), PairOf)'
       /\ \A k \in Listeners : Ranked(halves[k], BeforeHalves(old), HalfOf)'
       /\ \A k \in Listeners \ {l} : Ranked(inbox[k], BeforeInbox(old, k), HalfOf)'
  <2>1. /\ Done(old)' <= Done(old) /\ BeforeAnswers(old)' <= BeforeAnswers(old)
        /\ BeforeResults(old)' <= BeforeResults(old) /\ BeforeHalves(old)' <= BeforeHalves(old)
        /\ \A k \in Listeners : BeforeInbox(old, k)' <= BeforeInbox(old, k)
    BY <1>2, <1>5
  <2> QED
    BY <1>1, <1>3, <1>4, <1>8, <2>1, Unmoved
<1>13. (got # NULL /\ ~calling => got \in PairOf[Done(old)])'
  BY <1>3, <1>5 DEF Recent, PairOf
<1>14. \A k \in Listeners : Ranked(inbox[k], BeforeInbox(old, k), HalfOf)'
  BY <1>11, <1>12
<1>15. AllAccounted(old, more)'
  BY <1>10 DEF AllAccounted
<1> QED
  BY <1>12, <1>13, <1>14, <1>15 DEF Recent

\* A lost answer leaves a place at the end of both ports' queues.
LEMMA LoseAnswerPlaces ==
  ASSUME NEW old \in Int, NEW gone \in [Listeners -> Nat], NEW more \in [Listeners -> Nat],
         \A k \in Listeners : more[k] <= gone[k] + 1,
         TypeOK, AllAccounted(old, gone), Recent(old), LoseAnswer
  PROVE  AllAccounted(old, more)' /\ Recent(old)'
<1>1. TypeOK'
  BY LoseType DEF Lose
<1>2. /\ request \in Nat /\ Done(old) \in Int /\ BeforeAnswers(old) \in Int
      /\ BeforeResults(old) \in Int /\ BeforeHalves(old) \in Int
      /\ Len(answers) \in Nat /\ Len(results) \in Nat
      /\ \A k \in Listeners : /\ BeforeInbox(old, k) \in Int /\ Len(halves[k]) \in Nat
                              /\ Len(inbox[k]) \in Nat /\ sent[k] \in Nat
  BY Numbers
<1>3. UNCHANGED <<inbox, halves, results, request, calls, calling, sent, received, got>>
  BY DEF LoseAnswer, server, client
<1>4. Later(HalfOf, HalfOf') /\ Later(PairOf, PairOf') /\ request <= request'
  BY <1>2, <1>3, LaterOf
<1>5. PICK i \in DOMAIN answers : answers' = RemoveAt(answers, i)
  BY DEF LoseAnswer
<1>6. answers \in Seq(Pairs) /\ Len(answers') = Len(answers) - 1
  BY <1>5, RemoveElements DEF TypeOK
<1>7. Done(old)' = Done(old) /\ BeforeAnswers(old)' = BeforeAnswers(old)
  BY <1>3 DEF Done, BeforeAnswers
<1>8. BeforeResults(old)' = BeforeResults(old) - 1
  BY <1>2, <1>6, <1>7 DEF BeforeResults
<1>9. BeforeHalves(old)' = BeforeHalves(old) - 1
  <2>1. BeforeHalves(old)' = BeforeResults(old)' + Len(results)
    BY <1>3 DEF BeforeHalves
  <2> QED
    BY <1>2, <1>8, <2>1 DEF BeforeHalves
<1>10. ASSUME NEW k \in Listeners
       PROVE  BeforeInbox(old, k)' = BeforeInbox(old, k) - 1
  <2>1. BeforeInbox(old, k)' = BeforeHalves(old)' + Len(halves[k]) /\ Len(halves[k]) \in Nat
    BY <1>2, <1>3 DEF BeforeInbox
  <2> QED
    <3>1. BeforeInbox(old, k) = BeforeHalves(old) + Len(halves[k])
      BY DEF BeforeInbox
    <3>2. BeforeHalves(old) \in Int
      BY <1>2
    <3>3. \A a, b \in Int : (a - 1) + b = (a + b) - 1
      OBVIOUS
    <3>4. Len(halves[k]) \in Int
      BY <2>1
    <3> QED
      BY <1>9, <2>1, <3>1, <3>2, <3>3, <3>4
<1>11. ASSUME NEW k \in Listeners
       PROVE  BeforeInbox(old, k)' + Len(inbox'[k]) + more[k] <= sent'[k]
  <2>1. BeforeInbox(old, k) + Len(inbox[k]) + gone[k] <= sent[k]
    BY DEF AllAccounted
  <2>2. /\ gone[k] \in Nat /\ more[k] \in Nat /\ BeforeInbox(old, k) \in Int
        /\ Len(inbox[k]) \in Nat /\ sent[k] \in Nat
    BY <1>2
  <2> DEFINE b == BeforeInbox(old, k)
             n == Len(inbox[k])
             g == gone[k]
             m == more[k]
  <2>3. inbox' = inbox /\ sent' = sent /\ m <= g + 1
    BY <1>3
  <2>4. b + n + g <= sent[k] /\ b \in Int /\ n \in Int /\ g \in Int /\ m \in Int
        /\ sent[k] \in Int
    BY <2>1, <2>2
  <2>5. (b - 1) + n + m <= sent[k]
    <3> HIDE DEF b, n, g, m
    <3> QED
      BY <2>3, <2>4
  <2> QED
    BY <1>10, <2>3, <2>5
<1>12. Ranked(answers, BeforeAnswers(old), PairOf)'
  <2>1. Ranked(answers, BeforeAnswers(old), PairOf)
    BY DEF Recent
  <2>2. Ranked(RemoveAt(answers, i), BeforeAnswers(old), PairOf')
    <3>1. BeforeAnswers(old) <= BeforeAnswers(old)
      BY <1>2
    <3> QED
      BY <1>2, <1>4, <1>6, <2>1, <3>1, RankedRemove
  <2> QED
    BY <1>5, <1>7, <2>2
<1>13. /\ Ranked(received, Done(old), PairOf)' /\ Ranked(results, BeforeResults(old), PairOf)'
       /\ \A k \in Listeners : /\ Ranked(halves[k], BeforeHalves(old), HalfOf)'
                               /\ Ranked(inbox[k], BeforeInbox(old, k), HalfOf)'
  <2>1. /\ Done(old)' <= Done(old)
        /\ BeforeResults(old)' <= BeforeResults(old) /\ BeforeHalves(old)' <= BeforeHalves(old)
        /\ \A k \in Listeners : BeforeInbox(old, k)' <= BeforeInbox(old, k)
    BY <1>2, <1>7, <1>8, <1>9, <1>10
  <2> QED
    BY <1>1, <1>3, <1>4, <2>1, Unmoved
<1>14. (got # NULL /\ ~calling => got \in PairOf[Done(old)])'
  BY <1>3, <1>7 DEF Recent, PairOf
<1>15. AllAccounted(old, more)'
  BY <1>11 DEF AllAccounted
<1> QED
  BY <1>12, <1>13, <1>14, <1>15 DEF Recent

-----------------------------------------------------------------------------
(* Exchange: halves stay together while none is lost.                      *)

LEMMA ConcatAppend ==
  ASSUME NEW T, NEW s \in Seq(T), NEW t \in Seq(T), NEW x \in T
  PROVE  s \o Append(t, x) = Append(s \o t, x)
OBVIOUS

LEMMA ConcatHead ==
  ASSUME NEW T, NEW s \in Seq(T), NEW t \in Seq(T), t # <<>>
  PROVE  Append(s, Head(t)) \o Tail(t) = s \o t
OBVIOUS

LEMMA ConcatTail ==
  ASSUME NEW T, NEW s \in Seq(T), NEW t \in Seq(T), s # <<>>
  PROVE  /\ Tail(s) \o t = Tail(s \o t)
         /\ Head(s \o t) = Head(s) /\ s \o t # <<>>
<1>1. Tail(s) \o t = Tail(s \o t)
  OBVIOUS
<1>2. Head(s \o t) = Head(s) /\ s \o t # <<>>
  OBVIOUS
<1> QED
  BY <1>1, <1>2

LEMMA AppendTail ==
  ASSUME NEW T, NEW s \in Seq(T), NEW x \in T, s # <<>>
  PROVE  Tail(Append(s, x)) = Append(Tail(s), x) /\ Head(Append(s, x)) = Head(s)
OBVIOUS

LEMMA ServerKeepsTogether ==
  ASSUME NEW between, TypeOK, Together(between), ServerNext
  PROVE  Together(between)'
<1> USE DEF sockets, server, client
<1>1. \A l \in Listeners : /\ halves[l] \in Seq(Int) /\ inbox[l] \in Seq(Int)
                           /\ Waiting(l) \in Seq(Int)
  BY DEF TypeOK, Waiting
<1>2. sent' = sent
  BY DEF ServerNext, Take, Compute, Answer
<1>3. sent[LISTENER_FIRST] \in Int
  BY DEF TypeOK, Listeners
<1>4. LISTENER_FIRST \in Listeners /\ LISTENER_SECOND \in Listeners
  BY DEF Listeners
<1>5. ASSUME \A l \in Listeners : Waiting(l)' = Waiting(l),
             \A i \in DOMAIN results' : Whole(results'[i])
      PROVE  Together(between)'
  BY <1>2, <1>4, <1>5 DEF Together
<1>6. ASSUME NEW l \in Listeners, Take(l)
      PROVE  Together(between)'
  <2>1. /\ inbox[l] # <<>>
        /\ halves'[l] = Append(halves[l], Head(inbox[l])) /\ inbox'[l] = Tail(inbox[l])
        /\ \A k \in Listeners \ {l} : halves'[k] = halves[k] /\ inbox'[k] = inbox[k]
    BY <1>6 DEF TypeOK, Take, Socket
  <2>2. Waiting(l)' = Waiting(l)
    <3>1. halves[l] \in Seq(Int) /\ inbox[l] \in Seq(Int) /\ inbox[l] # <<>>
      BY <1>1, <2>1
    <3> QED
      BY <2>1, <3>1, ConcatHead DEF Waiting
  <2>3. \A k \in Listeners : Waiting(k)' = Waiting(k)
    BY <2>1, <2>2 DEF Waiting
  <2>4. results' = results
    BY <1>6 DEF Take
  <2> QED
    BY <1>5, <2>3, <2>4 DEF Together
<1>7. ASSUME Compute
      PROVE  Together(between)'
  <2>1. \A l \in Listeners : halves[l] # <<>> /\ halves'[l] = Tail(halves[l])
                             /\ inbox'[l] = inbox[l]
    BY <1>7 DEF Compute
  <2>2. ASSUME NEW l \in Listeners
        PROVE  /\ Waiting(l)' = Tail(Waiting(l)) /\ Head(halves[l]) = Head(Waiting(l))
               /\ Waiting(l) # <<>>
    <3>1. halves[l] \in Seq(Int) /\ inbox[l] \in Seq(Int) /\ halves[l] # <<>>
      BY <1>1, <2>1
    <3> QED
      BY <2>1, <3>1, ConcatTail DEF Waiting
  <2> DEFINE first == Waiting(LISTENER_FIRST)
             second == Waiting(LISTENER_SECOND)
             x == sent[LISTENER_FIRST]
             result == [l \in Listeners |-> Head(halves[l])]
  <2>3. first = (IF between THEN Append(second, x) ELSE second)
    BY DEF Together
  <2>4. /\ first \in Seq(Int) /\ second \in Seq(Int) /\ first # <<>> /\ second # <<>> /\ x \in Int
        /\ first' = Tail(first) /\ second' = Tail(second) /\ x' = x
    BY <1>1, <1>2, <1>3, <1>4, <2>2
  <2>5. first' = (IF between THEN Append(second', x') ELSE second') /\ Head(first) = Head(second)
    <3> HIDE DEF first, second, x
    <3> QED
      BY <2>3, <2>4, AppendTail
  <2>6. Whole(result)
    BY <1>4, <2>2, <2>5 DEF Whole
  <2> HIDE DEF result
  <2>7. results \in Seq(Pairs) /\ (results' = Append(results, result) \/ results' = <<result, result>>)
    BY <1>7 DEF Compute, TypeOK, result
  <2>8. \A i \in DOMAIN results' : Whole(results'[i])
    BY <2>6, <2>7 DEF Together
  <2> QED
    BY <2>5, <2>8 DEF Together
<1>8. ASSUME Answer
      PROVE  Together(between)'
  <2>1. results \in Seq(Pairs) /\ results # <<>> /\ results' = Tail(results)
        /\ halves' = halves /\ inbox' = inbox
    BY <1>8 DEF Answer, TypeOK
  <2>2. \A i \in DOMAIN results' : results'[i] = results[i + 1] /\ i + 1 \in DOMAIN results
    BY <2>1
  <2>3. \A i \in DOMAIN results' : Whole(results'[i])
    BY <2>2 DEF Together
  <2> QED
    BY <1>5, <2>1, <2>3 DEF Waiting
<1> QED
  BY <1>6, <1>7, <1>8 DEF ServerNext

LEMMA ClientKeepsTogether ==
  ASSUME TypeOK, Together(Between), ClientNext
  PROVE  Together(Between)'
<1> USE DEF sockets, server, client
<1>1. ASSUME UNCHANGED <<inbox, halves, results, sent>>
      PROVE  Together(Between)'
  BY <1>1 DEF Together, Between, Waiting
<1>2. ASSUME NEW l \in Listeners, Send(l)
      PROVE  Together(Between)'
  <2>1. /\ sent \in [Listeners -> Nat] /\ inbox \in [Listeners -> Seq(Int)]
        /\ halves \in [Listeners -> Seq(Int)]
    BY DEF TypeOK
  <2>2. /\ sent'[l] = sent[l] + 1 /\ inbox'[l] = Append(inbox[l], sent[l] + 1)
        /\ \A k \in Listeners \ {l} : inbox'[k] = inbox[k] /\ sent'[k] = sent[k]
        /\ halves' = halves /\ results' = results
    BY <1>2, <2>1 DEF Send
  <2>3. Waiting(l)' = Append(Waiting(l), sent'[l])
    <3> DEFINE x == sent'[l]
    <3>1. halves[l] \in Seq(Int) /\ inbox[l] \in Seq(Int) /\ x \in Int
          /\ inbox'[l] = Append(inbox[l], x)
      BY <2>1, <2>2
    <3> HIDE DEF x
    <3>2. halves[l] \o Append(inbox[l], x) = Append(halves[l] \o inbox[l], x)
      <4>1. \A s, t \in Seq(Int) : \A y \in Int : s \o Append(t, y) = Append(s \o t, y)
        BY ConcatAppend
      <4> QED
        BY <3>1, <4>1, Zenon
    <3>3. Waiting(l)' = Append(Waiting(l), x)
      BY <2>2, <3>1, <3>2 DEF Waiting
    <3> QED
      BY <3>3 DEF x
  <2>4. \A k \in Listeners \ {l} : Waiting(k)' = Waiting(k)
    BY <2>2 DEF Waiting
  <2>5. \A i \in DOMAIN results' : Whole(results'[i])
    BY <2>2 DEF Together
  <2>6. LISTENER_FIRST # LISTENER_SECOND /\ LISTENER_FIRST \in Listeners
        /\ LISTENER_SECOND \in Listeners
    BY DEF LISTENER_FIRST, LISTENER_SECOND, Listeners
  <2>7. CASE l = LISTENER_FIRST
    <3>1. sent[LISTENER_FIRST] = sent[LISTENER_SECOND]
      BY <1>2, <2>7 DEF Send
    <3>2. Waiting(LISTENER_FIRST) = Waiting(LISTENER_SECOND)
      BY <3>1 DEF Together, Between
    <3>3. Between' /\ Waiting(LISTENER_SECOND)' = Waiting(LISTENER_SECOND)
      BY <2>1, <2>2, <2>4, <2>6, <2>7, <3>1 DEF Between
    <3> QED
      BY <2>3, <2>5, <2>7, <3>2, <3>3 DEF Together
  <2>8. CASE l = LISTENER_SECOND
    <3>1. sent[LISTENER_FIRST] = sent[LISTENER_SECOND] + 1
      BY <1>2, <2>6, <2>8 DEF Send
    <3>2. Waiting(LISTENER_FIRST) = Append(Waiting(LISTENER_SECOND), sent[LISTENER_FIRST])
      BY <2>1, <2>6, <3>1 DEF Together, Between
    <3>3. ~Between' /\ Waiting(LISTENER_FIRST)' = Waiting(LISTENER_FIRST)
          /\ sent'[LISTENER_SECOND] = sent[LISTENER_FIRST]
      BY <2>1, <2>2, <2>4, <2>6, <2>8, <3>1 DEF Between
    <3> QED
      BY <2>3, <2>5, <2>8, <3>2, <3>3 DEF Together
  <2> QED
    BY <2>7, <2>8 DEF Listeners
<1> QED
  BY <1>1, <1>2 DEF ClientNext, Call, Receive, Return, Stop

-----------------------------------------------------------------------------
(* Session: the types, and how far the runs have counted.                  *)

LEMMA OneRunMore ==
  ASSUME NEW n \in Int, NEW m \in Int
  PROVE  n * (m + 1) = n * m + n
OBVIOUS

LEMMA RunsBounded ==
  ASSUME NEW n \in Nat, NEW i \in Int, NEW k \in Int, i <= k
  PROVE  n * i <= n * k
<1>1. k - i \in Nat /\ n * k = n * i + n * (k - i) /\ n * (k - i) \in Nat
  OBVIOUS
<1>2. n * i \in Int
  OBVIOUS
<1> QED
  BY <1>1, <1>2

LEMMA NothingToServe ==
  ASSUME Init
  PROVE  ~ServerNext
<1>1. \A l \in Listeners : inbox[l] = <<>> /\ halves[l] = <<>>
  BY DEF Init, ServerInit
<1>2. results = <<>> /\ LISTENER_FIRST \in Listeners
  BY DEF Init, ServerInit, Listeners
<1> QED
  BY <1>1, <1>2 DEF ServerNext, Take, Compute, Answer, Socket

LEMMA UntouchedStep ==
  ASSUME SessionTypeOK, Untouched, [SessionNext]_SessionVars
  PROVE  Untouched'
<1> USE DEF vars, sockets, server, client
<1>1. clients \in Nat
  BY SessionAssumption DEF SessionTypeOK
<1>2. CASE StartClient
  BY <1>1, <1>2 DEF StartClient, Untouched
<1>3. CASE ~StartClient /\ clients' # 0
  BY <1>3 DEF Untouched
<1>4. CASE ~StartClient /\ clients' = 0
  <2>1. clients = 0
    BY <1>4 DEF SessionNext, BindFirst, BindSecond, EndServer, EndClient, ServerRuns,
                ClientRuns, SessionVars, session
  <2>2. Init /\ ~alive
    BY <2>1 DEF Untouched
  <2>3. BindFirst \/ BindSecond \/ EndServer \/ UNCHANGED SessionVars
    BY <1>4, <2>2, NothingToServe DEF SessionNext, EndClient, ServerRuns, ClientRuns
  <2>4. inbox' = inbox /\ halves' = halves /\ results' = results
    <3>1. /\ inbox = [l \in Listeners |-> <<>>] /\ halves = [l \in Listeners |-> <<>>]
          /\ results = <<>>
      BY <2>2 DEF Init, ServerInit
    <3> QED
      BY <2>3, <3>1 DEF BindFirst, BindSecond, NoHalves, EndServer, SessionVars
  <2>5. UNCHANGED <<answers, request, calls, calling, sent, received, got, alive>>
    BY <2>3 DEF BindFirst, BindSecond, EndServer, SessionVars, session
  <2> QED
    BY <2>2, <2>4, <2>5 DEF Untouched, Init, ServerInit, ClientInit
<1> QED
  BY <1>2, <1>3, <1>4

LEMMA RequestsCountedStep ==
  ASSUME SessionTypeOK, Untouched, RequestsCounted, [SessionNext]_SessionVars
  PROVE  RequestsCounted'
<1> USE DEF vars, sockets, server, client
<1>1. /\ clients \in Nat /\ calls \in Nat /\ calls <= Calls /\ Calls \in Nat /\ request \in Nat
      /\ clients <= MaxClients /\ MaxClients \in Nat
  BY SessionAssumption, ExchangeAssumption DEF SessionTypeOK, TypeOK
<1>2. CASE StartClient
  <2>1. clients' = clients + 1 /\ calls' = 0
    BY <1>2 DEF StartClient
  <2>2. CASE clients = 0
    <3>1. request' = 1 /\ (Calls + 1) * (clients' - 1) = 0
      BY <1>1, <1>2, <2>1, <2>2 DEF StartClient, FirstRequest
    <3> QED
      BY <2>1, <3>1 DEF RequestsCounted
  <2>3. CASE clients > 0
    <3>1. request' = request + 1 /\ request <= (Calls + 1) * (clients - 1) + calls + 1
      BY <1>2, <2>3 DEF StartClient, FirstRequest, RequestsCounted
    <3>2. (Calls + 1) * (clients' - 1) = (Calls + 1) * (clients - 1) + (Calls + 1)
      <4>1. Calls + 1 \in Int /\ clients - 1 \in Int /\ clients' - 1 = (clients - 1) + 1
        BY <1>1, <2>1
      <4> QED
        BY <4>1, OneRunMore
    <3>3. (Calls + 1) * (clients - 1) \in Int
      BY <1>1
    <3> QED
      BY <1>1, <2>1, <3>1, <3>2, <3>3 DEF RequestsCounted
  <2> QED
    BY <1>1, <2>2, <2>3
<1>3. CASE ~StartClient
  <2>1. clients' = clients
    BY <1>3 DEF SessionNext, BindFirst, BindSecond, EndServer, EndClient, ServerRuns,
                ClientRuns, SessionVars, session
  <2>2. (request' = request /\ calls' = calls) \/ (request' = request + 1 /\ calls' = calls + 1)
    BY <1>3 DEF SessionNext, BindFirst, BindSecond, EndServer, EndClient, ServerRuns,
                ClientRuns, SessionVars, ClientNext, Call, Send, Receive, Return, Stop,
                ServerNext, Take, Compute, Answer
  <2>3. (Calls + 1) * (clients - 1) \in Int
    BY <1>1
  <2> QED
    BY <1>1, <2>1, <2>2, <2>3 DEF RequestsCounted
<1> QED
  BY <1>2, <1>3

LEMMA SessionType ==
  ASSUME SessionTypeOK, Untouched, RequestsCounted, [SessionNext]_SessionVars
  PROVE  SessionTypeOK'
<1> USE DEF vars, sockets, server, client
<1>1. TypeOK
  BY DEF SessionTypeOK
<1>2. TypeOK'
  <2>1. CASE BindFirst
    <3>1. /\ inbox' \in [Listeners -> Seq(Int)] /\ halves' \in [Listeners -> Seq(Int)]
          /\ results' \in Seq(Pairs) /\ Len(results') <= 2
      <4>1. inbox \in [Listeners -> Seq(Int)] /\ <<>> \in Seq(Int)
        BY <1>1 DEF TypeOK
      <4>2. inbox' = [inbox EXCEPT ![LISTENER_FIRST] = <<>>]
        BY <2>1 DEF BindFirst
      <4>3. halves' = [l \in Listeners |-> <<>>] /\ results' = <<>>
        BY <2>1 DEF BindFirst
      <4>4. inbox' \in [Listeners -> Seq(Int)] /\ halves' \in [Listeners -> Seq(Int)]
        BY <4>1, <4>2, <4>3
      <4> QED
        BY <4>3, <4>4
    <3>2. \A l \in Listeners : Len(halves'[l]) <= 3
      BY <2>1 DEF BindFirst
    <3> QED
      BY <1>1, <2>1, <3>1, <3>2 DEF TypeOK, BindFirst
  <2>2. CASE BindSecond
    <3>1. inbox' \in [Listeners -> Seq(Int)]
      <4>1. inbox \in [Listeners -> Seq(Int)] /\ <<>> \in Seq(Int)
        BY <1>1 DEF TypeOK
      <4>2. inbox' = [inbox EXCEPT ![LISTENER_SECOND] = <<>>]
        BY <2>2 DEF BindSecond, NoHalves
      <4> QED
        BY <4>1, <4>2
    <3> QED
      BY <1>1, <2>2, <3>1 DEF TypeOK, BindSecond
  <2>3. CASE StartClient
    <3>1. FirstRequest \in Nat \ {0}
      BY <1>1 DEF TypeOK, FirstRequest
    <3>2. /\ request' \in Nat \ {0} /\ calls' \in 0 .. Calls /\ calling' \in BOOLEAN
          /\ got' \in Pairs \cup {NULL}
      <4>1. request' = FirstRequest /\ calls' = 0 /\ calling' = FALSE /\ got' = NULL
        BY <2>3 DEF StartClient
      <4>2. calls' \in 0 .. Calls
        BY <4>1, ExchangeAssumption
      <4> QED
        BY <3>1, <4>1, <4>2, Zenon
    <3>3. received' \in Seq(Pairs) /\ Len(received') <= 2 /\ answers' \in Seq(Pairs)
      BY <2>3 DEF StartClient, NoAnswers
    <3>4. /\ sent' \in [Listeners -> Nat]
          /\ sent'[LISTENER_FIRST] \in {sent'[LISTENER_SECOND], sent'[LISTENER_SECOND] + 1}
          /\ sent'[LISTENER_FIRST] <= request'
      BY <2>3, <3>1 DEF StartClient, Listeners
    <3> QED
      BY <1>1, <2>3, <3>2, <3>3, <3>4 DEF TypeOK, StartClient
  <2>4. CASE ServerRuns(ServerNext)
    BY <1>1, <2>4, ServerType DEF ServerRuns
  <2>5. CASE ClientRuns(ClientNext)
    BY <1>1, <2>5, ClientType DEF ClientRuns
  <2>6. CASE EndServer \/ EndClient \/ UNCHANGED SessionVars
    BY <1>1, <2>6 DEF TypeOK, EndServer, EndClient, SessionVars
  <2> QED
    BY <2>1, <2>2, <2>3, <2>4, <2>5, <2>6 DEF SessionNext
<1>3. /\ phase' \in {"down", "first_bound", "up"}
      /\ alive' \in BOOLEAN /\ served' \in BOOLEAN /\ whole' \in BOOLEAN
  BY DEF SessionTypeOK, SessionNext, BindFirst, BindSecond, EndServer, StartClient, EndClient,
         ServerRuns, ClientRuns, SessionVars, session
<1>4. servers' \in 0 .. MaxServers /\ clients' \in 0 .. MaxClients
  BY SessionAssumption
     DEF SessionTypeOK, SessionNext, BindFirst, BindSecond, EndServer, StartClient, EndClient,
         ServerRuns, ClientRuns, SessionVars, session
<1>5. request' <= (Calls + 1) * MaxClients
  <2>1. /\ Untouched' /\ RequestsCounted' /\ Calls \in Nat /\ MaxClients \in Nat \ {0}
        /\ clients' \in Nat /\ clients' <= MaxClients /\ calls' \in Nat /\ calls' <= Calls
        /\ request' \in Nat
    BY <1>2, <1>4, UntouchedStep, RequestsCountedStep, SessionAssumption, ExchangeAssumption
       DEF TypeOK
  <2>2. CASE clients' = 0
    <3>1. request' = 1
      BY <2>1, <2>2 DEF Untouched, Init, ClientInit
    <3>2. (Calls + 1) * 1 <= (Calls + 1) * MaxClients /\ (Calls + 1) * MaxClients \in Int
      BY <2>1, RunsBounded
    <3> QED
      BY <2>1, <3>1, <3>2
  <2>3. CASE clients' > 0
    <3>1. request' <= (Calls + 1) * (clients' - 1) + calls' + 1
      BY <2>1, <2>3 DEF RequestsCounted
    <3>2. (Calls + 1) * (clients' - 1) + (Calls + 1) = (Calls + 1) * clients'
      <4>1. \A n, m \in Nat : m > 0 => (n + 1) * (m - 1) + (n + 1) = (n + 1) * m
        <5> SUFFICES ASSUME NEW n \in Nat, NEW m \in Nat
                     PROVE  (n + 1) * (m - 1) + (n + 1) = (n + 1) * m
          OBVIOUS
        <5>1. n + 1 \in Int /\ m - 1 \in Int /\ m = (m - 1) + 1
          OBVIOUS
        <5> QED
          BY <5>1, OneRunMore
      <4> QED
        BY <2>1, <2>3, <4>1
    <3>3. /\ (Calls + 1) * clients' <= (Calls + 1) * MaxClients
          /\ (Calls + 1) * clients' \in Int /\ (Calls + 1) * (clients' - 1) \in Int
          /\ (Calls + 1) * MaxClients \in Int
      <4>1. \A n, i, k \in Nat : i <= k => /\ (n + 1) * i <= (n + 1) * k
                                           /\ (n + 1) * i \in Int /\ (n + 1) * (i - 1) \in Int
                                           /\ (n + 1) * k \in Int
        BY RunsBounded
      <4> QED
        BY <2>1, <4>1
    <3>4. \A r, p, q, m, c, n \in Int :
            r <= p + c + 1 /\ p + (n + 1) = q /\ q <= m /\ c <= n => r <= m
      OBVIOUS
    <3>5. request' \in Int /\ calls' \in Int /\ Calls \in Int /\ calls' <= Calls
      BY <2>1
    <3> QED
      BY <3>1, <3>2, <3>3, <3>4, <3>5
  <2> QED
    BY <2>1, <2>2, <2>3
<1> QED
  BY <1>2, <1>3, <1>4, <1>5 DEF SessionTypeOK

-----------------------------------------------------------------------------
(* Session: the places through the starts and ends of the processes.       *)

Nobody == [l \in Listeners |-> 0]

\* Queues that a step empties or leaves alone keep their order.
LEMMA EmptiedPlaces ==
  ASSUME NEW old \in Int, NEW new \in Int, TypeOK, TypeOK', Recent(old), request <= request',
         Done(new)' <= Done(old),
         received' \in {received, <<>>}, answers' \in {answers, <<>>},
         results' \in {results, <<>>},
         \A l \in Listeners : halves'[l] \in {halves[l], <<>>} /\ inbox'[l] \in {inbox[l], <<>>},
         (got # NULL /\ ~calling => got \in PairOf[Done(new)])'
  PROVE  Recent(new)'
<1>1. /\ request \in Int /\ Done(old) \in Int /\ BeforeAnswers(old) \in Int
      /\ BeforeResults(old) \in Int /\ BeforeHalves(old) \in Int
      /\ Len(received) \in Nat /\ Len(answers) \in Nat /\ Len(results) \in Nat
      /\ \A l \in Listeners : BeforeInbox(old, l) \in Int /\ Len(halves[l]) \in Nat
  BY Numbers
<1>2. Done(new)' \in Int
  <2>1. request' \in Int
    BY DEF TypeOK
  <2> QED
    BY <2>1 DEF Done
<1>3. Len(received') \in 0 .. Len(received) /\ Len(answers') \in 0 .. Len(answers)
      /\ Len(results') \in 0 .. Len(results)
  BY <1>1
<1>4. ASSUME NEW l \in Listeners
      PROVE  Len(halves'[l]) \in 0 .. Len(halves[l])
  BY <1>1
<1>5. BeforeAnswers(new)' \in Int /\ BeforeAnswers(new)' <= BeforeAnswers(old)
  BY <1>1, <1>2, <1>3 DEF BeforeAnswers
<1>6. BeforeResults(new)' \in Int /\ BeforeResults(new)' <= BeforeResults(old)
  <2>1. BeforeResults(new)' = BeforeAnswers(new)' + Len(answers')
    BY DEF BeforeResults
  <2>2. BeforeResults(old) = BeforeAnswers(old) + Len(answers)
    BY DEF BeforeResults
  <2> QED
    BY <1>1, <1>3, <1>5, <2>1, <2>2
<1>7. BeforeHalves(new)' \in Int /\ BeforeHalves(new)' <= BeforeHalves(old)
  <2>1. BeforeHalves(new)' = BeforeResults(new)' + Len(results')
    BY DEF BeforeHalves
  <2>2. BeforeHalves(old) = BeforeResults(old) + Len(results)
    BY DEF BeforeHalves
  <2> QED
    BY <1>1, <1>3, <1>6, <2>1, <2>2
<1>8. ASSUME NEW l \in Listeners
      PROVE  BeforeInbox(new, l)' \in Int /\ BeforeInbox(new, l)' <= BeforeInbox(old, l)
  <2>1. BeforeInbox(new, l)' = BeforeHalves(new)' + Len(halves'[l])
    BY DEF BeforeInbox
  <2>2. BeforeInbox(old, l) = BeforeHalves(old) + Len(halves[l])
    BY DEF BeforeInbox
  <2>3. Len(halves'[l]) \in Int /\ Len(halves[l]) \in Int /\ Len(halves'[l]) <= Len(halves[l])
    BY <1>1, <1>4
  <2>4. BeforeHalves(old) \in Int
    BY <1>1
  <2>5. \A a, b, m, n \in Int : a <= b /\ m <= n => a + m \in Int /\ a + m <= b + n
    OBVIOUS
  <2> QED
    BY <1>7, <2>1, <2>2, <2>3, <2>4, <2>5
<1>9. \A b, of : Ranked(<<>>, b, of)
  BY DEF Ranked
<1>10. Ranked(received, Done(new), PairOf)'
  BY <1>9, Unmoved
<1>11. Ranked(answers, BeforeAnswers(new), PairOf)'
  BY <1>5, <1>9, Unmoved
<1>12. Ranked(results, BeforeResults(new), PairOf)'
  BY <1>6, <1>9, Unmoved
<1>13. ASSUME NEW l \in Listeners
       PROVE  /\ Ranked(halves[l], BeforeHalves(new), HalfOf)'
              /\ Ranked(inbox[l], BeforeInbox(new, l), HalfOf)'
  BY <1>7, <1>8, <1>9, Unmoved
<1> QED
  BY <1>10, <1>11, <1>12, <1>13 DEF Recent

\* The same for a server that is started or ends, and when the client ends.
LEMMA ServerStartPlaces ==
  ASSUME NEW old \in Int, TypeOK, TypeOK', AllAccounted(old, Nobody), Recent(old),
         UNCHANGED <<answers, client>>, results' \in {results, <<>>},
         \A l \in Listeners : halves'[l] \in {halves[l], <<>>} /\ inbox'[l] \in {inbox[l], <<>>}
  PROVE  AllAccounted(old, Nobody)' /\ Recent(old)'
<1>1. /\ request \in Int /\ Done(old) \in Int /\ BeforeAnswers(old) \in Int
      /\ BeforeResults(old) \in Int /\ BeforeHalves(old) \in Int /\ Len(results) \in Nat
      /\ \A l \in Listeners : /\ BeforeInbox(old, l) \in Int /\ Len(halves[l]) \in Nat
                              /\ Len(inbox[l]) \in Nat /\ sent[l] \in Nat
  BY Numbers
<1>2. UNCHANGED <<answers, request, calls, calling, sent, received, got>>
  BY DEF client
<1>3. Done(old)' = Done(old) /\ BeforeResults(old)' = BeforeResults(old)
  BY <1>2 DEF Done, BeforeAnswers, BeforeResults
<1>4. (got # NULL /\ ~calling => got \in PairOf[Done(old)])'
  BY <1>2, <1>3 DEF Recent, PairOf
<1>5. Recent(old)'
  <2>1. /\ request <= request' /\ Done(old)' <= Done(old)
        /\ received' \in {received, <<>>} /\ answers' \in {answers, <<>>}
    BY <1>1, <1>2, <1>3
  <2> QED
    BY <1>4, <2>1, EmptiedPlaces
<1>6. ASSUME NEW l \in Listeners
      PROVE  BeforeInbox(old, l)' + Len(inbox'[l]) + Nobody[l] <= sent'[l]
  <2>1. BeforeInbox(old, l) + Len(inbox[l]) + Nobody[l] <= sent[l]
    BY DEF AllAccounted
  <2>2. /\ BeforeInbox(old, l) = BeforeResults(old) + Len(results) + Len(halves[l])
        /\ BeforeInbox(old, l)' = BeforeResults(old) + Len(results') + Len(halves'[l])
    BY <1>3 DEF BeforeInbox, BeforeHalves
  <2>3. /\ Len(results') \in Nat /\ Len(results') <= Len(results)
        /\ Len(halves'[l]) \in Nat /\ Len(halves'[l]) <= Len(halves[l])
        /\ Len(inbox'[l]) \in Nat /\ Len(inbox'[l]) <= Len(inbox[l])
    BY <1>1
  <2>4. Nobody[l] = 0 /\ sent'[l] = sent[l]
    BY <1>2 DEF Nobody
  <2> DEFINE r == Len(results)
             h == Len(halves[l])
             i == Len(inbox[l])
             r2 == Len(results')
             h2 == Len(halves'[l])
             i2 == Len(inbox'[l])
  <2>5. /\ BeforeResults(old) \in Int /\ r \in Int /\ h \in Int /\ i \in Int
        /\ r2 \in Int /\ h2 \in Int /\ i2 \in Int /\ sent[l] \in Int
        /\ r2 <= r /\ h2 <= h /\ i2 <= i
    BY <1>1, <2>3
  <2>6. BeforeResults(old) + r + h + i + 0 <= sent[l]
    BY <2>1, <2>2, <2>4
  <2>7. BeforeResults(old) + r2 + h2 + i2 + 0 <= sent[l]
    <3> HIDE DEF r, h, i, r2, h2, i2
    <3> QED
      BY <2>5, <2>6
  <2> QED
    BY <2>2, <2>4, <2>7
<1> QED
  BY <1>5, <1>6 DEF AllAccounted

\* A run leaves at most two requests to the runs after it.
LEMMA StartClientPlaces ==
  ASSUME SessionTypeOK, SessionTypeOK', Untouched, StartClient,
         clients > 0 => AllAccounted(OldRequests, Nobody) /\ Recent(OldRequests)
  PROVE  (AllAccounted(OldRequests, Nobody) /\ Recent(OldRequests))'
<1> USE DEF sockets, server, client
<1>1. TypeOK /\ TypeOK' /\ clients \in Nat /\ clients' = clients + 1
  BY SessionAssumption DEF SessionTypeOK, StartClient
<1>2. /\ UNCHANGED <<inbox, halves, results>>
      /\ answers' = <<>> /\ received' = <<>> /\ calling' = FALSE /\ got' = NULL
      /\ request' = FirstRequest /\ sent' = [l \in Listeners |-> FirstRequest - 1]
  BY DEF StartClient, NoAnswers
<1>3. request \in Nat
  BY <1>1 DEF TypeOK
<1>4. CASE clients = 0
  <2>1. Init /\ request' = 1 /\ OldRequests' = 0
    BY <1>1, <1>2, <1>4 DEF Untouched, FirstRequest, OldRequests
  <2>2. /\ results' = <<>>
        /\ \A l \in Listeners : inbox'[l] = <<>> /\ halves'[l] = <<>> /\ sent'[l] = 0
    BY <1>2, <1>4, <2>1 DEF Init, ServerInit, FirstRequest
  <2>3. Done(OldRequests)' = 0
    <3>1. Done(OldRequests)' = request' - 1 - 0 - OldRequests'
      BY <1>2 DEF Done
    <3> QED
      BY <2>1, <3>1
  <2>4. /\ BeforeAnswers(OldRequests)' = 0 /\ BeforeResults(OldRequests)' = 0
        /\ BeforeHalves(OldRequests)' = 0
        /\ \A l \in Listeners : BeforeInbox(OldRequests, l)' = 0
    BY <1>2, <2>2, <2>3 DEF BeforeAnswers, BeforeResults, BeforeHalves, BeforeInbox
  <2>5. AllAccounted(OldRequests, Nobody)'
    BY <2>2, <2>4 DEF AllAccounted, Nobody
  <2>6. \A b, of : Ranked(<<>>, b, of)
    BY DEF Ranked
  <2>7. Recent(OldRequests)'
    BY <1>2, <2>2, <2>6 DEF Recent
  <2> QED
    BY <2>5, <2>7
<1>5. CASE clients > 0
  <2>1. PICK old \in Int : old = OldRequests
    BY <1>1 DEF OldRequests
  <2>2. PICK new \in Int : new = OldRequests'
    BY <1>1 DEF OldRequests
  <2>3. AllAccounted(old, Nobody) /\ Recent(old)
    BY <1>5, <2>1
  <2>4. new = old + 2
    BY <1>1, <2>1, <2>2 DEF OldRequests
  <2>5. request' = request + 1 /\ \A l \in Listeners : sent'[l] = request
    BY <1>2, <1>3, <1>5 DEF FirstRequest
  <2>6. /\ Done(old) \in Int /\ request - old - 2 <= Done(old)
        /\ Done(new)' = request - old - 2
    <3>1. Done(new)' = request' - 1 - 0 - new
      BY <1>2 DEF Done
    <3>2. Done(old) = request - 1 - 1 - old \/ Done(old) = request - 1 - 0 - old
      BY DEF Done
    <3> QED
      BY <1>3, <2>4, <2>5, <3>1, <3>2
  <2>7. Recent(new)'
    <3>1. /\ Done(new)' <= Done(old) /\ request <= request'
      BY <1>3, <2>5, <2>6
    <3>2. (got # NULL /\ ~calling => got \in PairOf[Done(new)])'
      BY <1>2
    <3>3. /\ received' \in {received, <<>>} /\ answers' \in {answers, <<>>}
          /\ results' \in {results, <<>>}
          /\ \A l \in Listeners : halves'[l] \in {halves[l], <<>>}
                                  /\ inbox'[l] \in {inbox[l], <<>>}
      BY <1>2
    <3> QED
      BY <1>1, <2>3, <3>1, <3>2, <3>3, EmptiedPlaces
  <2>8. ASSUME NEW l \in Listeners
        PROVE  BeforeInbox(new, l)' + Len(inbox'[l]) + Nobody[l] <= sent'[l]
    <3>1. BeforeInbox(old, l) + Len(inbox[l]) + Nobody[l] <= sent[l]
      BY <2>3 DEF AllAccounted
    <3> DEFINE c == Len(received)
               a == Len(answers)
               r == Len(results)
               h == Len(halves[l])
               i == Len(inbox[l])
    <3>2. BeforeInbox(old, l) = Done(old) + c + a + r + h
      BY DEF BeforeInbox, BeforeHalves, BeforeResults, BeforeAnswers
    <3>3. BeforeInbox(new, l)' = Done(new)' + 0 + 0 + r + h
      BY <1>2 DEF BeforeInbox, BeforeHalves, BeforeResults, BeforeAnswers
    <3>4. /\ c \in Nat /\ a \in Nat /\ r \in Nat /\ h \in Nat /\ i \in Nat
          /\ sent[l] \in Nat /\ sent[l] <= request
      BY <1>1, <2>1, Numbers
    <3>5. Nobody[l] = 0 /\ sent'[l] = request /\ Len(inbox'[l]) = i
      BY <1>2, <2>5 DEF Nobody
    <3>6. BeforeInbox(old, l) + i + 0 <= sent[l]
      BY <3>1, <3>5
    <3>7. BeforeInbox(new, l)' + i + 0 <= request
      <4> HIDE DEF c, a, r, h, i
      <4> QED
        BY <1>3, <2>6, <3>2, <3>3, <3>4, <3>6
    <3> QED
      BY <3>5, <3>7
  <2>9. AllAccounted(new, Nobody)'
    BY <2>8 DEF AllAccounted
  <2> QED
    BY <2>2, <2>7, <2>9 DEF Recent, AllAccounted, Done, BeforeAnswers, BeforeResults,
                            BeforeHalves, BeforeInbox
<1> QED
  BY <1>1, <1>4, <1>5

LEMMA PlacesStep ==
  ASSUME IInv, SessionTypeOK', [SessionNext]_SessionVars
  PROVE  (clients > 0 => AllAccounted(OldRequests, Nobody) /\ Recent(OldRequests))'
<1> USE DEF vars, sockets, server
<1>1. /\ SessionTypeOK /\ Untouched /\ TypeOK /\ TypeOK' /\ clients \in Nat
      /\ clients > 0 => AllAccounted(OldRequests, Nobody) /\ Recent(OldRequests)
  BY SessionAssumption DEF IInv, SessionTypeOK, Nobody
<1>2. CASE StartClient
  BY <1>1, <1>2, StartClientPlaces
<1>3. CASE ~StartClient /\ clients > 0
  <2>1. clients' = clients
    BY <1>3 DEF SessionNext, BindFirst, BindSecond, EndServer, EndClient, ServerRuns,
                ClientRuns, SessionVars, session
  <2>2. PICK old \in Int : old = OldRequests
    BY <1>1 DEF OldRequests
  <2>3. OldRequests' = old /\ AllAccounted(old, Nobody) /\ Recent(old)
    BY <1>1, <1>3, <2>1, <2>2 DEF OldRequests
  <2>4. AllAccounted(old, Nobody)' /\ Recent(old)'
    <3>1. Nobody \in [Listeners -> Nat]
      BY DEF Nobody
    <3>2. CASE ServerRuns(ServerNext)
      BY <1>1, <2>3, <3>1, <3>2, ServerPlaces DEF ServerRuns
    <3>3. CASE ClientRuns(ClientNext)
      BY <1>1, <2>3, <3>1, <3>3, ClientPlaces DEF ClientRuns
    <3>4. CASE BindFirst \/ BindSecond \/ EndServer \/ EndClient \/ UNCHANGED SessionVars
      <4>1. UNCHANGED <<answers, client>> /\ results' \in {results, <<>>}
        BY <3>4 DEF BindFirst, BindSecond, EndServer, EndClient, SessionVars
      <4>2. inbox \in [Listeners -> Seq(Int)]
        BY <1>1 DEF TypeOK
      <4>3. \A l \in Listeners : halves'[l] \in {halves[l], <<>>} /\ inbox'[l] \in {inbox[l], <<>>}
        BY <3>4, <4>2 DEF BindFirst, BindSecond, NoHalves, EndServer, EndClient, SessionVars
      <4> QED
        BY <1>1, <2>3, <4>1, <4>3, ServerStartPlaces
    <3> QED
      BY <1>3, <3>2, <3>3, <3>4 DEF SessionNext
  <2> QED
    BY <2>3, <2>4 DEF Recent, AllAccounted, Done, BeforeAnswers, BeforeResults,
                      BeforeHalves, BeforeInbox
<1>4. CASE ~StartClient /\ clients = 0
  <2>1. clients' = 0
    BY <1>4 DEF SessionNext, BindFirst, BindSecond, EndServer, EndClient, ServerRuns,
                ClientRuns, SessionVars, session
  <2> QED
    BY <2>1
<1> QED
  BY <1>1, <1>2, <1>3, <1>4

-----------------------------------------------------------------------------
(* Session: which halves meet.                                             *)

LEMMA LastHalfStep ==
  ASSUME SessionTypeOK, LastHalf, [SessionNext]_SessionVars
  PROVE  LastHalf'
<1> USE DEF vars, sockets, server, client, session
<1>1. /\ inbox \in [Listeners -> Seq(Int)] /\ sent \in [Listeners -> Nat]
      /\ LISTENER_FIRST \in Listeners /\ LISTENER_SECOND \in Listeners
      /\ LISTENER_FIRST # LISTENER_SECOND
  BY DEF SessionTypeOK, TypeOK, Listeners, LISTENER_FIRST, LISTENER_SECOND
<1> DEFINE port == inbox[LISTENER_FIRST]
<1>2. port \in Seq(Int)
  BY <1>1
<1>3. CASE port' = port /\ alive' = alive /\ sent' = sent
  BY <1>3 DEF LastHalf, BetweenHalves
<1>4. CASE port' = <<>>
  BY <1>4 DEF LastHalf
<1>5. CASE ~BetweenHalves'
  BY <1>5 DEF LastHalf
<1>6. CASE EndClient \/ StartClient
  BY <1>5, <1>6 DEF EndClient, StartClient, BetweenHalves, Listeners
<1>7. CASE ClientRuns(ClientNext)
  <2>1. CASE Call \/ Receive \/ Return \/ Stop
    BY <1>3, <1>7, <2>1 DEF ClientRuns, Call, Receive, Return, Stop
  <2>2. CASE Send(LISTENER_FIRST)
    <3>1. port' = Append(port, sent'[LISTENER_FIRST])
      BY <1>1, <2>2 DEF Send
    <3>2. sent'[LISTENER_FIRST] \in Int
      BY <1>1, <2>2 DEF Send
    <3>3. \A s \in Seq(Int) : \A y \in Int : Last(Append(s, y)) = y
      BY DEF Last
    <3> QED
      BY <1>2, <3>1, <3>2, <3>3 DEF LastHalf
  <2>3. CASE Send(LISTENER_SECOND)
    <3>1. ~BetweenHalves'
      BY <1>1, <2>3 DEF Send, BetweenHalves
    <3> QED
      BY <1>5, <3>1
  <2> QED
    BY <1>7, <2>1, <2>2, <2>3 DEF ClientRuns, ClientNext, Listeners
<1>8. CASE ServerRuns(ServerNext)
  <2>1. alive' = alive /\ sent' = sent
    BY <1>8 DEF ServerRuns, ServerNext, Take, Compute, Answer
  <2>2. CASE port' = port
    BY <1>3, <2>1, <2>2
  <2>3. CASE port # <<>> /\ port' = Tail(port)
    <3>1. \A s \in Seq(Int) : s # <<>> /\ Tail(s) # <<>> => Last(Tail(s)) = Last(s)
      BY DEF Last
    <3> QED
      BY <1>2, <2>1, <2>3, <3>1 DEF LastHalf, BetweenHalves
  <2>4. port' = port \/ (port # <<>> /\ port' = Tail(port))
    BY <1>1, <1>8 DEF ServerRuns, ServerNext, Take, Compute, Answer, Socket
  <2> QED
    BY <2>2, <2>3, <2>4
<1>9. CASE BindFirst
  BY <1>1, <1>4, <1>9 DEF BindFirst
<1>10. CASE BindSecond \/ EndServer \/ UNCHANGED SessionVars
  BY <1>1, <1>3, <1>10 DEF BindSecond, EndServer, SessionVars
<1> QED
  BY <1>6, <1>7, <1>8, <1>9, <1>10 DEF SessionNext

LEMMA TogetherStep ==
  ASSUME IInv, [SessionNext]_SessionVars
  PROVE  (phase = "up" /\ whole => Together(BetweenHalves))'
<1> USE DEF vars, sockets, server, session
<1>1. TypeOK /\ (phase = "up" /\ whole => Together(BetweenHalves))
  BY DEF IInv, SessionTypeOK
<1>2. LISTENER_FIRST \in Listeners /\ LISTENER_SECOND \in Listeners
      /\ LISTENER_FIRST # LISTENER_SECOND
  BY DEF Listeners, LISTENER_FIRST, LISTENER_SECOND
<1>3. CASE BindFirst \/ EndServer
  BY <1>3 DEF BindFirst, EndServer
<1>4. CASE BindSecond
  <2> DEFINE port == inbox[LISTENER_FIRST]
  <2>1. results = <<>> /\ \A l \in Listeners : halves[l] = <<>>
    BY <1>4 DEF BindSecond, IInv
  <2>2. /\ inbox \in [Listeners -> Seq(Int)] /\ port \in Seq(Int) /\ sent[LISTENER_FIRST] \in Int
    BY <1>1, <1>2 DEF TypeOK
  <2>3. /\ inbox'[LISTENER_SECOND] = <<>> /\ inbox'[LISTENER_FIRST] = port
        /\ UNCHANGED <<halves, results, sent, alive>>
    BY <1>2, <1>4, <2>2 DEF BindSecond, NoHalves, client
  <2>4. \A s \in Seq(Int) : <<>> \o s = s
    OBVIOUS
  <2>5. Waiting(LISTENER_FIRST)' = port /\ Waiting(LISTENER_SECOND)' = <<>>
    BY <1>2, <2>1, <2>2, <2>3, <2>4 DEF Waiting
  <2>6. \A i \in DOMAIN results' : Whole(results'[i])
    BY <2>1, <2>3
  <2>7. BetweenHalves' = BetweenHalves
    BY <2>3 DEF BetweenHalves
  <2>8. CASE BetweenHalves /\ whole'
    <3>1. Len(port) = 1
      BY <1>4, <2>8 DEF BindSecond
    <3>2. port # <<>> /\ Last(port) = port[1] /\ port = Append(<<>>, port[1])
      BY <2>2, <3>1 DEF Last
    <3>3. Last(port) = sent[LISTENER_FIRST]
      BY <2>8, <3>2 DEF IInv, LastHalf
    <3>4. port = Append(<<>>, sent[LISTENER_FIRST])
      BY <3>2, <3>3
    <3> QED
      BY <2>3, <2>5, <2>6, <2>7, <2>8, <3>4 DEF Together
  <2>9. CASE ~BetweenHalves /\ whole'
    <3>1. port = <<>>
      <4>1. Len(port) = 0
        BY <1>4, <2>9 DEF BindSecond
      <4> QED
        BY <2>2, <4>1
    <3> QED
      BY <2>5, <2>6, <2>7, <2>9, <3>1 DEF Together
  <2> QED
    BY <2>8, <2>9
<1>5. CASE StartClient
  <2>1. ~BetweenHalves /\ ~BetweenHalves'
    BY <1>2, <1>5 DEF StartClient, BetweenHalves
  <2>2. UNCHANGED <<inbox, halves, results, phase, whole>>
    BY <1>5 DEF StartClient
  <2> QED
    BY <1>1, <2>1, <2>2 DEF Together, Waiting
<1>6. CASE EndClient
  <2>1. ~BetweenHalves' /\ (whole' => whole /\ ~BetweenHalves)
    BY <1>6 DEF EndClient, BetweenHalves
  <2>2. UNCHANGED <<inbox, halves, results, phase>>
    BY <1>6 DEF EndClient
  <2> QED
    BY <1>1, <2>1, <2>2 DEF Together, Waiting
<1>7. CASE ServerRuns(ServerNext)
  <2>1. PICK between : between = BetweenHalves
    OBVIOUS
  <2>2. BetweenHalves' = between /\ UNCHANGED <<phase, whole>>
    BY <1>7, <2>1 DEF ServerRuns, ServerNext, Take, Compute, Answer, BetweenHalves, client
  <2>3. Together(between) => Together(between)'
    BY <1>1, <1>7, ServerKeepsTogether DEF ServerRuns
  <2>4. Together(between)' => Together(BetweenHalves)'
    BY <2>2 DEF Together
  <2> QED
    BY <1>1, <2>1, <2>2, <2>3, <2>4
<1>8. CASE ClientRuns(ClientNext)
  <2>1. alive /\ UNCHANGED <<alive, phase, whole>>
    BY <1>8 DEF ClientRuns
  <2>2. Together(BetweenHalves) <=> Together(Between)
    BY <2>1 DEF BetweenHalves, Between, Together
  <2>3. Together(BetweenHalves)' <=> Together(Between)'
    BY <2>1 DEF BetweenHalves, Between, Together
  <2> QED
    BY <1>1, <1>8, <2>1, <2>2, <2>3, ClientKeepsTogether DEF ClientRuns
<1>9. CASE UNCHANGED SessionVars
  BY <1>1, <1>9 DEF SessionVars, client, Together, Waiting, BetweenHalves
<1> QED
  BY <1>3, <1>4, <1>5, <1>6, <1>7, <1>8, <1>9 DEF SessionNext

LEMMA BoundEmpty ==
  ASSUME IInv, [SessionNext]_SessionVars
  PROVE  (phase = "first_bound" => results = <<>> /\ \A l \in Listeners : halves[l] = <<>>)'
<1>1. phase = "first_bound" => results = <<>> /\ \A l \in Listeners : halves[l] = <<>>
  BY DEF IInv
<1>2. CASE BindFirst
  BY <1>2 DEF BindFirst
<1>3. CASE UNCHANGED <<halves, results, phase>>
  BY <1>1, <1>3
<1>4. CASE phase' # "first_bound"
  BY <1>4
<1> QED
  BY <1>2, <1>3, <1>4
     DEF SessionNext, BindSecond, EndServer, StartClient, EndClient, ServerRuns, ClientRuns,
         ClientNext, Call, Send, Receive, Return, Stop, SessionVars, vars, server, session

-----------------------------------------------------------------------------
(* The inductive invariant and what it says.                               *)

LEMMA SessionStarts ==
  ASSUME SessionInit
  PROVE  IInv
<1>1. Init /\ TypeOK /\ phase = "down" /\ servers = 0 /\ clients = 0 /\ ~alive
      /\ alive \in BOOLEAN /\ served \in BOOLEAN /\ whole \in BOOLEAN
  BY ExchangeTypeInit DEF SessionInit
<1>2. request <= (Calls + 1) * MaxClients
  <2>1. request = 1
    BY <1>1 DEF Init, ClientInit
  <2>2. Calls + 1 \in Nat /\ MaxClients \in Int /\ 1 <= MaxClients
    BY SessionAssumption, ExchangeAssumption
  <2>3. (Calls + 1) * 1 <= (Calls + 1) * MaxClients /\ (Calls + 1) * MaxClients \in Int
    BY <2>2, RunsBounded
  <2>4. (Calls + 1) * 1 = Calls + 1 /\ 1 <= Calls + 1 /\ Calls + 1 \in Int
    BY ExchangeAssumption
  <2>5. \A p, q \in Int : 1 <= p /\ p <= q => 1 <= q
    OBVIOUS
  <2> QED
    BY <2>1, <2>3, <2>4, <2>5
<1>3. SessionTypeOK
  BY <1>1, <1>2, SessionAssumption DEF SessionTypeOK
<1>4. Untouched /\ RequestsCounted /\ LastHalf
  BY <1>1 DEF Untouched, RequestsCounted, LastHalf, BetweenHalves
<1> QED
  BY <1>1, <1>3, <1>4 DEF IInv

LEMMA SessionStep ==
  ASSUME IInv, [SessionNext]_SessionVars
  PROVE  IInv'
<1>1. SessionTypeOK /\ Untouched /\ RequestsCounted /\ LastHalf
  BY DEF IInv
<1>2. SessionTypeOK' /\ Untouched' /\ RequestsCounted' /\ LastHalf'
  BY <1>1, SessionType, UntouchedStep, RequestsCountedStep, LastHalfStep
<1>3. (clients > 0 => AllAccounted(OldRequests, Nobody) /\ Recent(OldRequests))'
  BY <1>2, PlacesStep
<1> QED
  BY <1>2, <1>3, BoundEmpty, TogetherStep DEF IInv, Nobody

LEMMA PlacesMeanDelay ==
  ASSUME IInv
  PROVE  OldRunsDelay
<1> SUFFICES ASSUME alive, ~calling, got # NULL, NEW l \in Listeners
             PROVE  got[l] \in (request - 1 - OldRequests) .. request
  BY DEF OldRunsDelay
<1>1. clients \in Nat /\ request \in Nat
  BY SessionAssumption DEF IInv, SessionTypeOK, TypeOK
<1>2. clients # 0
  BY DEF IInv, Untouched
<1>3. got \in PairOf[Done(OldRequests)]
  BY <1>1, <1>2 DEF IInv, Recent
<1>4. Done(OldRequests) = request - 1 - OldRequests /\ Done(OldRequests) \in Int
  BY <1>1 DEF Done, OldRequests
<1> QED
  BY <1>3, <1>4 DEF PairOf

LEMMA TogetherMeansWhole ==
  ASSUME IInv
  PROVE  HalvesStayTogether
BY DEF IInv, HalvesStayTogether, Together

\* However often server and client are ended and started again, every datagram and
\* every answer stands in the place its number gives it.
THEOREM PlacesKept == SessionSpec => []IInv
BY SessionStarts, SessionStep, PTL DEF SessionSpec

\* get_u returns an answer to the request of this run's last or last but one call, or,
\* after earlier runs of the client, one that is older by what those have left behind.
THEOREM OldRunsOnlyDelay == SessionSpec => []OldRunsDelay
BY PlacesKept, PlacesMeanDelay, PTL

\* calculate_res is given two halves of one request as long as no half has lost its
\* other half to the end of a client or the start of a server.
THEOREM HalvesMeetTheirOwn == SessionSpec => []HalvesStayTogether
BY PlacesKept, TogetherMeansWhole, PTL

=============================================================================
