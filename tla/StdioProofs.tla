---------------------------- MODULE StdioProofs ----------------------------
(***************************************************************************)
(* Proofs about StdioRpc: for any number of connections, any plans and any *)
(* outcomes of the tools, the answers on their way are accounted for       *)
(* (Backlog) and the reports of the jobs are true (ReportIsTrue).          *)
(***************************************************************************)
EXTENDS StdioRpc, FiniteSetTheorems, SequenceTheorems, TLAPS

-----------------------------------------------------------------------------
(* The inductive invariant.                                                 *)

Method == {"initialize", "initialized", "tools/list", "tools/call", "eof"}
Message == [id : Nat, method : Method, call : Call \cup {None}]
Answer == [id : Nat, method : Method, isError : BOOLEAN]
Item == Message \cup Answer

ConnectionTypes ==
    /\ session \in 0..MaxSession /\ proc \in 0..session
    /\ stdin \in [Session -> Seq(Message)]
    /\ stdout \in [Session -> Seq(Answer)]
    /\ recv_q \in Seq(Answer)
    /\ server \in [Session -> Serving \cup {"off", "start", "read", "exited"}]
    /\ request \in [Session -> Message \cup {None}]
    /\ \A s \in Session : server[s] \in Serving => request[s] \in Message
    /\ \A s \in Session : s > session => server[s] = "off"
    /\ next_id \in Nat \ {0} /\ abandoned \in Nat
    /\ pc \in {"idle", "send", "wait", "notify", "closing"}
    /\ pc = "closing" => proc # 0

\* What each kind of job asks for.
Asks(j) ==
    /\ j.kind \in {"connect", "execute", "react"}
    /\ j.asks \in Seq([method : Method, call : Call \cup {None}]) /\ j.asks # <<>>
    /\ \A k \in DOMAIN j.asks : j.asks[k].method = "tools/call" <=> 
           j.kind = "execute" \/ (j.kind = "react" /\ k = 2)
    /\ \A k \in DOMAIN j.asks : j.asks[k].method # "initialized"
    /\ j.kind = "connect" => Len(j.asks) = 1
    /\ j.kind = "execute" => \A k \in DOMAIN j.asks : j.asks[k].call \in Call
    /\ j.kind = "react" => Len(j.asks) = 2 /\ j.asks[1].method = "tools/list"

\* Where the caller is in its job: Len(answers) calls are over, and the next one is
\* about to be made or waits.
JobInv ==
    /\ pc = "idle" \/ pc = "closing" \/ report = "running"
    /\ job.kind # "none" \/ pc \in {"idle", "closing"}
    /\ job.kind # "none" => Asks(job) /\ job.first \in Nat \ {0} /\ Len(answers) <= Len(job.asks)
    /\ answers \in Seq([want : Nat, got : Answer])
    /\ pc \in {"send", "wait"} =>
         /\ Len(answers) < Len(job.asks)
         /\ sending = job.asks[Len(answers) + 1]
         /\ sending.method = "tools/call" => sending.call \in Call
         /\ next_id = job.first + Len(answers) + (IF pc = "wait" THEN 1 ELSE 0)
    /\ pc = "notify" => job.kind = "connect" /\ Len(answers) = 1

\* What is held has the id of a call that was made, or none and nothing is owed for it.
HeldOK(p, m) ==
    /\ m.id \in 0..(next_id - 1)
    /\ Owing(m) <=> m.id # 0
    /\ p[1] \in {"stdin", "server"} => (m.id = 0 <=> m.method = "initialized")
    /\ p[1] \in {"stdout", "queue"} => (m.id = 0 <=> m = EOF)

\* As long as no call was given up, what is held is about the call that waits.
CurrentOK(p, m) ==
    abandoned = 0 /\ m.id # 0 =>
        /\ pc = "wait" /\ m.id = next_id - 1 /\ m.method = sending.method
        /\ p[1] \in {"stdin", "server"} => m.call = sending.call
        /\ p[1] \in {"stdout", "queue"} =>
               /\ m.isError <=> sending.method = "tools/call" /\ Effect[sending.call] = "error"
               /\ sending.method = "tools/call" => Effect[sending.call] # "raise"

SlotsInv == \A p \in Place : \A i \in DOMAIN Held[p] : HeldOK(p, Held[p][i]) /\ CurrentOK(p, Held[p][i])

\* What the server is about to answer is a request, and the answer exists.
ServerInv ==
    \A s \in Session : server[s] \in {"send", "write"} =>
        /\ request[s].id # 0
        /\ request[s].method = "tools/call" => Effect[request[s].call] # "raise"

\* No answer is asked for, or given, twice.
Distinct(held) ==
    \A p, q \in Place : \A i \in DOMAIN held[p], j \in DOMAIN held[q] :
        Owing(held[p][i]) /\ Owing(held[q][j]) /\ held[p][i].id = held[q][j].id => p = q /\ i = j

\* An answer nobody waits for is there only because a call was given up: each is
\* there once, and there are no more than abandoned calls and the one that waits.
\* (_rpc takes the next item of the queue without comparing ids.)
Backlog ==
    /\ Distinct(Held)
    /\ Cardinality(Owed(Held)) <= abandoned + (IF pc = "wait" THEN 1 ELSE 0)

IInv == ConnectionTypes /\ JobInv /\ SlotsInv /\ ServerInv /\ Backlog /\ ReportIsTrue

-----------------------------------------------------------------------------
(* What moving, taking and adding an item does to what is owed.             *)

\* An id is owed when some item that is owed an answer has it.
LEMMA OwedIs ==
    ASSUME NEW H, NEW x
    PROVE  x \in Owed(H) <=> \E p \in Place : \E i \in DOMAIN H[p] : Owing(H[p][i]) /\ H[p][i].id = x
BY DEF Owed

\* No two items are owed answers with one id.
LEMMA DistinctIs ==
    ASSUME NEW H, Distinct(H), NEW p \in Place, NEW q \in Place,
           NEW i \in DOMAIN H[p], NEW j \in DOMAIN H[q],
           Owing(H[p][i]), Owing(H[q][j]), H[p][i].id = H[q][j].id
    PROVE  p = q /\ i = j
BY DEF Distinct

\* The two changes of a sequence, item by item.
LEMMA TailIs ==
    ASSUME NEW S, NEW s \in Seq(S), s # <<>>
    PROVE  /\ Len(s) \in Nat \ {0} /\ DOMAIN s = 1..Len(s) /\ Head(s) = s[1]
           /\ DOMAIN Tail(s) = 1..(Len(s) - 1)
           /\ \A i \in 1..(Len(s) - 1) : Tail(s)[i] = s[i + 1]
<1>1. Len(s) \in Nat \ {0} /\ DOMAIN s = 1..Len(s) /\ Head(s) = s[1]
      BY LenProperties, EmptySeq
<1>2. Tail(s) \in Seq(S) /\ Len(Tail(s)) = Len(s) - 1 /\ \A i \in 1..Len(Tail(s)) : Tail(s)[i] = s[i + 1]
      BY HeadTailProperties
<1> QED BY <1>1, <1>2, LenProperties

LEMMA AppendIs ==
    ASSUME NEW S, NEW s \in Seq(S), NEW y \in S
    PROVE  /\ Len(s) \in Nat /\ DOMAIN s = 1..Len(s)
           /\ DOMAIN Append(s, y) = 1..(Len(s) + 1)
           /\ \A i \in 1..Len(s) : Append(s, y)[i] = s[i]
           /\ Append(s, y)[Len(s) + 1] = y
<1>1. Append(s, y) \in Seq(S) /\ Len(Append(s, y)) = Len(s) + 1
      BY AppendProperties
<1> QED BY <1>1, AppendProperties, LenProperties

\* An item that moves from the head of one place to the end of another, perhaps in
\* another form with the same id, leaves what is owed as it was.
MovesTo(H, G, a, b, y) ==
    /\ H \in [Place -> Seq(Item)] /\ G \in [Place -> Seq(Item)]
    /\ a \in Place /\ b \in Place /\ a # b /\ y \in Item
    /\ H[a] # <<>> /\ y.id = Head(H[a]).id /\ (Owing(y) <=> Owing(Head(H[a])))
    /\ \A p \in Place : G[p] = IF p = a THEN Tail(H[a])
                               ELSE IF p = b THEN Append(H[b], y) ELSE H[p]

LEMMA Moved ==
    ASSUME NEW H, NEW G, NEW a, NEW b, NEW y, MovesTo(H, G, a, b, y), Distinct(H)
    PROVE  Distinct(G) /\ Owed(G) = Owed(H)
<1> USE DEF MovesTo
<1> DEFINE oP(p, i) == IF p = b /\ i = Len(H[b]) + 1 THEN a ELSE p
           oI(p, i) == IF p = a THEN i + 1 ELSE IF p = b /\ i = Len(H[b]) + 1 THEN 1 ELSE i
           same(m, n) == m.id = n.id /\ (Owing(m) <=> Owing(n))
<1>a. /\ Len(H[a]) \in Nat \ {0} /\ DOMAIN H[a] = 1..Len(H[a]) /\ Head(H[a]) = H[a][1]
      /\ DOMAIN G[a] = 1..(Len(H[a]) - 1)
      /\ \A i \in 1..(Len(H[a]) - 1) : G[a][i] = H[a][i + 1]
  <2>1. G[a] = Tail(H[a]) /\ H[a] \in Seq(Item)
        OBVIOUS
  <2> QED BY <2>1, TailIs
<1>b. /\ Len(H[b]) \in Nat /\ DOMAIN H[b] = 1..Len(H[b])
      /\ DOMAIN G[b] = 1..(Len(H[b]) + 1)
      /\ \A i \in 1..Len(H[b]) : G[b][i] = H[b][i]
      /\ G[b][Len(H[b]) + 1] = y
  <2>1. G[b] = Append(H[b], y) /\ H[b] \in Seq(Item)
        OBVIOUS
  <2> QED BY <2>1, AppendIs
<1>c. \A p \in Place : p # a /\ p # b => G[p] = H[p] /\ DOMAIN G[p] = 1..Len(G[p]) /\ Len(G[p]) \in Nat
      BY LenProperties
<1>d. same(y, H[a][1])
      BY <1>a
<1>1. ASSUME NEW p \in Place, NEW i \in DOMAIN G[p]
      PROVE  oI(p, i) \in DOMAIN H[oP(p, i)] /\ same(G[p][i], H[oP(p, i)][oI(p, i)])
  <2> HIDE DEF same
  <2>0. \A m : same(m, m)
        BY DEF same
  <2>1. CASE p = a
    <3>1. i \in 1..(Len(H[a]) - 1) /\ i + 1 \in 1..Len(H[a])
          BY <1>a, <2>1
    <3> QED BY <1>a, <2>0, <2>1, <3>1
  <2>2. CASE p = b /\ i = Len(H[b]) + 1
        BY <1>a, <1>b, <1>d, <2>2
  <2>3. CASE p = b /\ i # Len(H[b]) + 1
    <3>1. i \in 1..Len(H[b])
          BY <1>b, <2>3
    <3> QED BY <1>b, <2>0, <2>3, <3>1
  <2>4. CASE p # a /\ p # b
        BY <1>c, <2>0, <2>4
  <2> QED BY <2>1, <2>2, <2>3, <2>4
<1>2. ASSUME NEW p \in Place, NEW i \in DOMAIN G[p], NEW q \in Place, NEW j \in DOMAIN G[q],
             oP(p, i) = oP(q, j), oI(p, i) = oI(q, j)
      PROVE  p = q /\ i = j
  <2>1. i \in Nat \ {0} /\ j \in Nat \ {0}
        BY <1>a, <1>b, <1>c
  <2> QED BY <2>1, <1>2
<1>3. ASSUME NEW p \in Place, NEW i \in DOMAIN H[p]
      PROVE  \E q \in Place : \E j \in DOMAIN G[q] : same(G[q][j], H[p][i])
  <2> HIDE DEF same
  <2>0. \A m : same(m, m)
        BY DEF same
  <2>1. CASE p = a /\ i = 1
        BY <1>b, <1>d, <2>1
  <2>2. CASE p = a /\ i # 1
    <3>1. i - 1 \in DOMAIN G[a] /\ G[a][i - 1] = H[a][i]
          BY <1>a, <2>2
    <3> QED BY <2>0, <2>2, <3>1
  <2>3. CASE p = b
    <3>1. i \in DOMAIN G[p] /\ G[p][i] = H[p][i]
          BY <1>b, <2>3
    <3> QED BY <2>0, <3>1
  <2>4. CASE p # a /\ p # b
        BY <1>c, <2>0, <2>4
  <2> QED BY <2>1, <2>2, <2>3, <2>4
<1> HIDE DEF oP, oI
<1>4. Distinct(G)
  <2> SUFFICES ASSUME NEW p \in Place, NEW q \in Place, NEW i \in DOMAIN G[p], NEW j \in DOMAIN G[q],
                      Owing(G[p][i]), Owing(G[q][j]), G[p][i].id = G[q][j].id
               PROVE  p = q /\ i = j
      BY DEF Distinct
  <2>1. oP(p, i) \in Place /\ oP(q, j) \in Place
        BY DEF oP
  <2>2. oP(p, i) = oP(q, j) /\ oI(p, i) = oI(q, j)
        BY <1>1, <2>1 DEF Distinct
  <2> QED BY <1>2, <2>2
<1>5. \A x : x \in Owed(G) <=> x \in Owed(H)
  <2> TAKE x
  <2>1. ASSUME NEW p \in Place, NEW i \in DOMAIN G[p], Owing(G[p][i]), G[p][i].id = x
        PROVE  x \in Owed(H)
    <3>1. oP(p, i) \in Place /\ oI(p, i) \in DOMAIN H[oP(p, i)]
          BY <1>1 DEF oP
    <3>2. Owing(H[oP(p, i)][oI(p, i)]) /\ H[oP(p, i)][oI(p, i)].id = x
          BY <1>1, <2>1
    <3> QED BY <3>1, <3>2, OwedIs
  <2>2. ASSUME NEW p \in Place, NEW i \in DOMAIN H[p], Owing(H[p][i]), H[p][i].id = x
        PROVE  x \in Owed(G)
    <3>1. PICK q \in Place : \E j \in DOMAIN G[q] : same(G[q][j], H[p][i])
          BY <1>3
    <3>2. PICK j \in DOMAIN G[q] : same(G[q][j], H[p][i])
          BY <3>1
    <3> QED BY <2>2, <3>2, OwedIs
  <2> QED BY <2>1, <2>2, OwedIs
<1> QED BY <1>4, <1>5

\* The head of a place that is taken away is owed no more.
TakesFrom(H, G, a) ==
    /\ H \in [Place -> Seq(Item)] /\ G \in [Place -> Seq(Item)]
    /\ a \in Place /\ H[a] # <<>>
    /\ \A p \in Place : G[p] = IF p = a THEN Tail(H[a]) ELSE H[p]

LEMMA Taken ==
    ASSUME NEW H, NEW G, NEW a, TakesFrom(H, G, a), Distinct(H)
    PROVE  /\ Distinct(G) /\ Owed(G) \subseteq Owed(H)
           /\ ~Owing(Head(H[a])) => Owed(G) = Owed(H)
           /\ Owing(Head(H[a])) =>
                  Head(H[a]).id \in Owed(H) /\ Owed(G) = Owed(H) \ {Head(H[a]).id}
<1> DEFINE oI(p, i) == IF p = a THEN i + 1 ELSE i
<1>0. a \in Place
      BY DEF TakesFrom
<1>a. /\ Len(H[a]) \in Nat \ {0} /\ DOMAIN H[a] = 1..Len(H[a]) /\ Head(H[a]) = H[a][1]
      /\ DOMAIN G[a] = 1..(Len(H[a]) - 1)
      /\ \A i \in 1..(Len(H[a]) - 1) : G[a][i] = H[a][i + 1]
  <2>1. G[a] = Tail(H[a]) /\ H[a] \in Seq(Item) /\ H[a] # <<>>
        BY DEF TakesFrom
  <2> QED BY <2>1, TailIs
<1>c. \A p \in Place : p # a => G[p] = H[p]
      BY DEF TakesFrom
<1>1. ASSUME NEW p \in Place, NEW i \in DOMAIN G[p]
      PROVE  oI(p, i) \in DOMAIN H[p] /\ G[p][i] = H[p][oI(p, i)] /\ (p = a => oI(p, i) # 1)
      BY <1>a, <1>c
<1>2. ASSUME NEW p \in Place, NEW i \in DOMAIN H[p], p # a \/ i # 1
      PROVE  \E j \in DOMAIN G[p] : G[p][j] = H[p][i]
  <2>1. CASE p = a
    <3>1. i - 1 \in DOMAIN G[p] /\ G[p][i - 1] = H[p][i]
          BY <1>2, <1>a, <2>1
    <3> QED BY <3>1
  <2>2. CASE p # a
        BY <1>c, <2>2
  <2> QED BY <2>1, <2>2
<1>3. Head(H[a]) = H[a][1] /\ 1 \in DOMAIN H[a]
      BY <1>0, <1>a
<1>4. ASSUME NEW p \in Place, NEW i \in DOMAIN G[p], NEW j \in DOMAIN G[p], oI(p, i) = oI(p, j)
      PROVE  i = j
      BY <1>4, <1>a
<1> HIDE DEF oI
<1>5. Distinct(G)
      BY <1>1, <1>4 DEF Distinct
<1>6. Owed(G) \subseteq Owed(H)
      BY <1>1, OwedIs
<1>7. ASSUME Owing(Head(H[a]))
      PROVE  Head(H[a]).id \in Owed(H) /\ Owed(G) = Owed(H) \ {Head(H[a]).id}
  <2>1. Head(H[a]).id \in Owed(H)
        BY <1>0, <1>3, <1>7, OwedIs
  <2>2. Head(H[a]).id \notin Owed(G)
    <3>1. ASSUME NEW p \in Place, NEW i \in DOMAIN G[p], Owing(G[p][i]), G[p][i].id = Head(H[a]).id
          PROVE  FALSE
      <4>1. oI(p, i) \in DOMAIN H[p] /\ G[p][i] = H[p][oI(p, i)] /\ (p = a => oI(p, i) # 1)
            BY <1>1
      <4>2. Owing(H[p][oI(p, i)]) /\ Owing(H[a][1]) /\ H[p][oI(p, i)].id = H[a][1].id
            BY <1>3, <1>7, <3>1, <4>1
      <4>3. a \in Place /\ 1 \in DOMAIN H[a]
            BY <1>0, <1>3
      <4>4. p = a /\ oI(p, i) = 1
            BY <4>1, <4>2, <4>3, DistinctIs
      <4> QED BY <4>1, <4>4
    <3> QED BY <3>1, OwedIs
  <2>3. ASSUME NEW x \in Owed(H), x # Head(H[a]).id
        PROVE  x \in Owed(G)
    <3>1. PICK p \in Place : \E i \in DOMAIN H[p] : Owing(H[p][i]) /\ H[p][i].id = x
          BY OwedIs
    <3>2. PICK i \in DOMAIN H[p] : Owing(H[p][i]) /\ H[p][i].id = x
          BY <3>1
    <3>3. p # a \/ i # 1
          BY <1>3, <2>3, <3>2
    <3> QED BY <1>2, <3>2, <3>3, OwedIs
  <2> QED BY <1>6, <2>1, <2>2, <2>3
<1>8. ASSUME ~Owing(Head(H[a])), NEW x \in Owed(H)
      PROVE  x \in Owed(G)
  <2>1. PICK p \in Place : \E i \in DOMAIN H[p] : Owing(H[p][i]) /\ H[p][i].id = x
        BY OwedIs
  <2>2. PICK i \in DOMAIN H[p] : Owing(H[p][i]) /\ H[p][i].id = x
        BY <2>1
  <2>3. p # a \/ i # 1
        BY <1>3, <1>8, <2>2
  <2> QED BY <1>2, <2>2, <2>3, OwedIs
<1> QED BY <1>5, <1>6, <1>7, <1>8

\* An item that is added with an id of its own is owed from then on.
AddsTo(H, G, a, y) ==
    /\ H \in [Place -> Seq(Item)] /\ G \in [Place -> Seq(Item)]
    /\ a \in Place /\ y \in Item
    /\ \A p \in Place : G[p] = IF p = a THEN Append(H[a], y) ELSE H[p]

LEMMA Added ==
    ASSUME NEW H, NEW G, NEW a, NEW y, AddsTo(H, G, a, y), Owing(y) => y.id \notin Owed(H), Distinct(H)
    PROVE  Distinct(G) /\ Owed(G) = Owed(H) \cup (IF Owing(y) THEN {y.id} ELSE {})
<1> USE DEF AddsTo
<1> DEFINE new(p, i) == p = a /\ i = Len(H[a]) + 1
<1>a. /\ Len(H[a]) \in Nat /\ DOMAIN H[a] = 1..Len(H[a])
      /\ DOMAIN G[a] = 1..(Len(H[a]) + 1)
      /\ \A i \in 1..Len(H[a]) : G[a][i] = H[a][i]
      /\ G[a][Len(H[a]) + 1] = y
  <2>1. G[a] = Append(H[a], y) /\ H[a] \in Seq(Item)
        OBVIOUS
  <2> QED BY <2>1, AppendIs
<1>c. \A p \in Place : p # a => G[p] = H[p]
      OBVIOUS
<1>1. ASSUME NEW p \in Place, NEW i \in DOMAIN G[p]
      PROVE  IF new(p, i) THEN G[p][i] = y ELSE i \in DOMAIN H[p] /\ G[p][i] = H[p][i]
      BY <1>a, <1>c
<1>2. Len(H[a]) + 1 \in DOMAIN G[a] /\ G[a][Len(H[a]) + 1] = y
      BY <1>a
<1>3. ASSUME NEW p \in Place, NEW i \in DOMAIN H[p]
      PROVE  i \in DOMAIN G[p] /\ G[p][i] = H[p][i]
      BY <1>a, <1>c
<1>4. Distinct(G)
  <2> SUFFICES ASSUME NEW p \in Place, NEW q \in Place, NEW i \in DOMAIN G[p], NEW j \in DOMAIN G[q],
                      Owing(G[p][i]), Owing(G[q][j]), G[p][i].id = G[q][j].id
               PROVE  p = q /\ i = j
      BY DEF Distinct
  <2>1. CASE new(p, i) /\ new(q, j)
        BY <2>1
  <2>2. CASE new(p, i) /\ ~new(q, j)
        BY <1>1, <2>2, OwedIs
  <2>3. CASE ~new(p, i) /\ new(q, j)
        BY <1>1, <2>3, OwedIs
  <2>4. CASE ~new(p, i) /\ ~new(q, j)
        BY <1>1, <2>4 DEF Distinct
  <2> QED BY <2>1, <2>2, <2>3, <2>4
<1> HIDE DEF new
<1>5. ASSUME NEW x \in Owed(G)
      PROVE  x \in Owed(H) \/ (Owing(y) /\ x = y.id)
  <2>1. PICK p \in Place : \E i \in DOMAIN G[p] : Owing(G[p][i]) /\ G[p][i].id = x
        BY OwedIs
  <2>2. PICK i \in DOMAIN G[p] : Owing(G[p][i]) /\ G[p][i].id = x
        BY <2>1
  <2> QED BY <1>1, <2>2, OwedIs
<1>6. Owed(H) \subseteq Owed(G)
      BY <1>3, OwedIs
<1>7. Owing(y) => y.id \in Owed(G)
      BY <1>2, OwedIs
<1> QED BY <1>4, <1>5, <1>6, <1>7

-----------------------------------------------------------------------------
(* The places, and how a step that changes one or two of them keeps the     *)
(* parts of the invariant about what is held.                               *)

\* What a server in a position has in hand.
Hand(here, m) == IF here \in Serving THEN <<m>> ELSE <<>>

LEMMA HandFull ==
    ASSUME NEW here \in Serving, NEW m
    PROVE  /\ Hand(here, m) = <<m>> /\ Hand(here, m) # <<>>
           /\ Head(Hand(here, m)) = m /\ Tail(Hand(here, m)) = <<>>
<1>1. <<m>> # <<>> /\ Head(<<m>>) = m /\ Tail(<<m>>) = <<>>
      OBVIOUS
<1> QED BY <1>1 DEF Hand

LEMMA HandEmpty ==
    ASSUME NEW here, here \notin Serving, NEW m
    PROVE  Hand(here, m) = <<>>
BY DEF Hand

\* Where things are held, before and after a step.
LEMMA HeldAt ==
    /\ \A s \in Session :
          /\ <<"stdin", s>> \in Place /\ <<"server", s>> \in Place /\ <<"stdout", s>> \in Place
          /\ Held[<<"stdin", s>>] = stdin[s]
          /\ Held[<<"server", s>>] = Hand(server[s], request[s])
          /\ Held[<<"stdout", s>>] = stdout[s]
    /\ <<"queue", 0>> \in Place /\ Held[<<"queue", 0>>] = recv_q
BY DEF Place, Held, Hand

LEMMA PlacesAre ==
    ASSUME NEW p \in Place, p # <<"queue", 0>>
    PROVE  \E s \in Session : p \in {<<"stdin", s>>, <<"server", s>>, <<"stdout", s>>}
BY DEF Place

LEMMA HeldAtNext ==
    /\ \A s \in Session :
          /\ Held'[<<"stdin", s>>] = stdin'[s]
          /\ Held'[<<"server", s>>] = Hand(server'[s], request'[s])
          /\ Held'[<<"stdout", s>>] = stdout'[s]
    /\ Held'[<<"queue", 0>>] = recv_q'
BY DEF Place, Held, Hand

LEMMA ItemSeqs ==
    /\ <<>> \in Seq(Item)
    /\ \A q \in Seq(Message) \cup Seq(Answer) : q \in Seq(Item)
    /\ \A m \in Message : <<m>> \in Seq(Item)
<1>1. \A m \in Message : <<m>> \in Seq(Item)
  <2> SUFFICES ASSUME NEW m \in Message PROVE <<m>> \in Seq(Item)
      OBVIOUS
  <2>1. m \in Item
        BY DEF Item
  <2> QED BY <2>1
<1>2. \A q \in Seq(Message) \cup Seq(Answer) : q \in Seq(Item)
      BY DEF Item
<1> QED BY <1>1, <1>2

LEMMA HeldType ==
    ASSUME ConnectionTypes
    PROVE  Held \in [Place -> Seq(Item)]
<1>1. \A p \in Place : Held[p] \in Seq(Item)
  <2> SUFFICES ASSUME NEW p \in Place PROVE Held[p] \in Seq(Item)
      OBVIOUS
  <2>1. CASE p = <<"queue", 0>>
        BY <2>1, HeldAt, ItemSeqs DEF ConnectionTypes
  <2>2. ASSUME NEW s \in Session, p \in {<<"stdin", s>>, <<"server", s>>, <<"stdout", s>>}
        PROVE  Held[p] \in Seq(Item)
    <3>1. CASE p = <<"stdin", s>>
          BY <3>1, HeldAt, ItemSeqs DEF ConnectionTypes
    <3>2. CASE p = <<"server", s>>
          BY <3>2, HeldAt, ItemSeqs DEF ConnectionTypes, Hand
    <3>3. CASE p = <<"stdout", s>>
          BY <3>3, HeldAt, ItemSeqs DEF ConnectionTypes
    <3> QED BY <2>2, <3>1, <3>2, <3>3
  <2> QED BY <2>1, <2>2, PlacesAre
<1> QED BY <1>1 DEF Held

LEMMA HeldTypeNext ==
    ASSUME ConnectionTypes'
    PROVE  Held' \in [Place -> Seq(Item)]
<1>1. \A p \in Place : Held'[p] \in Seq(Item)
  <2> SUFFICES ASSUME NEW p \in Place PROVE Held'[p] \in Seq(Item)
      OBVIOUS
  <2>1. CASE p = <<"queue", 0>>
        BY <2>1, HeldAtNext, ItemSeqs DEF ConnectionTypes
  <2>2. ASSUME NEW s \in Session, p \in {<<"stdin", s>>, <<"server", s>>, <<"stdout", s>>}
        PROVE  Held'[p] \in Seq(Item)
    <3>1. CASE p = <<"stdin", s>>
          BY <3>1, HeldAtNext, ItemSeqs DEF ConnectionTypes
    <3>2. CASE p = <<"server", s>>
          BY <3>2, HeldAtNext, ItemSeqs DEF ConnectionTypes, Hand
    <3>3. CASE p = <<"stdout", s>>
          BY <3>3, HeldAtNext, ItemSeqs DEF ConnectionTypes
    <3> QED BY <2>2, <3>1, <3>2, <3>3
  <2> QED BY <2>1, <2>2, PlacesAre
<1> QED BY <1>1 DEF Held

\* The ids that are owed are those of calls made.
LEMMA OwedFinite ==
    ASSUME ConnectionTypes, SlotsInv
    PROVE  /\ IsFiniteSet(Owed(Held)) /\ Cardinality(Owed(Held)) \in Nat
           /\ Owed(Held) \subseteq 0..(next_id - 1)
<1>1. Owed(Held) \subseteq 0..(next_id - 1)
      BY OwedIs DEF SlotsInv, HeldOK
<1>2. IsFiniteSet(0..(next_id - 1))
      BY FS_Interval DEF ConnectionTypes
<1> QED BY <1>1, <1>2, FS_Subset, FS_CardinalityType

\* What the caller does without answering the call that waits: when one waits it
\* goes on waiting, or is given up.
CallerKeeps ==
    /\ next_id' >= next_id /\ abandoned' >= abandoned
    /\ \/ UNCHANGED <<next_id, pc, sending, abandoned>>
       \/ pc # "wait"
       \/ abandoned' > abandoned

\* What was held and all right still is.
LEMMA ItemKept ==
    ASSUME IInv, ConnectionTypes', CallerKeeps,
           NEW p \in Place, NEW i \in DOMAIN Held[p], NEW m, m = Held[p][i]
    PROVE  HeldOK(p, m)' /\ CurrentOK(p, m)'
<1>1. HeldOK(p, m) /\ CurrentOK(p, m)
      BY DEF IInv, SlotsInv
<1>2. next_id \in Nat /\ next_id' \in Nat /\ abandoned \in Nat /\ abandoned' \in Nat
      BY DEF IInv, ConnectionTypes
<1>3. HeldOK(p, m)'
      BY <1>1, <1>2 DEF HeldOK, CallerKeeps
<1>4. CASE UNCHANGED <<next_id, pc, sending, abandoned>>
      BY <1>1, <1>3, <1>4 DEF CurrentOK
<1>5. CASE pc # "wait" \/ abandoned' > abandoned
      BY <1>1, <1>2, <1>3, <1>5 DEF CurrentOK, CallerKeeps
<1> QED BY <1>3, <1>4, <1>5 DEF CallerKeeps

\* The number of ids that are owed stays within its bound when none is added.
LEMMA BoundKept ==
    ASSUME IInv, ConnectionTypes', CallerKeeps, Distinct(Held'), Owed(Held') \subseteq Owed(Held)
    PROVE  Backlog'
<1>1. IsFiniteSet(Owed(Held)) /\ Cardinality(Owed(Held)) \in Nat
      BY OwedFinite DEF IInv
<1>2. Cardinality(Owed(Held')) \in Nat /\ Cardinality(Owed(Held')) <= Cardinality(Owed(Held))
      BY <1>1, FS_Subset, FS_CardinalityType
<1>3. Cardinality(Owed(Held)) <= abandoned + (IF pc = "wait" THEN 1 ELSE 0)
      BY DEF IInv, Backlog
<1>4. abandoned \in Nat /\ abandoned' \in Nat
      BY DEF IInv, ConnectionTypes
<1>5. Cardinality(Owed(Held')) <= abandoned' + (IF pc' = "wait" THEN 1 ELSE 0)
      BY <1>1, <1>2, <1>3, <1>4 DEF CallerKeeps
<1> QED BY <1>5 DEF Backlog

\* A step that moves nothing.
LEMMA StepSame ==
    ASSUME IInv, ConnectionTypes', CallerKeeps, \A p \in Place : Held'[p] = Held[p]
    PROVE  SlotsInv' /\ Backlog' /\ Owed(Held') = Owed(Held)
<1>1. Held' = Held
      BY DEF Held
<1>2. SlotsInv'
      BY <1>1, ItemKept DEF SlotsInv
<1> QED BY <1>1, <1>2, BoundKept DEF IInv, Backlog

\* Items that were held already, or that are all right, are all right.
LEMMA SlotsFrom ==
    ASSUME IInv, ConnectionTypes', CallerKeeps, NEW b, NEW y, HeldOK(b, y)', CurrentOK(b, y)',
           \A p \in Place : \A i \in DOMAIN Held'[p] :
               (p = b /\ Held'[p][i] = y) \/ \E j \in DOMAIN Held[p] : Held'[p][i] = Held[p][j]
    PROVE  SlotsInv'
<1> SUFFICES ASSUME NEW p \in Place, NEW i \in DOMAIN Held'[p]
             PROVE  HeldOK(p, Held[p][i])' /\ CurrentOK(p, Held[p][i])'
    BY DEF SlotsInv
<1>1. CASE p = b /\ Held'[p][i] = y
      BY <1>1
<1>2. CASE \E j \in DOMAIN Held[p] : Held'[p][i] = Held[p][j]
      BY <1>2, ItemKept
<1> QED BY <1>1, <1>2

LEMMA TakenItems ==
    ASSUME NEW H, NEW G, NEW a, TakesFrom(H, G, a), NEW p \in Place, NEW i \in DOMAIN G[p]
    PROVE  \E j \in DOMAIN H[p] : G[p][i] = H[p][j]
<1>1. CASE p = a
  <2>1. H[a] \in Seq(Item) /\ H[a] # <<>> /\ G[p] = Tail(H[a])
        BY <1>1 DEF TakesFrom
  <2>2. i \in 1..(Len(H[a]) - 1) /\ G[p][i] = H[a][i + 1] /\ i + 1 \in DOMAIN H[a]
        BY <2>1, TailIs
  <2> QED BY <1>1, <2>2
<1>2. CASE p # a
      BY <1>2 DEF TakesFrom
<1> QED BY <1>1, <1>2

\* A step loses at most the answer to one call.
Loses == Owed(Held') = Owed(Held) \/ \E x \in Owed(Held) : Owed(Held') = Owed(Held) \ {x}

\* A step that takes away the first item of a place.
LEMMA StepTakes ==
    ASSUME IInv, ConnectionTypes', CallerKeeps,
           NEW a \in Place, Held[a] # <<>>,
           \A p \in Place : Held'[p] = IF p = a THEN Tail(Held[a]) ELSE Held[p]
    PROVE  /\ SlotsInv' /\ Backlog' /\ Loses
           /\ ~Owing(Head(Held[a])) => Owed(Held') = Owed(Held)
<1>1. Held \in [Place -> Seq(Item)] /\ Held' \in [Place -> Seq(Item)] /\ Distinct(Held)
      BY HeldType, HeldTypeNext DEF IInv, Backlog
<1>2. TakesFrom(Held, Held', a)
      BY <1>1 DEF TakesFrom
<1>3. /\ Distinct(Held') /\ Owed(Held') \subseteq Owed(Held)
      /\ ~Owing(Head(Held[a])) => Owed(Held') = Owed(Held)
      /\ Owing(Head(Held[a])) => Head(Held[a]).id \in Owed(Held) /\ Owed(Held') = Owed(Held) \ {Head(Held[a]).id}
      BY <1>1, <1>2, Taken
<1>4. ASSUME NEW p \in Place, NEW i \in DOMAIN Held'[p]
      PROVE  HeldOK(p, Held[p][i])' /\ CurrentOK(p, Held[p][i])'
      BY <1>2, TakenItems, ItemKept
<1>5. Loses
      BY <1>3 DEF Loses
<1>6. SlotsInv'
      BY <1>4 DEF SlotsInv
<1> QED BY <1>3, <1>5, <1>6, BoundKept

LEMMA AddedItems ==
    ASSUME NEW H, NEW G, NEW a, NEW y, AddsTo(H, G, a, y), NEW p \in Place, NEW i \in DOMAIN G[p]
    PROVE  (p = a /\ G[p][i] = y) \/ \E j \in DOMAIN H[p] : G[p][i] = H[p][j]
<1>1. CASE p = a
  <2>1. H[a] \in Seq(Item) /\ y \in Item /\ G[p] = Append(H[a], y)
        BY <1>1 DEF AddsTo
  <2> QED BY <1>1, <2>1, AppendIs
<1>2. CASE p # a
      BY <1>2 DEF AddsTo
<1> QED BY <1>1, <1>2

\* A step that adds an item that is owed nothing.
LEMMA StepAdds ==
    ASSUME IInv, ConnectionTypes', CallerKeeps,
           NEW a \in Place, NEW y \in Item, HeldOK(a, y)', CurrentOK(a, y)', ~Owing(y),
           \A p \in Place : Held'[p] = IF p = a THEN Append(Held[a], y) ELSE Held[p]
    PROVE  SlotsInv' /\ Backlog' /\ Owed(Held') = Owed(Held)
<1>1. Held \in [Place -> Seq(Item)] /\ Held' \in [Place -> Seq(Item)] /\ Distinct(Held)
      BY HeldType, HeldTypeNext DEF IInv, Backlog
<1>2. AddsTo(Held, Held', a, y)
      BY <1>1 DEF AddsTo
<1>3. Distinct(Held') /\ Owed(Held') = Owed(Held)
  <2>1. Distinct(Held') /\ Owed(Held') = Owed(Held) \cup (IF Owing(y) THEN {y.id} ELSE {})
        BY <1>1, <1>2, Added
  <2> QED BY <2>1
<1> QED BY <1>2, <1>3, AddedItems, BoundKept, SlotsFrom

\* A step that moves an item on.
LEMMA StepMoves ==
    ASSUME IInv, ConnectionTypes', CallerKeeps,
           NEW a \in Place, NEW b \in Place, a # b, NEW y \in Item, Held[a] # <<>>,
           y.id = Head(Held[a]).id, Owing(y) <=> Owing(Head(Held[a])), HeldOK(b, y)', CurrentOK(b, y)',
           \A p \in Place : Held'[p] = IF p = a THEN Tail(Held[a])
                                       ELSE IF p = b THEN Append(Held[b], y) ELSE Held[p]
    PROVE  SlotsInv' /\ Backlog' /\ Owed(Held') = Owed(Held)
<1>1. Held \in [Place -> Seq(Item)] /\ Held' \in [Place -> Seq(Item)] /\ Distinct(Held)
      BY HeldType, HeldTypeNext DEF IInv, Backlog
<1>2. Distinct(Held') /\ Owed(Held') = Owed(Held)
  <2>1. MovesTo(Held, Held', a, b, y)
        BY <1>1 DEF MovesTo
  <2> QED BY <1>1, <2>1, Moved
<1>3. ASSUME NEW p \in Place, NEW i \in DOMAIN Held'[p]
      PROVE  (p = b /\ Held'[p][i] = y) \/ \E j \in DOMAIN Held[p] : Held'[p][i] = Held[p][j]
  <2>1. CASE p = a
    <3>1. Held[a] \in Seq(Item) /\ Held'[p] = Tail(Held[a])
          BY <1>1, <2>1
    <3>2. i \in 1..(Len(Held[a]) - 1) /\ Held'[p][i] = Held[a][i + 1] /\ i + 1 \in DOMAIN Held[a]
          BY <3>1, TailIs
    <3> QED BY <2>1, <3>2
  <2>2. CASE p = b
    <3>1. Held[b] \in Seq(Item) /\ Held'[p] = Append(Held[b], y)
          BY <1>1, <2>2
    <3> QED BY <2>2, <3>1, AppendIs
  <2>3. CASE p # a /\ p # b
        BY <2>3
  <2> QED BY <2>1, <2>2, <2>3
<1> QED BY <1>2, <1>3, BoundKept, SlotsFrom

-----------------------------------------------------------------------------
(* The steps of the server and of the reader thread.                        *)

\* What the caller's parts of the invariant depend on is left alone.
LEMMA CallerUnchanged ==
    ASSUME IInv, UNCHANGED <<next_id, jobVars, pc, sending, abandoned>>
    PROVE  CallerKeeps /\ JobInv' /\ ReportIsTrue'
<1>1. CallerKeeps
      BY DEF IInv, ConnectionTypes, CallerKeeps
<1>2. JobInv'
      BY DEF IInv, JobInv, Asks, jobVars
<1>3. ReportIsTrue'
      BY DEF IInv, ReportIsTrue, jobVars
<1> QED BY <1>1, <1>2, <1>3

\* What is in the hands of the server, and at the head of a pipe.
LEMMA InHand ==
    ASSUME IInv, NEW s \in Session, server[s] \in Serving
    PROVE  /\ request[s] \in Message /\ Held[<<"server", s>>] = <<request[s]>>
           /\ HeldOK(<<"server", s>>, request[s]) /\ CurrentOK(<<"server", s>>, request[s])
<1>1. <<"server", s>> \in Place /\ Held[<<"server", s>>] = <<request[s]>>
      BY HeldAt, HandFull, HandEmpty
<1>2. HeldOK(<<"server", s>>, Held[<<"server", s>>][1]) /\ CurrentOK(<<"server", s>>, Held[<<"server", s>>][1])
      BY <1>1 DEF IInv, SlotsInv
<1> QED BY <1>1, <1>2 DEF IInv, ConnectionTypes

LEMMA AtHead ==
    ASSUME IInv, NEW p \in Place, Held[p] # <<>>
    PROVE  /\ HeldOK(p, Head(Held[p])) /\ CurrentOK(p, Head(Held[p]))
           /\ 1 \in DOMAIN Held[p] /\ Head(Held[p]) = Held[p][1]
<1>1. Held[p] \in Seq(Item)
      BY HeldType DEF IInv
<1>2. 1 \in DOMAIN Held[p] /\ Head(Held[p]) = Held[p][1]
      BY <1>1, TailIs
<1> QED BY <1>2 DEF IInv, SlotsInv

\* Places are told apart by their name and their connection.
LEMMA PlacesDiffer ==
    \A s, t \in Session :
        /\ <<"stdin", s>> # <<"server", t>> /\ <<"stdin", s>> # <<"stdout", t>> /\ <<"server", s>> # <<"stdout", t>>
        /\ <<"stdin", s>> # <<"queue", 0>> /\ <<"server", s>> # <<"queue", 0>> /\ <<"stdout", s>> # <<"queue", 0>>
        /\ s # t => <<"stdin", s>> # <<"stdin", t>> /\ <<"server", s>> # <<"server", t>> /\ <<"stdout", s>> # <<"stdout", t>>
OBVIOUS

\* A step changes the places of one connection and the queue at most.
OthersSame(s) ==
    \A t \in Session \ {s} : /\ stdin'[t] = stdin[t] /\ stdout'[t] = stdout[t]
                            /\ server'[t] = server[t] /\ request'[t] = request[t]

LEMMA Elsewhere ==
    ASSUME NEW s \in Session, OthersSame(s)
    PROVE  \A p \in Place : p \in {<<"stdin", s>>, <<"server", s>>, <<"stdout", s>>, <<"queue", 0>>}
                            \/ Held'[p] = Held[p]
<1>1. ASSUME NEW t \in Session \ {s}, NEW p \in {<<"stdin", t>>, <<"server", t>>, <<"stdout", t>>}
      PROVE  Held'[p] = Held[p]
  <2>1. CASE p = <<"stdin", t>>
        BY <2>1, HeldAt, HeldAtNext DEF OthersSame
  <2>2. CASE p = <<"server", t>>
    <3>1. server'[t] = server[t] /\ request'[t] = request[t]
          BY DEF OthersSame
    <3>2. Held[p] = Hand(server[t], request[t]) /\ Held'[p] = Hand(server'[t], request'[t])
          BY <2>2, HeldAt, HeldAtNext
    <3> QED BY <3>1, <3>2
  <2>3. CASE p = <<"stdout", t>>
        BY <2>3, HeldAt, HeldAtNext DEF OthersSame
  <2> QED BY <1>1, <2>1, <2>2, <2>3
<1> QED BY <1>1, PlacesAre

\* The server, or its start, holds on to what it had in hand.
LEMMA ServerGoesOn ==
    ASSUME IInv, ConnectionTypes', CallerKeeps, NEW s \in Session, NEW there,
           server' = [server EXCEPT ![s] = there], server[s] \in Serving <=> there \in Serving,
           UNCHANGED <<request, stdin, stdout, recv_q>>
    PROVE  SlotsInv' /\ Backlog' /\ Owed(Held') = Owed(Held)
<1>1. server'[s] = there /\ OthersSame(s)
      BY DEF IInv, ConnectionTypes, OthersSame
<1>2. Held'[<<"server", s>>] = Held[<<"server", s>>]
      BY <1>1, HeldAt, HeldAtNext DEF Hand
<1>3. /\ Held'[<<"stdin", s>>] = Held[<<"stdin", s>>] /\ Held'[<<"stdout", s>>] = Held[<<"stdout", s>>]
      /\ Held'[<<"queue", 0>>] = Held[<<"queue", 0>>]
      BY HeldAt, HeldAtNext
<1> QED BY <1>1, <1>2, <1>3, Elsewhere, StepSame

\* The server, or its end, lets go of what it had in hand.
LEMMA ServerDrops ==
    ASSUME IInv, ConnectionTypes', CallerKeeps, NEW s \in Session, NEW there,
           server' = [server EXCEPT ![s] = there], server[s] \in Serving, there \notin Serving,
           UNCHANGED <<request, stdin, stdout, recv_q>>
    PROVE  SlotsInv' /\ Backlog' /\ Loses
<1> DEFINE a == <<"server", s>>
<1>1. server'[s] = there /\ OthersSame(s)
      BY DEF IInv, ConnectionTypes, OthersSame
<1>2. a \in Place /\ Held[a] = <<request[s]>> /\ Held[a] # <<>> /\ Tail(Held[a]) = <<>>
  <2>1. a \in Place /\ Held[a] = Hand(server[s], request[s])
        BY HeldAt
  <2> QED BY <2>1, HandFull
<1>3. Held'[a] = Tail(Held[a])
  <2>1. Held'[a] = Hand(there, request[s])
        BY <1>1, HeldAtNext
  <2> QED BY <1>2, <2>1, HandEmpty
<1>4. /\ Held'[<<"stdin", s>>] = Held[<<"stdin", s>>] /\ Held'[<<"stdout", s>>] = Held[<<"stdout", s>>]
      /\ Held'[<<"queue", 0>>] = Held[<<"queue", 0>>]
      BY HeldAt, HeldAtNext
<1>5. \A p \in Place : Held'[p] = IF p = a THEN Tail(Held[a]) ELSE Held[p]
      BY <1>1, <1>3, <1>4, Elsewhere, PlacesDiffer
<1> QED BY <1>2, <1>5, StepTakes

\* The server reads the next message.
LEMMA ServerTakesRequest ==
    ASSUME IInv, NEW s \in Session, stdin[s] # <<>>, At(s, "read", "recv"),
           request' = [request EXCEPT ![s] = Head(stdin[s])], stdin' = [stdin EXCEPT ![s] = Tail(@)],
           UNCHANGED <<stdout, recv_q, session, proc, next_id, jobVars, pc, sending, abandoned>>
    PROVE  ConnectionTypes' /\ SlotsInv' /\ Backlog' /\ Owed(Held') = Owed(Held)
<1>1. CallerKeeps
      BY CallerUnchanged
<1>2. stdin[s] \in Seq(Message) /\ Head(stdin[s]) \in Message /\ Tail(stdin[s]) \in Seq(Message)
      BY HeadTailProperties DEF IInv, ConnectionTypes
<1>3. ConnectionTypes'
      BY <1>2 DEF IInv, ConnectionTypes, At, Serving
<1>4. PICK y : y = Head(stdin[s])
      OBVIOUS
<1> DEFINE a == <<"stdin", s>>
           b == <<"server", s>>
<1>5. a \in Place /\ b \in Place /\ a # b /\ Held[a] = stdin[s] /\ Held[b] = <<>>
  <2>1. a \in Place /\ b \in Place /\ Held[a] = stdin[s] /\ Held[b] = Hand("read", request[s])
        BY HeldAt DEF At
  <2>2. Hand("read", request[s]) = <<>>
        BY HandEmpty DEF Serving
  <2> QED BY <2>1, <2>2, PlacesDiffer
<1>6. HeldOK(b, y)' /\ CurrentOK(b, y)'
  <2>1. HeldOK(a, y) /\ CurrentOK(a, y)
        BY <1>4, <1>5, AtHead
  <2> QED BY <2>1 DEF HeldOK, CurrentOK
<1>7. OthersSame(s) /\ server'[s] = "recv" /\ request'[s] = y /\ stdin'[s] = Tail(stdin[s])
      BY <1>4 DEF IInv, ConnectionTypes, OthersSame, At
<1>8. Held'[a] = Tail(Held[a]) /\ Held'[b] = Append(Held[b], y)
  <2>1. Append(<<>>, y) = <<y>>
        OBVIOUS
  <2>2. Held'[a] = Tail(stdin[s]) /\ Held'[b] = Hand("recv", y)
        BY <1>7, HeldAtNext
  <2>3. Hand("recv", y) = <<y>>
        BY HandFull DEF Serving
  <2> QED BY <1>5, <2>1, <2>2, <2>3
<1>9. Held'[<<"stdout", s>>] = Held[<<"stdout", s>>] /\ Held'[<<"queue", 0>>] = Held[<<"queue", 0>>]
      BY HeldAt, HeldAtNext
<1>10. \A p \in Place : Held'[p] = IF p = a THEN Tail(Held[a])
                                    ELSE IF p = b THEN Append(Held[b], y) ELSE Held[p]
      BY <1>5, <1>7, <1>8, <1>9, Elsewhere, PlacesDiffer
<1>11. y \in Item
      BY <1>2, <1>4 DEF Item
<1> HIDE DEF a, b
<1> QED BY <1>1, <1>3, <1>4, <1>5, <1>6, <1>10, <1>11, StepMoves

\* The server writes the answer to what it had in hand.
LEMMA ServerWrites ==
    ASSUME IInv, NEW s \in Session, ServerWrite(s),
           UNCHANGED <<recv_q, session, proc, next_id, jobVars, pc, sending, abandoned>>
    PROVE  ConnectionTypes' /\ SlotsInv' /\ Backlog' /\ Owed(Held') = Owed(Held)
<1>1. CallerKeeps
      BY CallerUnchanged
<1>2. /\ server[s] = "write" /\ request[s] \in Message /\ request[s].id # 0
      /\ request[s].method = "tools/call" => Effect[request[s].call] # "raise"
      /\ HeldOK(<<"server", s>>, request[s]) /\ CurrentOK(<<"server", s>>, request[s])
      /\ Held[<<"server", s>>] = <<request[s]>>
      BY InHand DEF ServerWrite, At, Serving, IInv, ServerInv
<1>3. PICK y : y = _dispatch(request[s])
      OBVIOUS
<1>4. /\ y \in Answer /\ y.id = request[s].id /\ y.method = request[s].method
      /\ y.isError <=> request[s].method = "tools/call" /\ Effect[request[s].call] = "error"
      BY <1>2, <1>3 DEF _dispatch, HeldOK, Message, Answer
<1>5. ConnectionTypes'
  <2>1. stdout[s] \in Seq(Answer) /\ Append(stdout[s], y) \in Seq(Answer)
        BY <1>4 DEF IInv, ConnectionTypes
  <2> QED BY <1>3, <2>1 DEF IInv, ConnectionTypes, ServerWrite, At, Serving
<1> DEFINE a == <<"server", s>>
           b == <<"stdout", s>>
<1>6. a \in Place /\ b \in Place /\ a # b /\ Held[b] = stdout[s] /\ Tail(Held[a]) = <<>> /\ Held[a] # <<>>
      /\ Head(Held[a]) = request[s]
  <2>1. a \in Place /\ b \in Place /\ Held[a] = <<request[s]>> /\ Held[b] = stdout[s]
        BY <1>2, HeldAt
  <2>2. Tail(<<request[s]>>) = <<>> /\ <<request[s]>> # <<>> /\ Head(<<request[s]>>) = request[s]
        OBVIOUS
  <2> QED BY <2>1, <2>2, PlacesDiffer
<1>7. Owing(y) /\ Owing(request[s])
      BY <1>2, <1>4 DEF Owing, HeldOK, Notification, EOF
<1>8. HeldOK(b, y)' /\ CurrentOK(b, y)'
  <2>1. y.id # 0 /\ y # EOF
        BY <1>2, <1>4 DEF EOF
  <2>2. HeldOK(b, y)'
        BY <1>2, <1>4, <1>7, <2>1 DEF HeldOK
  <2>3. CurrentOK(b, y)'
        BY <1>2, <1>4, <2>1 DEF CurrentOK
  <2> QED BY <2>2, <2>3
<1>9. OthersSame(s) /\ server'[s] = "read" /\ stdout'[s] = Append(stdout[s], y)
      BY <1>3 DEF IInv, ConnectionTypes, OthersSame, ServerWrite, At
<1>10. Held'[a] = Tail(Held[a]) /\ Held'[b] = Append(Held[b], y)
  <2>1. Held'[a] = Hand("read", request'[s]) /\ Held'[b] = Append(stdout[s], y)
        BY <1>9, HeldAtNext
  <2>2. Hand("read", request'[s]) = <<>>
        BY HandEmpty DEF Serving
  <2> QED BY <1>6, <2>1, <2>2
<1>11. Held'[<<"stdin", s>>] = Held[<<"stdin", s>>] /\ Held'[<<"queue", 0>>] = Held[<<"queue", 0>>]
      BY HeldAt, HeldAtNext DEF ServerWrite
<1>12. \A p \in Place : Held'[p] = IF p = a THEN Tail(Held[a])
                                    ELSE IF p = b THEN Append(Held[b], y) ELSE Held[p]
      BY <1>6, <1>9, <1>10, <1>11, Elsewhere, PlacesDiffer
<1>13. y \in Item
      BY <1>4 DEF Item
<1> HIDE DEF a, b
<1> QED BY <1>1, <1>4, <1>5, <1>6, <1>7, <1>8, <1>12, <1>13, StepMoves

\* The reader thread puts the next answer into the queue.
LEMMA ReaderMoves ==
    ASSUME IInv, NEW s \in Session, stdout[s] # <<>>,
           recv_q' = Append(recv_q, Head(stdout[s])), stdout' = [stdout EXCEPT ![s] = Tail(@)],
           UNCHANGED <<stdin, server, request, session, proc, next_id, jobVars, pc, sending, abandoned>>
    PROVE  ConnectionTypes' /\ SlotsInv' /\ Backlog' /\ Owed(Held') = Owed(Held)
<1>1. CallerKeeps
      BY CallerUnchanged
<1>2. stdout[s] \in Seq(Answer) /\ Head(stdout[s]) \in Answer /\ Tail(stdout[s]) \in Seq(Answer)
      BY HeadTailProperties DEF IInv, ConnectionTypes
<1>3. ConnectionTypes'
  <2>1. Append(recv_q, Head(stdout[s])) \in Seq(Answer)
        BY <1>2, AppendProperties DEF IInv, ConnectionTypes
  <2> QED BY <1>2, <2>1 DEF IInv, ConnectionTypes, Serving
<1>4. PICK y : y = Head(stdout[s])
      OBVIOUS
<1> DEFINE a == <<"stdout", s>>
           b == <<"queue", 0>>
<1>5. a \in Place /\ b \in Place /\ a # b /\ Held[a] = stdout[s] /\ Held[b] = recv_q
      BY HeldAt, PlacesDiffer
<1>6. HeldOK(b, y)' /\ CurrentOK(b, y)'
  <2>1. HeldOK(a, y) /\ CurrentOK(a, y)
        BY <1>4, <1>5, AtHead
  <2> QED BY <2>1 DEF HeldOK, CurrentOK
<1>7. OthersSame(s) /\ stdout'[s] = Tail(stdout[s])
      BY DEF IInv, ConnectionTypes, OthersSame
<1>8. Held'[a] = Tail(Held[a]) /\ Held'[b] = Append(Held[b], y)
      BY <1>4, <1>5, <1>7, HeldAtNext
<1>9. Held'[<<"stdin", s>>] = Held[<<"stdin", s>>] /\ Held'[<<"server", s>>] = Held[<<"server", s>>]
      BY HeldAt, HeldAtNext
<1>10. \A p \in Place : Held'[p] = IF p = a THEN Tail(Held[a])
                                    ELSE IF p = b THEN Append(Held[b], y) ELSE Held[p]
      BY <1>5, <1>7, <1>8, <1>9, Elsewhere, PlacesDiffer
<1>11. y \in Item
      BY <1>2, <1>4 DEF Item
<1> HIDE DEF a, b
<1> QED BY <1>1, <1>3, <1>4, <1>5, <1>6, <1>10, <1>11, StepMoves

\* It puts the sentinel after the last.
LEMMA ReaderEnds ==
    ASSUME IInv, recv_q' = Append(recv_q, EOF),
           UNCHANGED <<stdin, stdout, server, request, session, proc, next_id, jobVars, pc, sending, abandoned>>
    PROVE  ConnectionTypes' /\ SlotsInv' /\ Backlog' /\ Owed(Held') = Owed(Held)
<1>1. CallerKeeps
      BY CallerUnchanged
<1>2. EOF \in Answer /\ EOF.id = 0 /\ EOF.method = "eof" /\ ~Owing(EOF)
  <2>1. ~Owing(EOF)
        BY DEF Owing
  <2>2. EOF \in Answer /\ EOF.id = 0 /\ EOF.method = "eof"
        BY DEF EOF, Answer, Method
  <2> QED BY <2>1, <2>2
<1>3. ConnectionTypes'
  <2>1. Append(recv_q, EOF) \in Seq(Answer)
        BY <1>2, AppendProperties DEF IInv, ConnectionTypes
  <2> QED BY <2>1 DEF IInv, ConnectionTypes, Serving
<1> DEFINE a == <<"queue", 0>>
<1>4. PICK y : y = EOF
      OBVIOUS
<1>5. a \in Place /\ Held'[a] = Append(Held[a], y)
      BY <1>4, HeldAt, HeldAtNext
<1>6. HeldOK(a, y)' /\ CurrentOK(a, y)'
  <2>1. a[1] = "queue" /\ next_id' \in Nat \ {0}
        BY DEF IInv, ConnectionTypes
  <2> QED BY <1>2, <1>4, <2>1 DEF HeldOK, CurrentOK
<1>7. ASSUME NEW p \in Place, p # a
      PROVE  Held'[p] = Held[p]
      BY <1>7 DEF Held, Place
<1>8. \A p \in Place : Held'[p] = IF p = a THEN Append(Held[a], y) ELSE Held[p]
      BY <1>5, <1>7
<1>9. y \in Item
      BY <1>2, <1>4 DEF Item
<1> HIDE DEF a
<1> QED BY <1>1, <1>2, <1>3, <1>4, <1>5, <1>6, <1>8, <1>9, StepAdds

\* No step of a server or of a reader thread disturbs the invariant.
LEMMA ServeStep ==
    ASSUME IInv, NEW s \in Session, serve(s)
    PROVE  IInv' /\ Loses
<1>1. UNCHANGED <<session, proc, recv_q, next_id, jobVars, pc, sending, abandoned>>
      BY DEF serve
<1>2. CallerKeeps /\ JobInv' /\ ReportIsTrue'
      BY <1>1, CallerUnchanged
<1>3. CASE ServerStart(s)
  <2>1. ConnectionTypes'
        BY <1>1, <1>3 DEF ServerStart, At, IInv, ConnectionTypes, Serving
  <2>0. server' = [server EXCEPT ![s] = "read"] /\ request' = request
        BY <1>3 DEF ServerStart, At
  <2>2. ServerInv'
        BY <2>0 DEF IInv, ServerInv, ConnectionTypes
  <2>3. SlotsInv' /\ Backlog' /\ Loses
        BY <1>1, <1>2, <1>3, <2>1, ServerGoesOn DEF ServerStart, At, Serving, Loses
  <2> QED BY <1>2, <2>1, <2>2, <2>3 DEF IInv
<1>4. CASE ServerRead(s)
  <2>1. ServerInv'
        BY <1>4 DEF ServerRead, At, IInv, ServerInv, ConnectionTypes
  <2>2. CASE stdin[s] # <<>>
        BY <1>1, <1>2, <1>4, <2>1, <2>2, ServerTakesRequest DEF ServerRead, IInv, Loses
  <2>3. CASE stdin[s] = <<>>
    <3>1. ConnectionTypes'
          BY <1>1, <1>4, <2>3 DEF ServerRead, At, IInv, ConnectionTypes, Serving
    <3>2. SlotsInv' /\ Backlog' /\ Loses
          BY <1>1, <1>2, <1>4, <2>3, <3>1, ServerGoesOn DEF ServerRead, At, Serving, Loses
    <3> QED BY <1>2, <2>1, <3>1, <3>2 DEF IInv
  <2> QED BY <2>2, <2>3
<1>5. CASE ServerDispatch(s)
  <2> DEFINE m == request[s]
             raises == m.method = "tools/call" /\ Effect[m.call] = "raise"
             there == IF raises THEN "exited" ELSE IF _dispatch(m) = None THEN "read" ELSE "send"
  <2>1. server[s] = "recv" /\ server' = [server EXCEPT ![s] = there] /\ UNCHANGED <<request, stdin, stdout>>
        BY <1>5 DEF ServerDispatch, At
  <2>2. ConnectionTypes'
        BY <1>1, <2>1 DEF IInv, ConnectionTypes, Serving
  <2>3. HeldOK(<<"server", s>>, m)
        BY <2>1, InHand DEF Serving
  <2>4. there \in {"send", "write"} => m.id # 0 /\ ~raises
        BY <2>3 DEF HeldOK, _dispatch
  <2>5. ServerInv'
        BY <2>1, <2>4 DEF IInv, ServerInv, ConnectionTypes
  <2>6. SlotsInv' /\ Backlog' /\ Loses
    <3>1. CASE there = "send"
          BY <1>1, <1>2, <2>1, <2>2, <3>1, ServerGoesOn DEF Serving, Loses
    <3>2. CASE there # "send"
          BY <1>1, <1>2, <2>1, <2>2, <3>2, ServerDrops DEF Serving
    <3> QED BY <3>1, <3>2
  <2> QED BY <1>2, <2>2, <2>5, <2>6 DEF IInv
<1>6. CASE ServerLogSend(s)
  <2>1. ConnectionTypes'
        BY <1>1, <1>6 DEF ServerLogSend, At, IInv, ConnectionTypes, Serving
  <2>2. ServerInv'
        BY <1>6 DEF ServerLogSend, At, IInv, ServerInv, ConnectionTypes
  <2>3. SlotsInv' /\ Backlog' /\ Loses
        BY <1>1, <1>2, <1>6, <2>1, ServerGoesOn DEF ServerLogSend, At, Serving, Loses
  <2> QED BY <1>2, <2>1, <2>2, <2>3 DEF IInv
<1>7. CASE ServerWrite(s)
  <2>1. ServerInv'
        BY <1>7 DEF ServerWrite, At, IInv, ServerInv, ConnectionTypes
  <2> QED BY <1>1, <1>2, <1>7, <2>1, ServerWrites DEF IInv, Loses
<1> QED BY <1>3, <1>4, <1>5, <1>6, <1>7 DEF serve

LEMMA ReaderStep ==
    ASSUME IInv, NEW s \in Session, _read_loop(s)
    PROVE  IInv' /\ Owed(Held') = Owed(Held)
<1>1. UNCHANGED <<stdin, server, request, session, proc, next_id, jobVars, pc, sending, abandoned>>
      BY DEF _read_loop, serverVars
<1>2. JobInv' /\ ReportIsTrue'
      BY <1>1, CallerUnchanged
<1>3. ServerInv'
      BY <1>1 DEF IInv, ServerInv
<1>4. CASE stdout[s] # <<>>
      BY <1>1, <1>2, <1>3, <1>4, ReaderMoves DEF _read_loop, IInv
<1>5. CASE stdout[s] = <<>>
      BY <1>1, <1>2, <1>3, <1>5, ReaderEnds DEF _read_loop, IInv
<1> QED BY <1>4, <1>5

-----------------------------------------------------------------------------
(* The steps of the caller.                                                 *)

\* A job begins with nothing answered.
LEMMA Begins ==
    ASSUME IInv, NEW kind, NEW asks, Begin(kind, asks), Asks([kind |-> kind, asks |-> asks, first |-> next_id]),
           asks[1].method = "tools/call" => asks[1].call \in Call,
           UNCHANGED <<next_id, abandoned>>
    PROVE  CallerKeeps /\ JobInv' /\ ReportIsTrue'
<1> DEFINE j == [kind |-> kind, asks |-> asks, first |-> next_id]
<1>1. /\ pc = "idle" /\ job' = j /\ pc' = "send" /\ sending' = asks[1] /\ answers' = <<>>
      /\ report' = "running"
      BY DEF Begin
<1>2. next_id \in Nat \ {0} /\ abandoned \in Nat
      BY DEF IInv, ConnectionTypes
<1>3. j.kind = kind /\ j.asks = asks /\ j.first = next_id
      OBVIOUS
<1>4. Len(asks) \in Nat \ {0}
      BY <1>3, LenProperties, EmptySeq DEF Asks
<1>5. <<>> \in Seq([want : Nat, got : Answer]) /\ Len(<<>>) = 0 /\ DOMAIN <<>> = {}
      OBVIOUS
<1>6. JobInv'
  <2>1. Asks(job')
        BY <1>1
  <2>2. answers' \in Seq([want : Nat, got : Answer]) /\ Len(answers') = 0
        BY <1>1, <1>5
  <2> HIDE DEF j
  <2> QED BY <1>1, <1>2, <1>3, <1>4, <2>1, <2>2 DEF JobInv, Asks
<1>7. ReportIsTrue'
      BY <1>1, <1>5 DEF ReportIsTrue
<1>8. CallerKeeps
      BY <1>1, <1>2 DEF CallerKeeps
<1> QED BY <1>6, <1>7, <1>8

\* Nothing is moved when the pipes, the server and the queue are left alone.
LEMMA NothingMoves ==
    ASSUME UNCHANGED <<stdin, stdout, server, request, recv_q>>
    PROVE  \A p \in Place : Held'[p] = Held[p]
BY DEF Held

LEMMA ConnectStep ==
    ASSUME IInv, connect
    PROVE  IInv' /\ Owed(Held') = Owed(Held)
<1> DEFINE asks == <<Ask("initialize", None)>>
<1>1. session + 1 \in Session /\ server[session + 1] = "off"
      BY StdioAssumption DEF connect, IInv, ConnectionTypes, Session
<1>2. Asks([kind |-> "connect", asks |-> asks, first |-> next_id]) /\ asks[1].method = "initialize"
      BY DEF Asks, Ask, Method
<1>3. CallerKeeps /\ JobInv' /\ ReportIsTrue'
      BY <1>2, Begins DEF connect
<1>4. ConnectionTypes'
      BY <1>1, StdioAssumption DEF connect, Begin, IInv, ConnectionTypes, Serving, pipeVars, Session
<1>5. ServerInv'
      BY <1>1 DEF connect, IInv, ServerInv, ConnectionTypes
<1>6. SlotsInv' /\ Backlog' /\ Owed(Held') = Owed(Held)
      BY <1>1, <1>3, <1>4, ServerGoesOn DEF connect, pipeVars, Serving
<1> QED BY <1>3, <1>4, <1>5, <1>6 DEF IInv

LEMMA ExecuteStep ==
    ASSUME IInv, StartExecute
    PROVE  IInv' /\ Owed(Held') = Owed(Held)
<1>1. PICK raw \in RawPlan : Valid(raw) /\ Begin("execute", [i \in DOMAIN raw |-> Ask("tools/call", raw[i])])
      BY DEF StartExecute
<1> DEFINE asks == [i \in DOMAIN raw |-> Ask("tools/call", raw[i])]
<1>2. raw \in Seq(Call) /\ raw # <<>>
      BY <1>1, StdioAssumption DEF Valid
<1>3. /\ asks \in Seq([method : Method, call : Call \cup {None}]) /\ asks # <<>> /\ DOMAIN asks = DOMAIN raw
      /\ \A k \in DOMAIN asks : asks[k].method = "tools/call" /\ asks[k].call \in Call
  <2>1. Len(raw) \in Nat \ {0} /\ DOMAIN raw = 1..Len(raw) /\ \A i \in 1..Len(raw) : raw[i] \in Call
        BY <1>2, LenProperties, EmptySeq, ElementOfSeq
  <2>2. \A i \in 1..Len(raw) : /\ asks[i] \in [method : Method, call : Call \cup {None}]
                              /\ asks[i].method = "tools/call" /\ asks[i].call \in Call
        BY <2>1 DEF Ask, Method
  <2>3. DOMAIN asks = 1..Len(raw)
        BY <2>1
  <2>4. asks \in [1..Len(raw) -> [method : Method, call : Call \cup {None}]]
        BY <2>2, <2>3
  <2>5. asks \in Seq([method : Method, call : Call \cup {None}]) /\ asks # <<>>
        BY <2>1, <2>4
  <2> QED BY <2>1, <2>2, <2>3, <2>5
<1>4. 1 \in DOMAIN asks
      BY <1>2, <1>3, TailIs
<1>5. Asks([kind |-> "execute", asks |-> asks, first |-> next_id])
  <2> HIDE DEF asks
  <2> QED BY <1>3 DEF Asks
<1>6. UNCHANGED <<session, proc, stdin, stdout, server, request, recv_q, next_id, abandoned>>
      BY DEF StartExecute, pipeVars, serverVars
<1>7. CallerKeeps /\ JobInv' /\ ReportIsTrue'
      BY <1>1, <1>3, <1>4, <1>5, <1>6, Begins
<1>8. ConnectionTypes' /\ ServerInv'
      BY <1>1, <1>6 DEF Begin, IInv, ConnectionTypes, ServerInv
<1> QED BY <1>6, <1>7, <1>8, NothingMoves, StepSame DEF IInv

LEMMA ReactStep ==
    ASSUME IInv, StartReact
    PROVE  IInv' /\ Owed(Held') = Owed(Held)
<1>1. PICK t \in Task : Begin("react", <<Ask("tools/list", None), Ask("tools/call", t)>>)
      BY DEF StartReact
<1> DEFINE asks == <<Ask("tools/list", None), Ask("tools/call", t)>>
<1>2. t \in Call \cup {None}
      BY <1>1, StdioAssumption
<1>3. /\ asks \in Seq([method : Method, call : Call \cup {None}]) /\ asks # <<>> /\ Len(asks) = 2
      /\ DOMAIN asks = {1, 2} /\ asks[1].method = "tools/list" /\ asks[2].method = "tools/call"
  <2> DEFINE S == [method : Method, call : Call \cup {None}]
  <2>1. PICK x, y : x = Ask("tools/list", None) /\ y = Ask("tools/call", t)
        OBVIOUS
  <2>2. x \in S /\ y \in S /\ x.method = "tools/list" /\ y.method = "tools/call"
        BY <1>2, <2>1 DEF Ask, Method
  <2>3. asks = <<x, y>>
        BY <2>1
  <2> HIDE DEF S, asks
  <2>4. asks \in Seq(S) /\ asks # <<>> /\ Len(asks) = 2 /\ DOMAIN asks = {1, 2} /\ asks[1] = x /\ asks[2] = y
        BY <2>2, <2>3
  <2> QED BY <2>2, <2>4 DEF S
<1>4. Asks([kind |-> "react", asks |-> asks, first |-> next_id])
  <2> HIDE DEF asks
  <2> QED BY <1>3 DEF Asks
<1>5. UNCHANGED <<session, proc, stdin, stdout, server, request, recv_q, next_id, abandoned>>
      BY DEF StartReact, pipeVars, serverVars
<1>6. CallerKeeps /\ JobInv' /\ ReportIsTrue'
      BY <1>1, <1>3, <1>4, <1>5, Begins
<1>7. ConnectionTypes' /\ ServerInv'
      BY <1>1, <1>5 DEF Begin, IInv, ConnectionTypes, ServerInv
<1> QED BY <1>5, <1>6, <1>7, NothingMoves, StepSame DEF IInv

\* What is known of the call that is to be made or waits.
LEMMA Asked ==
    ASSUME IInv, pc \in {"send", "wait"}
    PROVE  /\ Asks(job) /\ report = "running" /\ Len(answers) \in Nat /\ Len(job.asks) \in Nat
           /\ Len(answers) < Len(job.asks) /\ Len(answers) + 1 \in DOMAIN job.asks
           /\ sending = job.asks[Len(answers) + 1]
           /\ sending.method \in Method \ {"initialized"} /\ sending.call \in Call \cup {None}
           /\ sending.method = "tools/call" => sending.call \in Call
           /\ job.first \in Nat \ {0}
           /\ next_id = job.first + Len(answers) + (IF pc = "wait" THEN 1 ELSE 0)
<1>1. /\ Asks(job) /\ report = "running" /\ job.first \in Nat \ {0}
      /\ Len(answers) < Len(job.asks) /\ sending = job.asks[Len(answers) + 1]
      /\ sending.method = "tools/call" => sending.call \in Call
      /\ next_id = job.first + Len(answers) + (IF pc = "wait" THEN 1 ELSE 0)
      /\ answers \in Seq([want : Nat, got : Answer])
      BY DEF IInv, JobInv
<1>2. job.asks \in Seq([method : Method, call : Call \cup {None}])
      BY <1>1 DEF Asks
<1>3. Len(answers) \in Nat /\ Len(job.asks) \in Nat /\ DOMAIN job.asks = 1..Len(job.asks)
      BY <1>1, <1>2, LenProperties
<1>4. Len(answers) + 1 \in DOMAIN job.asks
      BY <1>1, <1>3
<1>5. sending \in [method : Method, call : Call \cup {None}]
      BY <1>1, <1>2, <1>3, <1>4, ElementOfSeq
<1>6. sending.method # "initialized"
      BY <1>1, <1>4 DEF Asks
<1> QED BY <1>1, <1>3, <1>4, <1>5, <1>6

\* A call is given up, or cannot be made: the job is over with what was answered.
LEMMA Raises ==
    ASSUME IInv, pc \in {"send", "wait"}, Raise, UNCHANGED <<job, answers>>,
           (pc = "send" /\ next_id' = next_id + 1 /\ abandoned' = abandoned)
               \/ (next_id' = next_id /\ abandoned' = abandoned + 1)
    PROVE  CallerKeeps /\ JobInv' /\ ReportIsTrue'
<1>1. next_id \in Nat /\ abandoned \in Nat
      BY DEF IInv, ConnectionTypes
<1>2. pc' = "idle" /\ report' = IF job.kind = "execute" THEN "failure" ELSE "raised"
      BY DEF Raise, Finish
<1>3. CallerKeeps
      BY <1>1 DEF CallerKeeps
<1>4. JobInv'
      BY <1>2 DEF IInv, JobInv, Asks
<1>5. ReportIsTrue'
  <2>1. CASE abandoned' = abandoned + 1
        BY <1>1, <2>1 DEF ReportIsTrue
  <2>2. CASE pc = "send" /\ next_id' = next_id + 1 /\ abandoned' = abandoned
        BY <1>1, <1>2, <2>2, Asked DEF IInv, ReportIsTrue
  <2> QED BY <2>1, <2>2
<1> QED BY <1>3, <1>4, <1>5

LEMMA SendStep ==
    ASSUME IInv, Send
    PROVE  IInv' /\ Owed(Held') = IF Broken THEN Owed(Held) ELSE Owed(Held) \cup {next_id}
<1>1. /\ pc = "send" /\ next_id' = next_id + 1 /\ next_id \in Nat \ {0} /\ abandoned \in Nat
      /\ UNCHANGED <<session, proc, stdout, server, request, recv_q, job, answers, abandoned>>
      BY DEF Send, callerRest, serverVars, IInv, ConnectionTypes
<1>2. ServerInv'
      BY <1>1 DEF IInv, ServerInv
<1>3. CASE Broken
  <2>1. Raise /\ UNCHANGED stdin
        BY <1>3 DEF Send
  <2>2. CallerKeeps /\ JobInv' /\ ReportIsTrue'
        BY <1>1, <2>1, Raises
  <2>3. ConnectionTypes'
        BY <1>1, <2>1 DEF Raise, Finish, IInv, ConnectionTypes
  <2>4. SlotsInv' /\ Backlog' /\ Owed(Held') = Owed(Held)
        BY <1>1, <2>1, <2>2, <2>3, NothingMoves, StepSame
  <2> QED BY <1>2, <1>3, <2>2, <2>3, <2>4 DEF IInv
<1>4. CASE ~Broken
  <2>1. PICK y : y = [id |-> next_id, method |-> sending.method, call |-> sending.call]
        OBVIOUS
  <2>2. PICK s : s = proc
        OBVIOUS
  <2>3. /\ s \in Session /\ stdin' = [stdin EXCEPT ![s] = Append(@, y)]
        /\ pc' = "wait" /\ UNCHANGED <<sending, report>>
        BY <1>1, <1>4, <2>1, <2>2, StdioAssumption DEF Send, Broken, IInv, ConnectionTypes, Session
  <2>4. y \in Message /\ y.id = next_id /\ y.method = sending.method /\ y.call = sending.call
        /\ y.method # "initialized"
        BY <1>1, <2>1, Asked DEF Message
  <2>5. Append(stdin[s], y) \in Seq(Message)
        BY <2>3, <2>4, AppendProperties DEF IInv, ConnectionTypes
  <2>6. ConnectionTypes'
        BY <1>1, <2>3, <2>5 DEF IInv, ConnectionTypes
  <2>7. JobInv'
        BY <1>1, <2>3, Asked DEF IInv, JobInv, Asks
  <2>8. ReportIsTrue'
        BY <1>1, <2>3, Asked DEF IInv, ReportIsTrue
  <2> DEFINE a == <<"stdin", s>>
  <2>9. OthersSame(s) /\ stdin'[s] = Append(stdin[s], y)
        BY <1>1, <2>3 DEF OthersSame, IInv, ConnectionTypes
  <2>10. \A p \in Place : Held'[p] = IF p = a THEN Append(Held[a], y) ELSE Held[p]
    <3>1. a \in Place /\ Held'[a] = Append(Held[a], y)
          BY <2>3, <2>9, HeldAt, HeldAtNext
    <3>2. Held'[<<"stdout", s>>] = Held[<<"stdout", s>>] /\ Held'[<<"server", s>>] = Held[<<"server", s>>]
          BY <1>1, <2>3, HeldAt, HeldAtNext
    <3>3. Held'[<<"queue", 0>>] = Held[<<"queue", 0>>]
          BY <1>1, HeldAt, HeldAtNext
    <3> QED BY <2>3, <2>9, <3>1, <3>2, <3>3, Elsewhere, PlacesDiffer
  <2>11. Held \in [Place -> Seq(Item)] /\ Held' \in [Place -> Seq(Item)] /\ Distinct(Held)
         /\ AddsTo(Held, Held', a, y)
    <3>1. Held \in [Place -> Seq(Item)] /\ Held' \in [Place -> Seq(Item)] /\ Distinct(Held) /\ a \in Place /\ y \in Item
          BY <2>3, <2>4, <2>6, HeldType, HeldTypeNext, HeldAt DEF IInv, Backlog, Item
    <3> QED BY <2>10, <3>1 DEF AddsTo
  <2>12. Owing(y)
         BY <1>1, <2>4 DEF Owing, Notification, EOF
  <2>13. y.id \notin Owed(Held)
         BY <1>1, <2>4, OwedFinite DEF IInv
  <2>14. Distinct(Held') /\ Owed(Held') = Owed(Held) \cup {y.id}
         BY <2>11, <2>12, <2>13, Added
  <2>15. Backlog'
    <3>1. IsFiniteSet(Owed(Held)) /\ Cardinality(Owed(Held)) \in Nat
          BY OwedFinite DEF IInv
    <3>2. Cardinality(Owed(Held')) = Cardinality(Owed(Held)) + 1
          BY <2>13, <2>14, <3>1, FS_AddElement
    <3>3. Cardinality(Owed(Held)) <= abandoned
          BY <1>1, <3>1 DEF IInv, Backlog
    <3> QED BY <1>1, <2>3, <2>14, <3>1, <3>2, <3>3 DEF Backlog
  <2>16. SlotsInv'
    <3> SUFFICES ASSUME NEW p \in Place, NEW i \in DOMAIN Held'[p]
                 PROVE  HeldOK(p, Held[p][i])' /\ CurrentOK(p, Held[p][i])'
        BY DEF SlotsInv
    <3>1. (p = a /\ Held'[p][i] = y) \/ \E j \in DOMAIN Held[p] : Held'[p][i] = Held[p][j]
          BY <2>11, AddedItems
    <3>2. CASE p = a /\ Held'[p][i] = y
      <4>1. HeldOK(p, y)'
            BY <1>1, <2>4, <2>12, <3>2 DEF HeldOK
      <4>2. CurrentOK(p, y)'
            BY <1>1, <2>3, <2>4, <3>2 DEF CurrentOK
      <4> QED BY <3>2, <4>1, <4>2
    <3>3. ASSUME NEW j \in DOMAIN Held[p], Held'[p][i] = Held[p][j]
          PROVE  HeldOK(p, Held[p][i])' /\ CurrentOK(p, Held[p][i])'
      <4>1. CallerKeeps
            BY <1>1 DEF CallerKeeps
      <4> QED BY <2>6, <3>3, <4>1, ItemKept
    <3> QED BY <3>1, <3>2, <3>3
  <2> QED BY <1>2, <1>4, <2>4, <2>6, <2>7, <2>8, <2>14, <2>15, <2>16 DEF IInv
<1> QED BY <1>3, <1>4

LEMMA TimeoutStep ==
    ASSUME IInv, RecvTimeout
    PROVE  IInv' /\ Owed(Held') = Owed(Held)
<1>1. /\ pc = "wait" /\ Raise /\ abandoned' = abandoned + 1
      /\ UNCHANGED <<session, proc, stdin, stdout, server, request, recv_q, next_id, job, answers>>
      BY DEF RecvTimeout, callerRest, serverVars
<1>2. CallerKeeps /\ JobInv' /\ ReportIsTrue'
      BY <1>1, Raises
<1>3. ConnectionTypes' /\ ServerInv'
      BY <1>1 DEF Raise, Finish, IInv, ConnectionTypes, ServerInv
<1> QED BY <1>1, <1>2, <1>3, NothingMoves, StepSame DEF IInv

\* What the caller may do with an answer.
LEMMA Continues ==
    ASSUME IInv, pc = "wait", NEW y, Continue(Len(answers) + 1, y)
    PROVE  \/ /\ job.kind = "connect" /\ pc' = "notify" /\ UNCHANGED <<sending, report>>
           \/ /\ Len(answers) + 1 < Len(job.asks) /\ pc' = "send" /\ UNCHANGED report
              /\ sending' = job.asks[Len(answers) + 2]
              /\ job.kind = "execute" \/ (job.kind = "react" /\ job.asks[2].call # None)
           \/ /\ pc' = "idle" /\ job.kind # "connect"
              /\ report' = "success" \/ (report' \in {"failure", "no_tool"} /\ job.kind = "react")
              /\ report' = "success" => Len(answers) + 1 = Len(job.asks)
              /\ report' = "success" /\ job.kind = "react" => ~y.isError
<1>1. /\ Asks(job) /\ Len(answers) \in Nat /\ Len(job.asks) \in Nat /\ Len(answers) < Len(job.asks)
      BY Asked
<1>2. CASE job.kind = "connect"
      BY <1>2 DEF Continue
<1>3. CASE job.kind = "execute"
      BY <1>1, <1>3 DEF Continue, Finish
<1>4. CASE job.kind = "react"
  <2>1. Len(job.asks) = 2
        BY <1>1, <1>4 DEF Asks
  <2>2. CASE Len(answers) = 0
        BY <1>4, <2>1, <2>2 DEF Continue, Finish
  <2>3. CASE Len(answers) = 1
        BY <1>4, <2>1, <2>3 DEF Continue, Finish
  <2>4. Len(answers) = 0 \/ Len(answers) = 1
    <3>1. \A n, l \in Nat : n < l /\ l = 2 => n = 0 \/ n = 1
          OBVIOUS
    <3> QED BY <1>1, <2>1, <3>1
  <2> QED BY <2>2, <2>3, <2>4
<1> QED BY <1>1, <1>2, <1>3, <1>4 DEF Asks

\* The answer that _rpc returns is one to the call that waits, unless one was given up.
LEMMA AnswerStep ==
    ASSUME IInv, _recv, Head(recv_q) # EOF
    PROVE  /\ IInv' /\ Head(recv_q).id \in Owed(Held) /\ Owed(Held') = Owed(Held) \ {Head(recv_q).id}
           /\ abandoned = 0 => Head(recv_q).id = next_id - 1
<1>1. PICK y : y = Head(recv_q)
      OBVIOUS
<1> DEFINE a == <<"queue", 0>>
           x == [want |-> next_id - 1, got |-> y]
<1>2. /\ pc = "wait" /\ recv_q # <<>> /\ recv_q' = Tail(recv_q)
      /\ answers' = Append(answers, x) /\ Continue(Len(answers) + 1, y)
      /\ UNCHANGED <<session, proc, stdin, stdout, server, request, next_id, job, abandoned>>
      BY <1>1 DEF _recv, callerRest, serverVars
<1>3. /\ next_id \in Nat \ {0} /\ abandoned \in Nat /\ recv_q \in Seq(Answer)
      /\ Head(recv_q) \in Answer /\ Tail(recv_q) \in Seq(Answer)
      BY <1>2, HeadTailProperties DEF IInv, ConnectionTypes
<1>4. y \in Answer
      BY <1>1, <1>3
<1>5. /\ a \in Place /\ Held[a] = recv_q /\ Head(Held[a]) = y /\ Held[a] # <<>>
      /\ HeldOK(a, y) /\ CurrentOK(a, y)
      BY <1>1, <1>2, HeldAt, AtHead
<1>6. y.id # 0 /\ Owing(y)
      BY <1>1, <1>5 DEF HeldOK
<1>7. ConnectionTypes' /\ ServerInv' /\ pc' # "wait" /\ pc' # "closing"
  <2>1. pc' \in {"idle", "send", "notify"}
        BY <1>2, Continues
  <2> QED BY <1>2, <1>3, <2>1 DEF IInv, ConnectionTypes, ServerInv
<1>8. \A p \in Place : Held'[p] = IF p = a THEN Tail(Held[a]) ELSE Held[p]
  <2>1. Held'[a] = Tail(Held[a])
        BY <1>2, <1>5, HeldAtNext
  <2>2. ASSUME NEW p \in Place, p # a
        PROVE  Held'[p] = Held[p]
        BY <1>2, <2>2 DEF Held, Place
  <2> QED BY <2>1, <2>2
<1>9. TakesFrom(Held, Held', a) /\ Distinct(Held)
  <2>1. Held \in [Place -> Seq(Item)] /\ Held' \in [Place -> Seq(Item)] /\ Distinct(Held)
        BY <1>7, HeldType, HeldTypeNext DEF IInv, Backlog
  <2> QED BY <1>5, <1>8, <2>1 DEF TakesFrom
<1>10. Distinct(Held') /\ y.id \in Owed(Held) /\ Owed(Held') = Owed(Held) \ {y.id}
      BY <1>5, <1>6, <1>9, Taken
<1>11. Backlog'
  <2>1. IsFiniteSet(Owed(Held)) /\ Cardinality(Owed(Held)) \in Nat
        BY OwedFinite DEF IInv
  <2>2. Cardinality(Owed(Held')) = Cardinality(Owed(Held)) - 1
        BY <1>10, <2>1, FS_RemoveElement
  <2>3. Cardinality(Owed(Held)) <= abandoned + 1
        BY <1>2 DEF IInv, Backlog
  <2> QED BY <1>2, <1>3, <1>7, <1>10, <2>1, <2>2, <2>3 DEF Backlog
<1>12. SlotsInv'
  <2> SUFFICES ASSUME NEW p \in Place, NEW i \in DOMAIN Held'[p]
               PROVE  HeldOK(p, Held[p][i])' /\ CurrentOK(p, Held[p][i])'
      BY DEF SlotsInv
  <2>1. PICK j \in DOMAIN Held[p] : Held'[p][i] = Held[p][j]
        BY <1>9, TakenItems
  <2>2. PICK m : m = Held'[p][i]
        OBVIOUS
  <2>3. HeldOK(p, m) /\ CurrentOK(p, m)
        BY <2>1, <2>2 DEF IInv, SlotsInv
  <2>4. HeldOK(p, m)'
        BY <1>2, <2>3 DEF HeldOK
  <2>5. CurrentOK(p, m)'
    <3>1. ASSUME abandoned = 0, m.id # 0
          PROVE  FALSE
      <4>1. m.id = next_id - 1 /\ y.id = next_id - 1
            BY <1>5, <1>6, <2>3, <3>1 DEF CurrentOK
      <4>2. Owing(m)
            BY <2>3, <3>1 DEF HeldOK
      <4>3. m.id \in Owed(Held')
            BY <2>2, <4>2, OwedIs
      <4> QED BY <1>10, <4>1, <4>3
    <3> QED BY <1>2, <3>1 DEF CurrentOK
  <2> QED BY <2>2, <2>4, <2>5
<1>13. /\ Len(answers) \in Nat /\ answers \in Seq([want : Nat, got : Answer])
       /\ answers' \in Seq([want : Nat, got : Answer]) /\ Len(answers') = Len(answers) + 1
       /\ DOMAIN answers = 1..Len(answers) /\ DOMAIN answers' = 1..(Len(answers) + 1)
       /\ \A k \in 1..Len(answers) : answers'[k] = answers[k]
       /\ answers'[Len(answers) + 1] = x
  <2>1. x \in [want : Nat, got : Answer]
        BY <1>3, <1>4
  <2>2. answers \in Seq([want : Nat, got : Answer])
        BY DEF IInv, JobInv
  <2> HIDE DEF x
  <2> QED BY <1>2, <2>1, <2>2, AppendProperties, LenProperties
<1>14. JobInv'
  <2> HIDE DEF x
  <2>1. CASE pc' = "notify"
        BY <1>2, <1>13, <2>1, Asked, Continues DEF JobInv, Asks
  <2>2. CASE pc' = "idle"
        BY <1>2, <1>13, <2>2, Asked, Continues DEF JobInv, Asks
  <2>3. CASE pc' = "send"
    <3>1. /\ Len(answers) + 1 < Len(job.asks) /\ report' = report
          /\ sending' = job.asks[Len(answers) + 2]
          /\ job.kind = "execute" \/ (job.kind = "react" /\ job.asks[2].call # None)
          BY <1>2, <2>3, Continues
    <3>2. /\ Asks(job) /\ report = "running" /\ Len(job.asks) \in Nat /\ job.first \in Nat \ {0}
          /\ next_id = job.first + Len(answers) + 1
          BY <1>2, Asked
    <3>3. job.asks \in Seq([method : Method, call : Call \cup {None}])
          BY <3>2 DEF Asks
    <3>4. Len(answers) + 2 \in DOMAIN job.asks /\ sending' \in [method : Method, call : Call \cup {None}]
      <4>1. Len(answers) + 2 \in 1..Len(job.asks)
            BY <1>13, <3>1, <3>2
      <4>2. DOMAIN job.asks = 1..Len(job.asks)
            BY <3>3, LenProperties
      <4> QED BY <3>1, <3>3, <4>1, <4>2, ElementOfSeq
    <3>5. sending'.call \in Call
      <4>1. CASE job.kind = "execute"
            BY <3>1, <3>2, <3>4, <4>1 DEF Asks
      <4>2. CASE job.kind = "react"
        <5>1. Len(answers) + 2 = 2
              BY <1>13, <3>1, <3>2, <4>2 DEF Asks
        <5> QED BY <3>1, <3>4, <4>2, <5>1
      <4> QED BY <3>1, <4>1, <4>2
    <3>6. next_id' = job'.first + Len(answers')
      <4>1. job' = job /\ next_id' = next_id /\ Len(answers') = Len(answers) + 1 /\ Len(answers) \in Nat
            BY <1>2, <1>13
      <4>2. job.first + Len(answers) + 1 = job.first + (Len(answers) + 1)
            BY <3>2, <4>1
      <4> QED BY <3>2, <4>1, <4>2
    <3>7. Asks(job') /\ job'.first \in Nat \ {0} /\ Len(answers') < Len(job'.asks)
          /\ sending' = job'.asks[Len(answers') + 1] /\ report' = "running"
          BY <1>2, <1>13, <3>1, <3>2 DEF Asks
    <3>8. Len(answers') <= Len(job'.asks) /\ job'.kind # "none"
          BY <1>2, <1>13, <3>1, <3>2 DEF Asks
    <3>9. answers' \in Seq([want : Nat, got : Answer])
          BY <1>13
    <3> QED BY <2>3, <3>5, <3>6, <3>7, <3>8, <3>9 DEF JobInv
  <2> QED BY <1>2, <2>1, <2>2, <2>3, Continues
<1>15. ReportIsTrue'
  <2> HIDE DEF x
  <2> SUFFICES ASSUME abandoned = 0
               PROVE  ReportIsTrue'
      BY <1>2 DEF ReportIsTrue
  <2>1. /\ Asks(job) /\ report = "running" /\ Len(job.asks) \in Nat /\ job.first \in Nat \ {0}
        /\ next_id = job.first + Len(answers) + 1 /\ sending = job.asks[Len(answers) + 1]
        /\ sending.method = "tools/call" => sending.call \in Call
        /\ Len(answers) + 1 \in DOMAIN job.asks
        BY <1>2, Asked
  <2>2. /\ y.id = next_id - 1 /\ y.method = sending.method
        /\ y.isError <=> sending.method = "tools/call" /\ Effect[sending.call] = "error"
        /\ sending.method = "tools/call" => Effect[sending.call] # "raise"
        BY <1>5, <1>6 DEF CurrentOK
  <2>3. \A k \in DOMAIN answers' :
           /\ answers'[k].want = job'.first + k - 1
           /\ answers'[k].got.id = answers'[k].want
           /\ answers'[k].got.method = job'.asks[k].method
    <3> SUFFICES ASSUME NEW k \in DOMAIN answers'
                 PROVE  /\ answers'[k].want = job.first + k - 1
                        /\ answers'[k].got.id = answers'[k].want
                        /\ answers'[k].got.method = job.asks[k].method
        BY <1>2
    <3>1. CASE k = Len(answers) + 1
      <4>1. answers'[k].want = next_id - 1 /\ answers'[k].got = y
            BY <1>13, <3>1 DEF x
      <4>2. next_id - 1 = job.first + k - 1
            BY <1>13, <2>1, <3>1
      <4> QED BY <2>1, <2>2, <3>1, <4>1, <4>2
    <3>2. CASE k # Len(answers) + 1
      <4>1. k \in DOMAIN answers /\ answers'[k] = answers[k]
            BY <1>13, <3>2
      <4>2. job.kind # "none"
            BY <2>1 DEF Asks
      <4> QED BY <4>1, <4>2 DEF IInv, ReportIsTrue
    <3> QED BY <3>1, <3>2
  <2>4. /\ report' = "success" => Len(answers) + 1 = Len(job.asks)
        /\ report' = "success" /\ job.kind = "react" => ~y.isError
        /\ report' \in {"failure", "raised"} => job.kind = "react"
        BY <1>2, <2>1, Continues
  <2>5. ASSUME report' = "success", job.kind = "react"
        PROVE  Effect[job.asks[2].call] = "ok"
    <3>1. Len(answers) + 1 = 2
          BY <2>1, <2>4, <2>5 DEF Asks
    <3>2. sending = job.asks[2]
          BY <2>1, <3>1
    <3>3. sending.method = "tools/call"
          BY <2>1, <2>5, <3>1, <3>2 DEF Asks
    <3>4. Effect[sending.call] \in {"ok", "error", "raise"}
          BY <2>1, <3>3, StdioAssumption
    <3> QED BY <2>2, <2>4, <2>5, <3>2, <3>3, <3>4
  <2> QED BY <1>2, <1>13, <2>3, <2>4, <2>5 DEF ReportIsTrue
<1>16. abandoned = 0 => y.id = next_id - 1
       BY <1>5, <1>6 DEF CurrentOK
<1>17. IInv'
       BY <1>7, <1>11, <1>12, <1>14, <1>15 DEF IInv
<1> QED BY <1>1, <1>10, <1>16, <1>17

\* The queue ends: the call that waits is given up.
LEMMA EOFStep ==
    ASSUME IInv, _recv, Head(recv_q) = EOF
    PROVE  IInv' /\ Owed(Held') = Owed(Held)
<1> DEFINE a == <<"queue", 0>>
<1>1. /\ pc = "wait" /\ recv_q # <<>> /\ recv_q' = Tail(recv_q) /\ Raise
      /\ UNCHANGED <<session, proc, stdin, stdout, server, request, next_id, job, answers>>
      /\ abandoned' = abandoned + 1
      BY DEF _recv, callerRest, serverVars
<1>2. CallerKeeps /\ JobInv' /\ ReportIsTrue'
      BY <1>1, Raises
<1>3. Tail(recv_q) \in Seq(Answer)
      BY <1>1, HeadTailProperties DEF IInv, ConnectionTypes
<1>4. ConnectionTypes' /\ ServerInv'
      BY <1>1, <1>3 DEF Raise, Finish, IInv, ConnectionTypes, ServerInv
<1>5. a \in Place /\ Held[a] = recv_q
      BY HeldAt
<1>6. \A p \in Place : Held'[p] = IF p = a THEN Tail(Held[a]) ELSE Held[p]
  <2>1. Held'[a] = Tail(Held[a])
        BY <1>1, <1>5, HeldAtNext
  <2>2. ASSUME NEW p \in Place, p # a
        PROVE  Held'[p] = Held[p]
        BY <1>1, <2>2 DEF Held, Place
  <2> QED BY <2>1, <2>2
<1>7. ~Owing(Head(Held[a]))
      BY <1>5 DEF Owing
<1>8. SlotsInv' /\ Backlog' /\ Owed(Held') = Owed(Held)
      BY <1>1, <1>2, <1>4, <1>5, <1>6, <1>7, StepTakes
<1> QED BY <1>2, <1>4, <1>8 DEF IInv

LEMMA NotifyStep ==
    ASSUME IInv, Notify
    PROVE  IInv' /\ Owed(Held') = Owed(Held)
<1>1. /\ pc = "notify" /\ pc' = "idle"
      /\ UNCHANGED <<session, proc, stdout, server, request, recv_q, next_id, job, answers, abandoned>>
      /\ report' \in {"success", "failure", "raised"}
      BY DEF Notify, Raise, Finish, callerRest, serverVars
<1>2. CallerKeeps
      BY <1>1 DEF CallerKeeps, IInv, ConnectionTypes
<1>3. Asks(job) /\ job.kind = "connect" /\ Len(answers) = 1 /\ Len(job.asks) = 1
      BY <1>1 DEF IInv, JobInv, Asks
<1>4. JobInv'
      BY <1>1 DEF IInv, JobInv, Asks
<1>5. ReportIsTrue'
      BY <1>1, <1>3 DEF IInv, ReportIsTrue
<1>6. ServerInv'
      BY <1>1 DEF IInv, ServerInv
<1>7. CASE UNCHANGED stdin
  <2>1. ConnectionTypes'
        BY <1>1, <1>7 DEF IInv, ConnectionTypes
  <2> QED BY <1>1, <1>2, <1>4, <1>5, <1>6, <1>7, <2>1, NothingMoves, StepSame DEF IInv
<1>8. CASE ~Broken /\ stdin' = [stdin EXCEPT ![proc] = Append(@, Notification)]
  <2>1. PICK s, y : s = proc /\ y = Notification
        OBVIOUS
  <2>2. s \in Session /\ stdin' = [stdin EXCEPT ![s] = Append(@, y)]
        BY <1>1, <1>8, <2>1, StdioAssumption DEF Broken, IInv, ConnectionTypes, Session
  <2>3. y \in Message /\ y.id = 0 /\ y.method = "initialized"
        BY <2>1 DEF Message, Method, Notification
  <2>4. ~Owing(y)
        BY <2>1 DEF Owing
  <2>5. Append(stdin[s], y) \in Seq(Message)
        BY <2>2, <2>3, AppendProperties DEF IInv, ConnectionTypes
  <2>6. ConnectionTypes'
        BY <1>1, <2>2, <2>5 DEF IInv, ConnectionTypes
  <2> DEFINE a == <<"stdin", s>>
  <2>7. OthersSame(s) /\ stdin'[s] = Append(stdin[s], y)
        BY <1>1, <2>2 DEF OthersSame, IInv, ConnectionTypes
  <2>8. a \in Place /\ \A p \in Place : Held'[p] = IF p = a THEN Append(Held[a], y) ELSE Held[p]
    <3>1. a \in Place /\ Held'[a] = Append(Held[a], y)
          BY <2>2, <2>7, HeldAt, HeldAtNext
    <3>2. Held'[<<"stdout", s>>] = Held[<<"stdout", s>>] /\ Held'[<<"server", s>>] = Held[<<"server", s>>]
          BY <1>1, <2>2, HeldAt, HeldAtNext
    <3>3. Held'[<<"queue", 0>>] = Held[<<"queue", 0>>]
          BY <1>1, HeldAt, HeldAtNext
    <3> QED BY <2>2, <2>7, <3>1, <3>2, <3>3, Elsewhere, PlacesDiffer
  <2>9. HeldOK(a, y)' /\ CurrentOK(a, y)'
    <3>1. next_id' \in Nat \ {0}
          BY <2>6 DEF ConnectionTypes
    <3>2. a[1] = "stdin"
          OBVIOUS
    <3> HIDE DEF a
    <3>3. 0 \in 0..(next_id' - 1)
      <4>1. \A n \in Nat \ {0} : 0 \in 0..(n - 1)
            OBVIOUS
      <4> QED BY <3>1, <4>1
    <3> QED BY <2>3, <2>4, <3>2, <3>3 DEF HeldOK, CurrentOK
  <2>10. y \in Item
         BY <2>3 DEF Item
  <2> HIDE DEF a
  <2>11. SlotsInv' /\ Backlog' /\ Owed(Held') = Owed(Held)
         BY <1>2, <2>4, <2>6, <2>8, <2>9, <2>10, StepAdds
  <2> QED BY <1>4, <1>5, <1>6, <2>6, <2>11 DEF IInv
<1> QED BY <1>7, <1>8 DEF Notify

LEMMA CloseStep ==
    ASSUME IInv, close
    PROVE  IInv' /\ Owed(Held') = Owed(Held)
<1>1. /\ pc = "idle" /\ pc' = "closing" /\ proc # 0
      /\ UNCHANGED <<session, proc, stdin, stdout, server, request, recv_q, next_id, jobVars, abandoned>>
      BY DEF close, callerRest, serverVars
<1>2. CallerKeeps
      BY <1>1 DEF CallerKeeps, IInv, ConnectionTypes
<1>3. JobInv' /\ ReportIsTrue'
      BY <1>1 DEF IInv, JobInv, Asks, ReportIsTrue, jobVars
<1>4. ConnectionTypes' /\ ServerInv'
      BY <1>1 DEF IInv, ConnectionTypes, ServerInv
<1> QED BY <1>1, <1>2, <1>3, <1>4, NothingMoves, StepSame DEF IInv

LEMMA CloseWaitStep ==
    ASSUME IInv, CloseWait
    PROVE  IInv' /\ Loses
<1>1. PICK s : s = proc
      OBVIOUS
<1>2. /\ pc = "closing" /\ pc' = "idle" /\ proc' = 0 /\ server' = [server EXCEPT ![s] = "exited"]
      /\ UNCHANGED <<session, stdin, stdout, request, recv_q, next_id, jobVars, abandoned>>
      BY <1>1 DEF CloseWait, pipeVars
<1>3. s \in Session /\ s <= session
      BY <1>1, <1>2, StdioAssumption DEF IInv, ConnectionTypes, Session
<1>4. CallerKeeps
      BY <1>2 DEF CallerKeeps, IInv, ConnectionTypes
<1>5. JobInv' /\ ReportIsTrue'
      BY <1>2 DEF IInv, JobInv, Asks, ReportIsTrue, jobVars
<1>6. ConnectionTypes'
  <2>1. \A t \in Session : server'[t] = IF t = s THEN "exited" ELSE server[t]
        BY <1>2 DEF IInv, ConnectionTypes
  <2>2. server' \in [Session -> Serving \cup {"off", "start", "read", "exited"}]
        BY <1>2 DEF IInv, ConnectionTypes
  <2>3. \A t \in Session : (server'[t] \in Serving => request'[t] \in Message) /\ (t > session' => server'[t] = "off")
        BY <1>2, <1>3, <2>1 DEF IInv, ConnectionTypes, Serving, Session
  <2>4. session' \in 0..MaxSession /\ proc' \in 0..session'
        BY <1>2, StdioAssumption DEF IInv, ConnectionTypes
  <2> QED BY <1>2, <2>2, <2>3, <2>4 DEF IInv, ConnectionTypes
<1>7. ServerInv'
      BY <1>2 DEF IInv, ConnectionTypes, ServerInv
<1>8. SlotsInv' /\ Backlog' /\ Loses
  <2>1. CASE server[s] \in Serving
        BY <1>2, <1>3, <1>4, <1>6, <2>1, ServerDrops DEF Serving
  <2>2. CASE server[s] \notin Serving
        BY <1>2, <1>3, <1>4, <1>6, <2>2, ServerGoesOn DEF Serving, Loses
  <2> QED BY <2>1, <2>2
<1> QED BY <1>4, <1>5, <1>6, <1>7, <1>8 DEF IInv

-----------------------------------------------------------------------------
(* The theorems.                                                            *)

LEMMA StdioInit == Init => IInv
<1> SUFFICES ASSUME Init PROVE IInv
    OBVIOUS
<1>1. ConnectionTypes
      BY StdioAssumption DEF Init, ConnectionTypes, Session, Serving
<1>2. JobInv /\ ServerInv
      BY DEF Init, JobInv, ServerInv, Asks
<1>3. \A p \in Place : Held[p] = <<>>
      BY DEF Init, Held, Place, Serving
<1>4. SlotsInv
      BY <1>3 DEF SlotsInv
<1>5. Backlog
  <2>1. Distinct(Held)
        BY <1>3 DEF Distinct
  <2>2. Owed(Held) = {}
        BY <1>3, OwedIs
  <2> QED BY <2>1, <2>2, FS_EmptySet DEF Backlog, Init
<1>6. ReportIsTrue
      BY DEF Init, ReportIsTrue
<1> QED BY <1>1, <1>2, <1>4, <1>5, <1>6 DEF IInv

LEMMA StdioNext == IInv /\ [Next]_vars => IInv'
<1> SUFFICES ASSUME IInv, [Next]_vars PROVE IInv'
    OBVIOUS
<1>1. CASE UNCHANGED vars
  <2>1. UNCHANGED <<session, proc, stdin, stdout, server, request, recv_q, next_id, jobVars, pc, sending, abandoned>>
        BY <1>1 DEF vars, pipeVars, serverVars
  <2>2. CallerKeeps /\ JobInv' /\ ReportIsTrue'
        BY <2>1, CallerUnchanged
  <2>3. ConnectionTypes' /\ ServerInv'
        BY <2>1 DEF IInv, ConnectionTypes, ServerInv
  <2> QED BY <2>1, <2>2, <2>3, NothingMoves, StepSame DEF IInv
<1>2. CASE connect \/ StartExecute \/ StartReact \/ close
      BY <1>2, ConnectStep, ExecuteStep, ReactStep, CloseStep
<1>3. CASE CallerStep
      BY <1>3, SendStep, AnswerStep, EOFStep, TimeoutStep, NotifyStep, CloseWaitStep DEF CallerStep
<1>4. ASSUME NEW s \in Session, serve(s) \/ _read_loop(s)
      PROVE  IInv'
      BY <1>4, ServeStep, ReaderStep
<1> QED BY <1>1, <1>2, <1>3, <1>4 DEF Next

\* The pipes, the queue, the server and the caller agree about every call, whatever
\* is answered late, never, or after a new connection (orchestrator.py, server.py).
THEOREM StdioInvariant == Spec => []IInv
BY StdioInit, StdioNext, PTL DEF Spec

\* Each answer on its way is there once, and is one to the call that waits or to a
\* call that was given up (_rpc and _recv of MCPOrchestrator).
THEOREM AnswersAreAccounted == Spec => []Backlog
<1>1. IInv => Backlog
      BY DEF IInv
<1> QED BY <1>1, StdioInvariant, PTL

\* Until a call is given up, every job reports what its own requests were answered
\* (execute of DeterministicOrchestrator, run of ReActAgent).
THEOREM ReportsAreTrue == Spec => []ReportIsTrue
<1>1. IInv => ReportIsTrue
      BY DEF IInv
<1> QED BY <1>1, StdioInvariant, PTL

-----------------------------------------------------------------------------
(* StdioRpc implements RemoteCall.                                          *)

LEMMA RemoteInit == Init => Remote!Init
<1> SUFFICES ASSUME Init PROVE Remote!Init
    OBVIOUS
<1>1. \A p \in Place : Held[p] = <<>>
      BY DEF Init, Held, Place, Serving
<1>2. Owed(Held) = {}
      BY <1>1, OwedIs
<1>3. Returned = <<>>
      BY DEF Init, Returned
<1> QED BY <1>2, <1>3 DEF Init, Remote!Init, Waiting

\* A call that waits has an id, and the caller waits for nothing else.
LEMMA WaitingIs ==
    ASSUME IInv
    PROVE  /\ next_id \in Nat \ {0} /\ abandoned \in Nat
           /\ pc = "wait" => Waiting = next_id - 1 /\ Waiting # 0
           /\ pc # "wait" => Waiting = 0
<1>1. next_id \in Nat \ {0} /\ abandoned \in Nat
      BY DEF IInv, ConnectionTypes
<1>2. ASSUME pc = "wait"
      PROVE  next_id - 1 # 0
  <2>1. job.first \in Nat \ {0} /\ Len(answers) \in Nat /\ next_id = job.first + Len(answers) + 1
        BY <1>2, Asked
  <2> QED BY <2>1
<1> QED BY <1>1, <1>2 DEF Waiting

\* What an answer adds to what the job's calls returned.
LEMMA ReturnedAppends ==
    ASSUME NEW S, NEW T, NEW f \in [S -> T], NEW q \in Seq(S), NEW x \in S
    PROVE  [k \in DOMAIN Append(q, x) |-> f[Append(q, x)[k]]] = Append([k \in DOMAIN q |-> f[q[k]]], f[x])
<1>1. PICK r : r = Append(q, x)
      OBVIOUS
<1>2. /\ Len(q) \in Nat /\ DOMAIN q = 1..Len(q) /\ DOMAIN r = 1..(Len(q) + 1)
      /\ \A i \in 1..Len(q) : r[i] = q[i]
      /\ r[Len(q) + 1] = x
      BY <1>1, AppendIs
<1>3. PICK g : g = [k \in DOMAIN q |-> f[q[k]]]
      OBVIOUS
<1>4. \A i \in 1..Len(q) : q[i] \in S
      BY <1>2, ElementOfSeq
<1>5. g \in [1..Len(q) -> T]
      BY <1>2, <1>3, <1>4
<1>6. g \in Seq(T) /\ Len(g) = Len(q)
      BY <1>2, <1>5
<1>7. f[x] \in T
      OBVIOUS
<1>8. /\ Append(g, f[x]) \in Seq(T) /\ DOMAIN Append(g, f[x]) = 1..(Len(q) + 1)
      /\ \A i \in 1..Len(q) : Append(g, f[x])[i] = g[i]
      /\ Append(g, f[x])[Len(q) + 1] = f[x]
      BY <1>6, <1>7, AppendIs, AppendProperties
<1>9. PICK h : h = [k \in DOMAIN r |-> f[r[k]]]
      OBVIOUS
<1>10. \A i \in 1..(Len(q) + 1) : h[i] = Append(g, f[x])[i]
  <2> SUFFICES ASSUME NEW i \in 1..(Len(q) + 1) PROVE h[i] = Append(g, f[x])[i]
      OBVIOUS
  <2>1. CASE i = Len(q) + 1
        BY <1>2, <1>8, <1>9, <2>1
  <2>2. CASE i \in 1..Len(q)
    <3>1. Append(g, f[x])[i] = g[i] /\ g[i] = f[q[i]]
          BY <1>2, <1>3, <1>8, <2>2
    <3>2. i \in DOMAIN r /\ r[i] = q[i]
          BY <1>2, <2>2
    <3> QED BY <1>9, <3>1, <3>2
  <2>3. i = Len(q) + 1 \/ i \in 1..Len(q)
    <3>1. \A n \in Nat : \A k \in 1..(n + 1) : k = n + 1 \/ k \in 1..n
          OBVIOUS
    <3> QED BY <1>2, <3>1
  <2> QED BY <2>1, <2>2, <2>3
<1>11. DOMAIN h = DOMAIN Append(g, f[x])
       BY <1>2, <1>8, <1>9
<1>12. h = Append(g, f[x])
  <2>1. PICK z : z = Append(g, f[x])
        OBVIOUS
  <2>2. z \in [1..(Len(q) + 1) -> T]
    <3>1. z \in Seq(T) /\ Len(z) = Len(q) + 1
          BY <1>6, <1>7, <2>1, AppendProperties
    <3>2. z \in [1..Len(z) -> T]
          BY <3>1, LenProperties
    <3> QED BY <3>1, <3>2
  <2>3. h = [k \in 1..(Len(q) + 1) |-> h[k]]
        BY <1>2, <1>9
  <2>4. \A k \in 1..(Len(q) + 1) : h[k] = z[k]
        BY <1>10, <2>1
  <2> QED BY <2>1, <2>2, <2>3, <2>4
<1> QED BY <1>1, <1>3, <1>9, <1>12

\* The servers, the reader threads and the end of a connection: an answer may get lost.
LEMMA LosesRemote ==
    ASSUME IInv, IInv', Loses, UNCHANGED <<next_id, answers, abandoned>>,
           UNCHANGED pc \/ (pc # "wait" /\ pc' # "wait")
    PROVE  [Remote!Next]_Remote!vars
<1>1. Waiting' = Waiting /\ Returned' = Returned
      BY DEF Waiting, Returned
<1>2. CASE Owed(Held') = Owed(Held)
      BY <1>1, <1>2 DEF Remote!vars
<1>3. ASSUME NEW x \in Owed(Held), Owed(Held') = Owed(Held) \ {x}
      PROVE  Remote!Next
      BY <1>1, <1>3 DEF Remote!Next, Remote!Lose
<1> QED BY <1>2, <1>3 DEF Loses

\* A call that waits and is given up.
LEMMA GiveUpRemote ==
    ASSUME IInv, IInv', pc = "wait", pc' # "wait", abandoned' = abandoned + 1,
           Owed(Held') = Owed(Held), UNCHANGED <<next_id, answers>>
    PROVE  Remote!Next
<1>1. Waiting # 0 /\ Waiting' = 0 /\ Returned' = Returned
      BY WaitingIs DEF Waiting, Returned
<1> QED BY <1>1 DEF Remote!Next, Remote!GiveUp

\* A job begins.
LEMMA BeginRemote ==
    ASSUME IInv, IInv', pc # "wait", pc' # "wait", answers' = <<>>,
           Owed(Held') = Owed(Held), UNCHANGED <<next_id, abandoned>>
    PROVE  Remote!Next
<1>1. Waiting = 0 /\ Waiting' = 0 /\ Returned' = <<>>
      BY DEF Waiting, Returned
<1> QED BY <1>1 DEF Remote!Next, Remote!Begin

LEMMA SendRemote ==
    ASSUME IInv, IInv', Send
    PROVE  Remote!Next
<1>1. pc = "send" /\ next_id' = next_id + 1 /\ UNCHANGED <<answers, abandoned>>
      BY DEF Send
<1>2. Waiting = 0 /\ Returned' = Returned /\ next_id \in Nat
      BY <1>1, WaitingIs DEF Returned
<1>3. CASE Broken
  <2>1. Owed(Held') = Owed(Held)
        BY <1>3, SendStep
  <2>2. Waiting' = 0
        BY <1>3 DEF Send, Raise, Finish, Waiting
  <2> QED BY <1>1, <1>2, <2>1, <2>2 DEF Remote!Next, Remote!Refuse
<1>4. CASE ~Broken
  <2>1. Owed(Held') = Owed(Held) \cup {next_id}
        BY <1>4, SendStep
  <2>2. pc' = "wait"
        BY <1>4 DEF Send
  <2>3. Waiting' = next_id
        BY <1>1, <1>2, <2>2 DEF Waiting
  <2> QED BY <1>1, <1>2, <2>1, <2>3 DEF Remote!Next, Remote!Request
<1> QED BY <1>3, <1>4

\* The answer returned is one that was owed, and the one waited for unless a call was
\* given up.
LEMMA AnswerRemote ==
    ASSUME IInv, IInv', _recv, Head(recv_q) # EOF
    PROVE  Remote!Next
<1>1. PICK y : y = Head(recv_q)
      OBVIOUS
<1>2. PICK x : x = [want |-> next_id - 1, got |-> y]
      OBVIOUS
<1>3. /\ pc = "wait" /\ recv_q # <<>> /\ answers' = Append(answers, x)
      /\ Continue(Len(answers) + 1, y) /\ UNCHANGED <<next_id, abandoned>>
      BY <1>1, <1>2 DEF _recv
<1>4. pc' # "wait"
      BY <1>3, Continues
<1>5. /\ y.id \in Owed(Held) /\ Owed(Held') = Owed(Held) \ {y.id}
      /\ abandoned = 0 => y.id = next_id - 1
      BY <1>1, AnswerStep
<1>6. next_id \in Nat \ {0} /\ abandoned \in Nat /\ Waiting = next_id - 1 /\ Waiting # 0
      BY <1>3, WaitingIs
<1>7. Waiting' = 0
      BY <1>4 DEF Waiting
<1> DEFINE S == [want : Nat, got : Answer]
           T == [want : Nat, got : Nat]
           f == [a \in S |-> [want |-> a.want, got |-> a.got.id]]
<1>8. answers \in Seq(S) /\ x \in S /\ f \in [S -> T]
  <2>1. recv_q \in Seq(Answer)
        BY DEF IInv, ConnectionTypes
  <2>2. y \in Answer
        BY <1>1, <1>3, <2>1, HeadTailProperties
  <2>3. x \in S
        BY <1>2, <1>6, <2>2
  <2>4. f \in [S -> T]
        BY DEF Answer
  <2> QED BY <2>3, <2>4 DEF IInv, JobInv
<1>9. \A q \in Seq(S) : [k \in DOMAIN q |-> f[q[k]]] = [k \in DOMAIN q |-> [want |-> q[k].want, got |-> q[k].got.id]]
  <2> SUFFICES ASSUME NEW q \in Seq(S)
               PROVE  [k \in DOMAIN q |-> f[q[k]]] = [k \in DOMAIN q |-> [want |-> q[k].want, got |-> q[k].got.id]]
      OBVIOUS
  <2>1. \A k \in DOMAIN q : q[k] \in S
        BY LenProperties, ElementOfSeq
  <2>2. \A k \in DOMAIN q : f[q[k]] = [want |-> q[k].want, got |-> q[k].got.id]
        BY <2>1
  <2> HIDE DEF f
  <2> QED BY <2>2
<1>10. f[x] = [want |-> Waiting, got |-> y.id]
       BY <1>2, <1>6, <1>8
<1> HIDE DEF S, T, f
<1>11. Append(answers, x) \in Seq(S)
       BY <1>8, AppendProperties
<1>12. Returned = [k \in DOMAIN answers |-> f[answers[k]]]
       BY <1>8, <1>9 DEF Returned
<1>13. Returned' = [k \in DOMAIN Append(answers, x) |-> f[Append(answers, x)[k]]]
  <2>1. answers' \in Seq(S)
        BY <1>3, <1>11
  <2>2. Returned' = [k \in DOMAIN answers' |-> f[answers'[k]]]
        BY <1>9, <2>1 DEF Returned
  <2> QED BY <1>3, <2>2
<1>14. Returned' = Append(Returned, [want |-> Waiting, got |-> y.id])
       BY <1>8, <1>10, <1>12, <1>13, ReturnedAppends
<1>15. Remote!Return(y.id)
       BY <1>3, <1>5, <1>6, <1>7, <1>14 DEF Remote!Return
<1> QED BY <1>5, <1>15 DEF Remote!Next

LEMMA RemoteNext == IInv /\ IInv' /\ [Next]_vars => [Remote!Next]_Remote!vars
<1> SUFFICES ASSUME IInv, IInv', [Next]_vars PROVE [Remote!Next]_Remote!vars
    OBVIOUS
<1>1. CASE UNCHANGED vars
  <2>1. UNCHANGED <<stdin, stdout, server, request, recv_q, next_id, answers, pc, abandoned>>
        BY <1>1 DEF vars, pipeVars, serverVars, jobVars
  <2>2. Held' = Held
        BY <2>1 DEF Held
  <2> QED BY <2>1, <2>2, LosesRemote DEF Loses
<1>2. CASE connect
      BY <1>2, ConnectStep, BeginRemote DEF connect, Begin
<1>3. CASE StartExecute
      BY <1>3, ExecuteStep, BeginRemote DEF StartExecute, Begin
<1>4. CASE StartReact
      BY <1>4, ReactStep, BeginRemote DEF StartReact, Begin
<1>5. CASE close
      BY <1>5, CloseStep, LosesRemote DEF close, jobVars, Loses
<1>6. CASE Send
      BY <1>6, SendRemote
<1>7. CASE _recv
  <2>1. CASE Head(recv_q) = EOF
        BY <1>7, <2>1, EOFStep, GiveUpRemote DEF _recv, Raise, Finish
  <2>2. CASE Head(recv_q) # EOF
        BY <1>7, <2>2, AnswerRemote
  <2> QED BY <2>1, <2>2
<1>8. CASE RecvTimeout
      BY <1>8, TimeoutStep, GiveUpRemote DEF RecvTimeout, Raise, Finish
<1>9. CASE Notify
      BY <1>9, NotifyStep, LosesRemote DEF Notify, Raise, Finish, Loses
<1>10. CASE CloseWait
      BY <1>10, CloseWaitStep, LosesRemote DEF CloseWait, jobVars
<1>11. ASSUME NEW s \in Session, serve(s)
       PROVE  [Remote!Next]_Remote!vars
      BY <1>11, ServeStep, LosesRemote DEF serve, jobVars
<1>12. ASSUME NEW s \in Session, _read_loop(s)
       PROVE  [Remote!Next]_Remote!vars
      BY <1>12, ReaderStep, LosesRemote DEF _read_loop, jobVars, Loses
<1> QED BY <1>1, <1>2, <1>3, <1>4, <1>5, <1>6, <1>7, <1>8, <1>9, <1>10, <1>11, <1>12 DEF Next, CallerStep

\* To its callers the orchestrator returns each answer once, to a call that was made, and
\* to the one it answers unless a call was given up before (_rpc and _recv of
\* MCPOrchestrator).
THEOREM StdioImplementsRemoteCall == Spec => ImplementsRemoteCall
BY RemoteInit, RemoteNext, StdioInvariant, PTL DEF Spec, ImplementsRemoteCall, Remote!Spec

=============================================================================
