--------------------------- MODULE RedlockProofs ---------------------------
(***************************************************************************)
(* Proofs about Redlock: its types, that only a DELETE of a key that is    *)
(* another session's lets two sessions hold the lock, and that nothing is  *)
(* left on any node when no call fails; for every number of sessions,      *)
(* clients, nodes, retries and faults, with a clock that never waits.      *)
(***************************************************************************)
EXTENDS Redlock, FiniteSetTheorems, TLAPS

-----------------------------------------------------------------------------
(* The inductive invariants.                                                *)

\* The first attempt begins at zero and a retry has attempts to spare; a lock that
\* is held has its nodes still to visit; no attempt starts in the future.
AttemptInv ==
    \A s \in Session :
        /\ pc[s] = "idle" => tries[s] = 0
        /\ pc[s] = "retry" => tries[s] < RetryCount
        /\ pc[s] \in {"won", "held"} => at[s] = 1
        /\ pc[s] = "delete" => at[s] \in Node
        /\ start[s] <= clock

TypeInv == RedlockTypeOK /\ AttemptInv

\* An attempt within its validity time owns every node it counts, until its end, unless
\* another session's DELETE removed one of its keys.
KeysBacked ==
    \A s \in Session \ robbed :
        pc[s] \in {"set", "won", "held"} /\ clock < start[s] + TTL =>
            \A n \in got[s] : owner[n] = s /\ expiry[n] >= start[s] + TTL

HeldByQuorum ==
    \A s \in Session : pc[s] \in {"won", "held"} => Cardinality(got[s]) >= quorum

LockInv == TypeInv /\ KeysBacked /\ HeldByQuorum

\* A session that is giving keys back compares with its own token, unless its client's
\* entry was taken from it.
TokenKept ==
    \A s \in Session \ taken :
        /\ pc[s] = "held" => tokens[via[s]] = s
        /\ pc[s] \in {"undo", "delete"} => using[s] = s

\* What a session knows of a key it stores on node n.
Knows(s, n) ==
    /\ pc[s] \in {"set", "won", "held", "undo", "delete"}
    /\ n \in got[s]
    /\ pc[s] \in {"undo", "delete"} => n >= at[s]

\* Without failing calls a session's keys are among the nodes it knows of, and of those
\* it gives back, among the ones it has still to visit.
KeysKnown ==
    faults = 0 => \A s \in Session \ taken, n \in Node : KeyAt(n) = s => Knows(s, n)

-----------------------------------------------------------------------------
(* Types                                                                    *)

\* RedlockInit establishes the types.
LEMMA InitTypeInv == RedlockInit => TypeInv
<1>. SUFFICES ASSUME RedlockInit PROVE TypeInv
  OBVIOUS
<1>1. TokensOK
  BY DEF RedlockInit, TokensOK
<1>. QED
  BY <1>1, RedlockAssumption DEF RedlockInit, TypeInv, RedlockTypeOK, AttemptInv, Node

\* A node call keeps the count of faults within its bound; without faults it succeeds.
LEMMA NodeCallFaults ==
    ASSUME TypeInv, NEW o \in Reply, NodeCall(o)
    PROVE  /\ faults' \in 0..MaxFaults
           /\ faults' = 0 => faults = 0 /\ o = "ok"
BY RedlockAssumption DEF TypeInv, RedlockTypeOK, NodeCall, Reply

\* Every step keeps the types of what the clients share.
LEMMA StepTokensOK == TypeInv /\ [RedlockNext]_redlockVars => TokensOK'
<1>. SUFFICES ASSUME TypeInv, [RedlockNext]_redlockVars PROVE TokensOK'
  OBVIOUS
<1>1. TokensOK /\ owner \in [Node -> Session \cup {Nil}]
  BY DEF TypeInv, RedlockTypeOK
<1>2. CASE UNCHANGED <<dicts, robbed>>
  BY <1>1, <1>2 DEF TokensOK, dicts
<1>3. ASSUME NEW s \in Session, Begin(s) PROVE TokensOK'
  BY <1>1, <1>3 DEF Begin, TokensOK, dicts
<1>4. ASSUME NEW s \in Session, Decide(s) PROVE TokensOK'
  BY <1>1, <1>4 DEF Decide, TokensOK
<1>5. ASSUME NEW s \in Session, Remember(s) PROVE TokensOK'
  BY <1>1, <1>5 DEF Remember, TokensOK
<1>6. ASSUME NEW s \in Session, release(s) PROVE TokensOK'
  <2>1. /\ tokens' = [tokens EXCEPT ![via[s]] = Nil] /\ via' = via /\ robbed' = robbed
        /\ tokens[via[s]] \in Session \cup {Nil}
    BY <1>1, <1>6 DEF release, TokensOK
  <2>2. using' \in [Session -> Session] /\ taken' \subseteq Session
    BY <1>1, <1>6, <2>1 DEF release, TokensOK
  <2>. QED
    BY <1>1, <2>1, <2>2 DEF TokensOK
<1>7. ASSUME NEW s \in Session, NEW o \in Reply, DeleteNode(s, o) PROVE TokensOK'
  <2>1. at[s] \in Node
    BY <1>7 DEF DeleteNode, TypeInv, AttemptInv
  <2>2. KeyAt(at[s]) \in Session \cup {Nil}
    BY <1>1, <2>1 DEF KeyAt
  <2>. QED
    BY <1>1, <1>7, <2>2 DEF DeleteNode, TokensOK, dicts
<1>. QED
  BY <1>2, <1>3, <1>4, <1>5, <1>6, <1>7
  DEF RedlockNext, redlockVars, ClockTicks, SetNode, GetNode, Undone

\* What a SET leaves on the nodes and of its session.
LEMMA SetNodeType ==
    ASSUME TypeInv, NEW s \in Session, NEW o \in Reply, SetNode(s, o), TokensOK'
    PROVE  TypeInv'
<1>. USE RedlockAssumption DEF TypeInv, RedlockTypeOK, AttemptInv, Node, nodes
<1>1. at[s] \in Node /\ at' = [at EXCEPT ![s] = at[s] + 1]
  BY DEF SetNode
<1>2. owner' \in [Node -> Session \cup {Nil}]
  BY <1>1 DEF SetNode
<1>3. expiry' \in [Node -> 0..MaxClock + TTL]
  BY <1>1 DEF SetNode
<1>4. got' \in [Session -> SUBSET Node]
  BY <1>1 DEF SetNode
<1>5. faults' \in 0..MaxFaults
  BY NodeCallFaults DEF SetNode
<1>6. at' \in [Session -> 1..N + 1]
  BY <1>1
<1>. QED
  BY <1>1, <1>2, <1>3, <1>4, <1>5, <1>6 DEF SetNode

\* What a GET leaves of its session.
LEMMA GetNodeType ==
    ASSUME TypeInv, NEW s \in Session, NEW o \in Reply, GetNode(s, o), TokensOK'
    PROVE  TypeInv'
<1>. USE RedlockAssumption DEF TypeInv, RedlockTypeOK, AttemptInv, Node, nodes
<1>1. at[s] \in Node /\ pc[s] = "undo"
  BY DEF GetNode
<1>2. faults' \in 0..MaxFaults
  BY NodeCallFaults DEF GetNode
<1>3. \/ pc' = [pc EXCEPT ![s] = "delete"] /\ at' = at
      \/ pc' = pc /\ at' = [at EXCEPT ![s] = at[s] + 1]
  BY DEF GetNode
<1>4. UNCHANGED <<clock, owner, expiry, got, start, tries>>
  BY DEF GetNode
<1>5. CASE pc' = [pc EXCEPT ![s] = "delete"] /\ at' = at
  BY <1>1, <1>2, <1>4, <1>5
<1>6. CASE pc' = pc /\ at' = [at EXCEPT ![s] = at[s] + 1]
  <2>1. at[s] + 1 \in 1..N + 1
    BY <1>1
  <2>2. at' \in [Session -> 1..N + 1]
    BY <1>6, <2>1
  <2>3. RedlockTypeOK'
    BY <1>2, <1>4, <1>6, <2>2
  <2>4. \A t \in Session : pc[t] \in {"won", "held", "delete"} => at'[t] = at[t]
    BY <1>1, <1>6
  <2>5. AttemptInv'
    BY <1>4, <1>6, <2>4
  <2>. QED
    BY <2>3, <2>5
<1>. QED
  BY <1>3, <1>5, <1>6

\* What a DELETE leaves on the node and of its session.
LEMMA DeleteNodeType ==
    ASSUME TypeInv, NEW s \in Session, NEW o \in Reply, DeleteNode(s, o), TokensOK'
    PROVE  TypeInv'
<1>1. at[s] \in Node /\ N \in Nat /\ at[s] + 1 \in 1..N + 1
  BY RedlockAssumption DEF DeleteNode, TypeInv, AttemptInv, Node
<1>2. faults' \in 0..MaxFaults
  BY NodeCallFaults, RedlockAssumption DEF DeleteNode, TypeInv, RedlockTypeOK
<1>3. owner' \in [Node -> Session \cup {Nil}]
  BY <1>1 DEF DeleteNode, TypeInv, RedlockTypeOK
<1>4. /\ pc' = [pc EXCEPT ![s] = "undo"] /\ at' = [at EXCEPT ![s] = at[s] + 1]
      /\ UNCHANGED <<clock, expiry, got, start, tries>>
  BY DEF DeleteNode
<1>5. RedlockTypeOK'
  <2>1. at' \in [Session -> 1..N + 1]
    BY <1>1, <1>4 DEF TypeInv, RedlockTypeOK
  <2>2. pc' \in [Session -> {"idle", "set", "undo", "delete", "retry",
                             "won", "held", "released", "failed"}]
    BY <1>4 DEF TypeInv, RedlockTypeOK
  <2>. QED
    BY <1>2, <1>3, <1>4, <2>1, <2>2 DEF TypeInv, RedlockTypeOK
<1>6. AttemptInv'
  BY <1>1, <1>4, RedlockAssumption DEF TypeInv, RedlockTypeOK, AttemptInv, Node
<1>. QED
  BY <1>5, <1>6 DEF TypeInv

\* Every step keeps the types.
LEMMA StepTypeInv == TypeInv /\ [RedlockNext]_redlockVars => TypeInv'
<1>. SUFFICES ASSUME TypeInv, [RedlockNext]_redlockVars PROVE TypeInv'
  OBVIOUS
<1>0. TokensOK'
  BY StepTokensOK
<1>. USE RedlockAssumption DEF TypeInv, RedlockTypeOK, AttemptInv, Node, nodes
<1>1. CASE ClockTicks
  BY <1>0, <1>1 DEF ClockTicks
<1>2. ASSUME NEW s \in Session, Begin(s) PROVE TypeInv'
  <2>1. tries[s] + 1 \in 0..RetryCount + 1 /\ 1 \in 1..N + 1
    BY <1>2 DEF Begin
  <2>2. RedlockTypeOK'
    BY <1>0, <1>2, <2>1 DEF Begin
  <2>3. AttemptInv'
    BY <1>2, <2>2 DEF Begin
  <2>. QED
    BY <2>2, <2>3
<1>3. ASSUME NEW s \in Session, Decide(s) PROVE TypeInv'
  BY <1>0, <1>3 DEF Decide
<1>4. ASSUME NEW s \in Session, release(s) PROVE TypeInv'
  BY <1>0, <1>4 DEF release
<1>5. ASSUME NEW s \in Session, Undone(s) PROVE TypeInv'
  BY <1>0, <1>5 DEF Undone
<1>10. ASSUME NEW s \in Session, Remember(s) PROVE TypeInv'
  BY <1>0, <1>10 DEF Remember
<1>6. ASSUME NEW s \in Session, NEW o \in Reply, SetNode(s, o) PROVE TypeInv'
  BY <1>0, <1>6, SetNodeType
<1>7. ASSUME NEW s \in Session, NEW o \in Reply, GetNode(s, o) PROVE TypeInv'
  BY <1>0, <1>7, GetNodeType
<1>8. ASSUME NEW s \in Session, NEW o \in Reply, DeleteNode(s, o) PROVE TypeInv'
  BY <1>0, <1>8, DeleteNodeType
<1>9. CASE UNCHANGED redlockVars
  BY <1>0, <1>9 DEF redlockVars
<1>. QED
  BY <1>0, <1>1, <1>2, <1>3, <1>4, <1>5, <1>6, <1>7, <1>8, <1>9, <1>10 DEF RedlockNext

\* Every reachable state is well typed.
THEOREM RedlockTypes == RedlockSpec => []TypeInv
BY InitTypeInv, StepTypeInv, PTL DEF RedlockSpec

-----------------------------------------------------------------------------
(* Mutual exclusion                                                         *)

\* Two majorities of the nodes share a node.
LEMMA QuorumsMeet ==
    ASSUME NEW A \in SUBSET Node, NEW B \in SUBSET Node,
           Cardinality(A) >= quorum, Cardinality(B) >= quorum
    PROVE  A \cap B # {}
<1>1. /\ IsFiniteSet(Node) /\ Cardinality(Node) = N
  BY FS_Interval, RedlockAssumption DEF Node
<1>2. /\ IsFiniteSet(A) /\ IsFiniteSet(B) /\ IsFiniteSet(A \cup B)
      /\ Cardinality(A \cup B) <= N
  BY <1>1, FS_Subset, A \cup B \in SUBSET Node
<1>3. Cardinality(A \cup B) = Cardinality(A) + Cardinality(B) - Cardinality(A \cap B)
  BY <1>2, FS_Union
<1>4. /\ Cardinality(A) \in Nat /\ Cardinality(B) \in Nat
  BY <1>2, FS_CardinalityType
<1>5. quorum + quorum > N
  BY RedlockAssumption DEF quorum
<1>6. quorum \in Int
  BY RedlockAssumption DEF quorum
<1>7. A \cap B = {} => Cardinality(A \cap B) = 0
  BY FS_EmptySet
<1>. QED
  BY <1>2, <1>3, <1>4, <1>5, <1>6, <1>7, RedlockAssumption

\* Two sessions that both hold the lock, none of them robbed, would own a node in common.
LEMMA LockExcludes == LockInv => MutualExclusion
<1>. SUFFICES ASSUME LockInv, NEW s \in Session, NEW t \in Session, Valid(s), Valid(t),
                     s \notin robbed, t \notin robbed
              PROVE  s = t
  BY DEF MutualExclusion
<1>1. /\ got[s] \in SUBSET Node /\ Cardinality(got[s]) >= quorum
      /\ got[t] \in SUBSET Node /\ Cardinality(got[t]) >= quorum
  BY DEF LockInv, TypeInv, RedlockTypeOK, HeldByQuorum, Valid
<1>2. PICK n \in Node : n \in got[s] /\ n \in got[t]
  BY <1>1, QuorumsMeet
<1>. QED
  BY <1>2 DEF LockInv, KeysBacked, Valid

\* A node that a session may count on stores its token.
LEMMA CountedIsStored ==
    ASSUME TypeInv, KeysBacked, NEW s \in Session \ robbed, NEW n \in got[s],
           pc[s] \in {"set", "won", "held"}, clock < start[s] + TTL
    PROVE  n \in Node /\ KeyAt(n) = s
BY RedlockAssumption DEF TypeInv, RedlockTypeOK, KeysBacked, KeyAt

\* A SET that takes effect finds the node free.
LEMMA StepSetNode ==
    ASSUME LockInv, NEW s \in Session, NEW o \in Reply, SetNode(s, o)
    PROVE  KeysBacked' /\ HeldByQuorum'
<1>. DEFINE n == at[s]
            done == o # "lostRequest" /\ KeyAt(n) = Nil
<1>1. n \in Node /\ pc' = pc /\ clock' = clock /\ start' = start /\ robbed' = robbed
  BY RedlockAssumption DEF SetNode, LockInv, TypeInv, RedlockTypeOK, Node
<1>2. \A m \in Node : m # n \/ ~done => owner'[m] = owner[m] /\ expiry'[m] = expiry[m]
  BY <1>1 DEF SetNode, LockInv, TypeInv, RedlockTypeOK, nodes
<1>3. KeysBacked'
  <2>. SUFFICES ASSUME NEW t \in Session \ robbed, pc[t] \in {"set", "won", "held"},
                       clock < start[t] + TTL, NEW m \in got'[t]
                PROVE  owner'[m] = t /\ expiry'[m] >= start[t] + TTL
    BY <1>1 DEF KeysBacked
  <2>1. CASE m \in got[t]
    <3>1. m \in Node /\ KeyAt(m) = t
      BY <2>1, CountedIsStored DEF LockInv
    <3>2. m # n \/ ~done
      BY <3>1, RedlockAssumption
    <3>. QED
      BY <2>1, <3>1, <3>2, <1>2 DEF LockInv, KeysBacked
  <2>2. CASE m \notin got[t]
    <3>1. t = s /\ m = n /\ done
      BY <2>2 DEF SetNode, LockInv, TypeInv, RedlockTypeOK
    <3>2. owner'[n] = s /\ expiry'[n] = clock + TTL
      BY <3>1, <1>1 DEF SetNode, LockInv, TypeInv, RedlockTypeOK
    <3>. QED
      BY <3>1, <3>2, RedlockAssumption DEF LockInv, TypeInv, RedlockTypeOK, AttemptInv
  <2>. QED
    BY <2>1, <2>2
<1>4. HeldByQuorum'
  BY <1>1 DEF HeldByQuorum, SetNode, LockInv, TypeInv, RedlockTypeOK
<1>. QED
  BY <1>3, <1>4

\* A DELETE removes the key of a session that is giving it back, or robs its session.
LEMMA StepDeleteNode ==
    ASSUME LockInv, NEW s \in Session, NEW o \in Reply, DeleteNode(s, o)
    PROVE  KeysBacked' /\ HeldByQuorum'
<1>. DEFINE n == at[s]
            done == o # "lostRequest"
<1>1. n \in Node
  BY DEF DeleteNode, LockInv, TypeInv, AttemptInv
<1>2. /\ clock' = clock /\ start' = start /\ expiry' = expiry /\ got' = got
      /\ pc[s] = "delete" /\ pc'[s] = "undo"
      /\ \A t \in Session \ {s} : pc'[t] = pc[t]
  BY DEF DeleteNode, LockInv, TypeInv, RedlockTypeOK
<1>3. /\ robbed \subseteq robbed'
      /\ done => KeyAt(n) \in robbed' \cup {Nil, s}
      /\ \A m \in Node : m # n \/ ~done => owner'[m] = owner[m]
  BY <1>1 DEF DeleteNode, LockInv, TypeInv, RedlockTypeOK
<1>4. KeysBacked'
  <2>. SUFFICES ASSUME NEW t \in Session, t # s, t \notin robbed',
                       pc[t] \in {"set", "won", "held"}, clock < start[t] + TTL, NEW m \in got[t]
                PROVE  owner'[m] = t /\ expiry[m] >= start[t] + TTL
    BY <1>2 DEF KeysBacked
  <2>1. t \in Session \ robbed
    BY <1>3
  <2>2. m \in Node /\ KeyAt(m) = t
    BY <2>1, CountedIsStored DEF LockInv
  <2>3. m # n \/ ~done
    BY <1>3, <2>2, RedlockAssumption
  <2>4. owner[m] = t /\ expiry[m] >= start[t] + TTL
    BY <2>1 DEF LockInv, KeysBacked
  <2>. QED
    BY <1>3, <2>2, <2>3, <2>4
<1>5. HeldByQuorum'
  BY <1>2 DEF HeldByQuorum, LockInv
<1>. QED
  BY <1>4, <1>5

\* A step of one session that touches no node and begins an attempt or ends one.
LEMMA LocalStep ==
    ASSUME LockInv, NEW s \in Session, UNCHANGED <<clock, owner, expiry>>,
           \A t \in Session \ {s} : /\ pc'[t] = pc[t]
                                    /\ got'[t] = got[t] /\ start'[t] = start[t],
           robbed \subseteq robbed' \cup {s},
           pc'[s] \in {"set", "won", "held"} =>
               \/ got'[s] = {}
               \/ /\ pc[s] \in {"set", "won", "held"} /\ got'[s] = got[s] /\ start'[s] = start[s]
                  /\ s \in robbed => s \in robbed',
           pc'[s] \in {"won", "held"} => Cardinality(got'[s]) >= quorum
    PROVE  KeysBacked' /\ HeldByQuorum'
<1>1. KeysBacked'
  <2>. SUFFICES ASSUME NEW t \in Session, t \notin robbed', pc'[t] \in {"set", "won", "held"},
                       clock < start'[t] + TTL, NEW n \in got'[t]
                PROVE  owner[n] = t /\ expiry[n] >= start'[t] + TTL
    BY DEF KeysBacked
  <2>1. pc[t] \in {"set", "won", "held"} /\ got'[t] = got[t] /\ start'[t] = start[t]
    OBVIOUS
  <2>2. t \notin robbed
    OBVIOUS
  <2>. QED
    BY <2>1, <2>2 DEF LockInv, KeysBacked
<1>2. HeldByQuorum'
  BY DEF LockInv, HeldByQuorum
<1>. QED
  BY <1>1, <1>2

\* Every step keeps the lock's invariant.
LEMMA StepLockInv == LockInv /\ [RedlockNext]_redlockVars => LockInv'
<1>. SUFFICES ASSUME LockInv, [RedlockNext]_redlockVars PROVE KeysBacked' /\ HeldByQuorum'
  BY StepTypeInv DEF LockInv
<1>. USE RedlockAssumption DEF LockInv, TypeInv, RedlockTypeOK, AttemptInv, Node, nodes
<1>1. CASE ClockTicks
  <2>1. KeysBacked'
    <3>. SUFFICES ASSUME NEW s \in Session \ robbed, pc[s] \in {"set", "won", "held"},
                         clock + 1 < start[s] + TTL, NEW n \in got[s]
                  PROVE  owner[n] = s /\ expiry[n] >= start[s] + TTL
      BY <1>1 DEF ClockTicks, KeysBacked
    <3>1. clock < start[s] + TTL
      OBVIOUS
    <3>2. KeysBacked
      OBVIOUS
    <3>. QED
      BY <3>1, <3>2 DEF KeysBacked
  <2>2. HeldByQuorum'
    BY <1>1 DEF ClockTicks, HeldByQuorum
  <2>. QED
    BY <2>1, <2>2
<1>2. ASSUME NEW s \in Session, Begin(s) PROVE KeysBacked' /\ HeldByQuorum'
  <2>1. /\ pc'[s] = "set" /\ got'[s] = {} /\ UNCHANGED <<clock, owner, expiry>>
        /\ \A t \in Session \ {s} : pc'[t] = pc[t] /\ got'[t] = got[t] /\ start'[t] = start[t]
        /\ robbed' = robbed \ {s}
    BY <1>2 DEF Begin
  <2>. QED
    BY <2>1, LocalStep
<1>3. ASSUME NEW s \in Session, Decide(s) PROVE KeysBacked' /\ HeldByQuorum'
  <2>1. /\ pc[s] = "set" /\ UNCHANGED <<clock, owner, expiry, got, start, robbed>>
        /\ \A t \in Session \ {s} : pc'[t] = pc[t]
        /\ pc'[s] \in {"won", "undo"}
        /\ pc'[s] = "won" => Cardinality(got[s]) >= quorum
    BY <1>3 DEF Decide
  <2>. QED
    BY <2>1, LocalStep
<1>4. ASSUME NEW s \in Session, Remember(s) PROVE KeysBacked' /\ HeldByQuorum'
  <2>1. /\ pc[s] = "won" /\ UNCHANGED <<clock, owner, expiry, got, start, robbed>>
        /\ \A t \in Session \ {s} : pc'[t] = pc[t]
        /\ pc'[s] = "held"
    BY <1>4 DEF Remember
  <2>2. Cardinality(got[s]) >= quorum
    BY <2>1 DEF HeldByQuorum
  <2>. QED
    BY <2>1, <2>2, LocalStep
<1>5. ASSUME NEW s \in Session, release(s) PROVE KeysBacked' /\ HeldByQuorum'
  <2>1. /\ pc'[s] \in {"released", "undo"} /\ UNCHANGED <<clock, owner, expiry, start, robbed>>
        /\ \A t \in Session \ {s} : pc'[t] = pc[t] /\ got'[t] = got[t]
    BY <1>5 DEF release
  <2>. QED
    BY <2>1, LocalStep
<1>6. ASSUME NEW s \in Session, Undone(s) PROVE KeysBacked' /\ HeldByQuorum'
  <2>1. /\ pc'[s] \in {"released", "retry", "failed"}
        /\ UNCHANGED <<clock, owner, expiry, got, start, robbed>>
        /\ \A t \in Session \ {s} : pc'[t] = pc[t]
    BY <1>6 DEF Undone
  <2>. QED
    BY <2>1, LocalStep
<1>7. ASSUME NEW s \in Session, NEW o \in Reply, GetNode(s, o) PROVE KeysBacked' /\ HeldByQuorum'
  <2>1. /\ pc[s] = "undo" /\ pc'[s] \in {"undo", "delete"}
        /\ UNCHANGED <<clock, owner, expiry, got, start, robbed>>
        /\ \A t \in Session \ {s} : pc'[t] = pc[t]
    BY <1>7 DEF GetNode
  <2>. QED
    BY <2>1, LocalStep
<1>8. CASE UNCHANGED redlockVars
  <2>1. UNCHANGED <<clock, owner, expiry, pc, got, start, robbed>>
    BY <1>8 DEF redlockVars
  <2>. QED
    BY <2>1 DEF KeysBacked, HeldByQuorum
<1>. QED
  BY <1>1, <1>2, <1>3, <1>4, <1>5, <1>6, <1>7, <1>8, StepSetNode, StepDeleteNode DEF RedlockNext

\* At most one session holds the lock within its validity time, whatever replies are lost and
\* however long a call takes, unless another session's release deletes its live key
\* (redlock.py:58, :99).
THEOREM LockIsExclusive == RedlockSpec => []MutualExclusion
<1>1. RedlockInit => LockInv
  BY InitTypeInv DEF RedlockInit, LockInv, KeysBacked, HeldByQuorum
<1>. QED
  BY <1>1, StepLockInv, LockExcludes, PTL DEF RedlockSpec

-----------------------------------------------------------------------------
(* Nothing is left behind                                                   *)

\* A step that takes no entry away and lets no session but s come to hold or give back a
\* lock, s with its own token, keeps every session's token known.
LEMMA QuietTokens ==
    ASSUME TokenKept, NEW s \in Session, UNCHANGED <<via, tokens, taken>>,
           \A t \in Session \ {s} : pc'[t] = pc[t] /\ using'[t] = using[t],
           pc'[s] = "held" => pc[s] = "held",
           pc'[s] \in {"undo", "delete"} => \/ using'[s] = s
                                            \/ pc[s] \in {"undo", "delete"} /\ using'[s] = using[s]
    PROVE  TokenKept'
BY DEF TokenKept

\* Every step keeps the tokens known to their sessions.
LEMMA StepTokenKept == TypeInv /\ TokenKept /\ [RedlockNext]_redlockVars => TokenKept'
<1>. SUFFICES ASSUME TypeInv, TokenKept, [RedlockNext]_redlockVars PROVE TokenKept'
  OBVIOUS
<1>. USE DEF TypeInv, RedlockTypeOK, TokensOK, dicts
<1>1. CASE UNCHANGED <<pc, dicts>>
  BY <1>1 DEF TokenKept
<1>2. ASSUME NEW s \in Session, Begin(s) \/ Undone(s) PROVE TokenKept'
  <2>1. /\ pc'[s] \in {"set", "released", "retry", "failed"} /\ UNCHANGED dicts
        /\ \A t \in Session \ {s} : pc'[t] = pc[t]
    BY <1>2 DEF Begin, Undone
  <2>. QED
    BY <2>1, QuietTokens
<1>3. ASSUME NEW s \in Session, Decide(s) PROVE TokenKept'
  <2>1. /\ pc'[s] \in {"won", "undo"} /\ UNCHANGED <<via, tokens, taken>> /\ using'[s] = s
        /\ \A t \in Session \ {s} : pc'[t] = pc[t] /\ using'[t] = using[t]
    BY <1>3 DEF Decide
  <2>. QED
    BY <2>1, QuietTokens
<1>4. ASSUME NEW s \in Session, Remember(s) PROVE TokenKept'
  <2>1. /\ pc'[s] = "held" /\ UNCHANGED <<via, using>> /\ tokens'[via[s]] = s
        /\ \A t \in Session \ {s} : pc'[t] = pc[t]
        /\ \A c \in LockClient \ {via[s]} : tokens'[c] = tokens[c]
        /\ taken' = taken \cup ({tokens[via[s]]} \ {Nil})
    BY <1>4 DEF Remember
  <2>. SUFFICES ASSUME NEW t \in Session, t \notin taken'
                PROVE  /\ pc'[t] = "held" => tokens'[via'[t]] = t
                       /\ pc'[t] \in {"undo", "delete"} => using'[t] = t
    BY DEF TokenKept
  <2>2. CASE t = s
    BY <2>1, <2>2
  <2>3. CASE t # s
    <3>1. t \in Session \ taken /\ t # Nil
      BY <2>1, RedlockAssumption
    <3>2. via[t] = via[s] => tokens[via[t]] # t
      BY <2>1, <3>1
    <3>3. /\ pc[t] = "held" => tokens[via[t]] = t
          /\ pc[t] \in {"undo", "delete"} => using[t] = t
      BY <3>1 DEF TokenKept
    <3>. QED
      BY <2>1, <2>3, <3>2, <3>3
  <2>. QED
    BY <2>2, <2>3
<1>5. ASSUME NEW s \in Session, release(s) PROVE TokenKept'
  <2>. DEFINE u == tokens[via[s]]
  <2>1. /\ pc[s] = "held" /\ pc'[s] \in {"released", "undo"} /\ via' = via
        /\ using'[s] = IF u = Nil THEN s ELSE u
        /\ \A t \in Session \ {s} : pc'[t] = pc[t] /\ using'[t] = using[t]
        /\ \A c \in LockClient \ {via[s]} : tokens'[c] = tokens[c]
        /\ taken' = taken \cup ({u} \ {Nil, s})
    BY <1>5 DEF release
  <2>. SUFFICES ASSUME NEW t \in Session, t \notin taken'
                PROVE  /\ pc'[t] = "held" => tokens'[via'[t]] = t
                       /\ pc'[t] \in {"undo", "delete"} => using'[t] = t
    BY DEF TokenKept
  <2>2. t \in Session \ taken /\ t # Nil
    BY <2>1, RedlockAssumption
  <2>3. /\ pc[t] = "held" => tokens[via[t]] = t
        /\ pc[t] \in {"undo", "delete"} => using[t] = t
    BY <2>2 DEF TokenKept
  <2>4. CASE t = s
    BY <2>1, <2>2, <2>3, <2>4
  <2>5. CASE t # s
    <3>1. u # t
      BY <2>1, <2>2, <2>5
    <3>. QED
      BY <2>1, <2>3, <2>5, <3>1
  <2>. QED
    BY <2>4, <2>5
<1>6. ASSUME NEW s \in Session, NEW o \in Reply, GetNode(s, o) \/ DeleteNode(s, o) PROVE TokenKept'
  <2>1. /\ pc[s] \in {"undo", "delete"} /\ pc'[s] \in {"undo", "delete"} /\ UNCHANGED dicts
        /\ \A t \in Session \ {s} : pc'[t] = pc[t]
    BY <1>6 DEF GetNode, DeleteNode
  <2>. QED
    BY <2>1, QuietTokens
<1>. QED
  BY <1>1, <1>2, <1>3, <1>4, <1>5, <1>6 DEF RedlockNext, redlockVars, ClockTicks, SetNode

\* A step of one session that touches no node keeps what it knows of its keys.
LEMMA QuietKeys ==
    ASSUME KeysKnown, NEW s \in Session, UNCHANGED <<clock, owner, expiry, faults>>,
           \A t \in Session \ {s} : pc'[t] = pc[t] /\ at'[t] = at[t] /\ got'[t] = got[t],
           taken \subseteq taken',
           s \notin taken' /\ faults = 0 => \A n \in Node : KeyAt(n) = s => Knows(s, n)'
    PROVE  KeysKnown'
<1>1. \A n \in Node : KeyAt(n)' = KeyAt(n)
  BY DEF KeyAt
<1>2. \A t \in Session \ {s}, n \in Node : Knows(t, n) => Knows(t, n)'
  BY DEF Knows
<1>. QED
  BY <1>1, <1>2 DEF KeysKnown

\* A SET adds a key its session knows of, when the call succeeds.
LEMMA SetKeys ==
    ASSUME TypeInv, KeysKnown, NEW s \in Session, NEW o \in Reply, SetNode(s, o)
    PROVE  KeysKnown'
<1>. USE RedlockAssumption DEF TypeInv, RedlockTypeOK, AttemptInv, Node, nodes
<1>. SUFFICES ASSUME faults' = 0, NEW t \in Session \ taken, NEW m \in Node, KeyAt(m)' = t
              PROVE  Knows(t, m)'
  BY DEF KeysKnown, SetNode, dicts
<1>1. faults = 0 /\ o = "ok"
  BY NodeCallFaults DEF SetNode
<1>2. at[s] \in Node /\ pc[s] = "set" /\ UNCHANGED <<clock, pc>>
  BY DEF SetNode
<1>3. at' = [at EXCEPT ![s] = at[s] + 1]
  BY DEF SetNode
<1>4. CASE KeyAt(at[s]) = Nil
  <2>1. /\ owner' = [owner EXCEPT ![at[s]] = s] /\ expiry' = [expiry EXCEPT ![at[s]] = clock + TTL]
        /\ got' = [got EXCEPT ![s] = got[s] \cup {at[s]}]
    BY <1>1, <1>4 DEF SetNode
  <2>2. m # at[s] => KeyAt(m) = t
    BY <1>2, <2>1 DEF KeyAt
  <2>3. m = at[s] => t = s
    BY <1>2, <2>1 DEF KeyAt
  <2>4. CASE m = at[s]
    BY <1>2, <2>1, <2>3, <2>4 DEF Knows
  <2>5. CASE m # at[s]
    <3>1. Knows(t, m)
      BY <1>1, <2>2, <2>5 DEF KeysKnown
    <3>2. got[t] \subseteq got'[t] /\ (t # s => at'[t] = at[t])
      BY <1>3, <2>1
    <3>. QED
      BY <1>2, <3>1, <3>2 DEF Knows
  <2>. QED
    BY <2>4, <2>5
<1>5. CASE KeyAt(at[s]) # Nil
  <2>1. UNCHANGED <<owner, expiry, got>>
    BY <1>5 DEF SetNode
  <2>2. KeyAt(m) = t
    BY <1>2, <2>1 DEF KeyAt
  <2>3. Knows(t, m)
    BY <1>1, <2>2 DEF KeysKnown
  <2>4. t # s => at'[t] = at[t]
    BY <1>3
  <2>. QED
    BY <1>2, <2>1, <2>3, <2>4 DEF Knows
<1>. QED
  BY <1>4, <1>5

\* A GET passes a node only when the session's token is not there.
LEMMA GetKeys ==
    ASSUME TypeInv, TokenKept, KeysKnown, NEW s \in Session, NEW o \in Reply, GetNode(s, o)
    PROVE  KeysKnown'
<1>. USE RedlockAssumption DEF TypeInv, RedlockTypeOK, AttemptInv, Node, nodes, dicts
<1>1. pc[s] = "undo" /\ UNCHANGED <<clock, owner, expiry, got, taken>>
  BY DEF GetNode
<1>2. faults' = 0 => faults = 0 /\ o = "ok"
  BY NodeCallFaults DEF GetNode, Reply
<1>3. \/ pc' = [pc EXCEPT ![s] = "delete"] /\ at' = at
      \/ /\ pc' = pc /\ at' = [at EXCEPT ![s] = at[s] + 1]
         /\ at[s] \in got[s] /\ o = "ok" => KeyAt(at[s]) # using[s]
  BY DEF GetNode
<1>. SUFFICES ASSUME faults' = 0, NEW t \in Session \ taken, NEW m \in Node, KeyAt(m)' = t
              PROVE  Knows(t, m)'
  BY <1>1 DEF KeysKnown
<1>4. KeyAt(m) = t
  BY <1>1 DEF KeyAt
<1>5. Knows(t, m)
  BY <1>2, <1>4 DEF KeysKnown
<1>6. CASE t # s
  <2>1. pc'[t] = pc[t] /\ at'[t] = at[t]
    BY <1>3, <1>6
  <2>. QED
    BY <1>1, <1>5, <2>1 DEF Knows
<1>7. CASE t = s
  <2>1. m >= at[s] /\ m \in got[s] /\ using[s] = s
    BY <1>1, <1>5, <1>7 DEF Knows, TokenKept
  <2>2. CASE pc' = [pc EXCEPT ![s] = "delete"] /\ at' = at
    BY <1>1, <1>7, <2>1, <2>2 DEF Knows
  <2>3. ASSUME pc' = pc, at' = [at EXCEPT ![s] = at[s] + 1], m # at[s] PROVE Knows(t, m)'
    <3>1. pc'[s] = "undo" /\ at'[s] = at[s] + 1
      BY <1>1, <2>3
    <3>2. m >= at'[s]
      BY <2>1, <2>3, <3>1
    <3>. QED
      BY <1>1, <1>7, <2>1, <3>1, <3>2 DEF Knows
  <2>4. m = at[s] => at[s] \in got[s] /\ KeyAt(at[s]) = using[s]
    BY <1>4, <1>7, <2>1
  <2>5. \/ pc' = [pc EXCEPT ![s] = "delete"] /\ at' = at
        \/ pc' = pc /\ at' = [at EXCEPT ![s] = at[s] + 1] /\ m # at[s]
    BY <1>2, <1>3, <2>4, Zenon
  <2>. QED
    BY <2>2, <2>3, <2>5, Zenon
<1>. QED
  BY <1>6, <1>7

\* A DELETE that succeeds leaves no key on its node.
LEMMA DeleteKeys ==
    ASSUME TypeInv, KeysKnown, NEW s \in Session, NEW o \in Reply, DeleteNode(s, o)
    PROVE  KeysKnown'
<1>. USE RedlockAssumption DEF TypeInv, RedlockTypeOK, AttemptInv, Node
<1>. SUFFICES ASSUME faults' = 0, NEW t \in Session \ taken, NEW m \in Node, KeyAt(m)' = t
              PROVE  Knows(t, m)'
  BY DEF KeysKnown, DeleteNode, dicts
<1>1. faults = 0 /\ o = "ok"
  BY NodeCallFaults DEF DeleteNode
<1>2. /\ at[s] \in Node /\ pc[s] = "delete" /\ UNCHANGED <<clock, expiry, got>>
      /\ pc' = [pc EXCEPT ![s] = "undo"] /\ at' = [at EXCEPT ![s] = at[s] + 1]
      /\ owner' = [owner EXCEPT ![at[s]] = Nil]
  BY <1>1 DEF DeleteNode
<1>3. m # at[s] /\ KeyAt(m) = t
  BY <1>2 DEF KeyAt
<1>4. Knows(t, m)
  BY <1>1, <1>3 DEF KeysKnown
<1>5. CASE t = s
  BY <1>2, <1>3, <1>4, <1>5 DEF Knows
<1>6. CASE t # s
  BY <1>2, <1>4, <1>6 DEF Knows
<1>. QED
  BY <1>5, <1>6

\* Every step keeps a session's keys among those it knows of.
LEMMA StepKeysKnown == TypeInv /\ TokenKept /\ KeysKnown /\ [RedlockNext]_redlockVars => KeysKnown'
<1>. SUFFICES ASSUME TypeInv, TokenKept, KeysKnown, [RedlockNext]_redlockVars PROVE KeysKnown'
  OBVIOUS
<1>. USE RedlockAssumption DEF TypeInv, RedlockTypeOK, AttemptInv, Node, nodes, dicts
<1>1. CASE ClockTicks
  <2>1. \A n \in Node, t \in Session : KeyAt(n)' = t => KeyAt(n) = t
    BY <1>1 DEF ClockTicks, KeyAt
  <2>2. UNCHANGED <<pc, at, got, faults, taken>>
    BY <1>1 DEF ClockTicks
  <2>. QED
    BY <2>1, <2>2 DEF KeysKnown, Knows
<1>2. ASSUME NEW s \in Session, Begin(s) \/ Undone(s) PROVE KeysKnown'
  <2>1. /\ \/ pc[s] \in {"idle", "retry"}
           \/ pc[s] = "undo" /\ at[s] = N + 1
        /\ UNCHANGED <<clock, owner, expiry, faults, taken>>
        /\ \A t \in Session \ {s} : pc'[t] = pc[t] /\ at'[t] = at[t] /\ got'[t] = got[t]
    BY <1>2 DEF Begin, Undone
  <2>2. ASSUME NEW n \in Node PROVE ~Knows(s, n)
    BY <2>1 DEF Knows
  <2>3. s \notin taken /\ faults = 0 => \A n \in Node : KeyAt(n) # s
    BY <2>2, Zenon DEF KeysKnown
  <2>. QED
    BY <2>1, <2>3, QuietKeys
<1>3. ASSUME NEW s \in Session, Decide(s) \/ Remember(s) PROVE KeysKnown'
  <2>1. /\ pc'[s] \in {"won", "held", "undo"} /\ at'[s] = 1
        /\ UNCHANGED <<clock, owner, expiry, got, faults>> /\ taken \subseteq taken'
        /\ \A t \in Session \ {s} : pc'[t] = pc[t] /\ at'[t] = at[t]
    BY <1>3 DEF Decide, Remember
  <2>2. s \notin taken /\ faults = 0 => \A n \in Node : KeyAt(n) = s => n \in got'[s] /\ n >= at'[s]
    BY <2>1 DEF KeysKnown, Knows
  <2>3. s \notin taken' /\ faults = 0 => \A n \in Node : KeyAt(n) = s => Knows(s, n)'
    BY <2>1, <2>2 DEF Knows
  <2>. QED
    BY <2>1, <2>3, QuietKeys
<1>4. ASSUME NEW s \in Session, release(s) PROVE KeysKnown'
  <2>1. /\ pc[s] = "held" /\ at[s] = 1 /\ got'[s] = Node
        /\ UNCHANGED <<clock, owner, expiry, at, faults>> /\ taken \subseteq taken'
        /\ \A t \in Session \ {s} : pc'[t] = pc[t] /\ got'[t] = got[t]
        /\ tokens[via[s]] # Nil => pc'[s] = "undo"
    BY <1>4 DEF release
  <2>2. s \notin taken' => tokens[via[s]] # Nil
    BY <2>1 DEF TokenKept
  <2>3. s \notin taken' => \A n \in Node : Knows(s, n)'
    BY <2>1, <2>2 DEF Knows
  <2>. QED
    BY <2>1, <2>3, QuietKeys
<1>5. CASE UNCHANGED redlockVars
  BY <1>5 DEF redlockVars, KeysKnown, Knows, KeyAt
<1>. QED
  BY <1>1, <1>2, <1>3, <1>4, <1>5, SetKeys, GetKeys, DeleteKeys DEF RedlockNext

\* When every node call succeeds, a session that gave up, released or is about to retry
\* has no key on any node, unless another session of its client took its token
\* (redlock.py:65, :80).
THEOREM NothingIsLeft == RedlockSpec => []NothingLeftBehind
<1>1. RedlockInit => TokenKept /\ KeysKnown
  BY RedlockAssumption DEF RedlockInit, TokenKept, KeysKnown, KeyAt
<1>2. TypeInv /\ KeysKnown => NothingLeftBehind
  BY DEF KeysKnown, Knows, NothingLeftBehind
<1>. QED
  BY <1>1, <1>2, RedlockTypes, StepTokenKept, StepKeysKnown, PTL DEF RedlockSpec

=============================================================================
