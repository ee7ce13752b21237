----------------------------- MODULE Knowledge -----------------------------
(***************************************************************************)
(* The knowledge base (knowledge/): agents publish texts on the bus, the   *)
(* IngestionWorker cuts each into overlapping chunks and stores them for   *)
(* the text's owner, in memory or in PostgreSQL, where a chunk is keyed by *)
(* its owner and its first characters.                                     *)
(*                                                                         *)
(* A document is a sequence of paragraphs, a paragraph a sequence of       *)
(* sentences [id, len].  A unit is what is never cut: a paragraph that     *)
(* fits, or one sentence.                                                  *)
(***************************************************************************)
EXTENDS FiniteSetsExt, SequencesExt, Integers

CONSTANTS
    Owner, Document,
    chunk_size, overlap,
    KeyLen,            \* leading characters that make the key of a row (text[:64])
    MaxMessages      \* bound

ASSUME KnowledgeAssumption ==
    /\ Document \subseteq Seq(Seq([id : Nat, len : Nat \ {0}]) \ {<<>>})
    /\ chunk_size \in Nat \ {0} /\ overlap \in Nat /\ KeyLen \in Nat \ {0}
    /\ MaxMessages \in Nat

VARIABLES
    backend,      \* "memory" or "pg"
    queue,        \* the worker's subscription to agent.output.final
    worker,       \* "off", "waiting" for a message, or "dead" of an exception
    rows,         \* the store, oldest row first
    published, ingested    \* history: messages published, and processed to the end

knowledgeVars == <<backend, queue, worker, rows, published, ingested>>

-----------------------------------------------------------------------------
(* chunker.py                                                               *)

\* Sentences are joined by a blank.
textLen(unit) ==
    LET len[n \in 0..Len(unit)] == IF n = 0 THEN Len(unit) - 1 ELSE len[n - 1] + unit[n].len
    IN len[Len(unit)]

unitsLen(us) ==
    LET len[n \in 0..Len(us)] == IF n = 0 THEN 0 ELSE len[n - 1] + textLen(us[n])
    IN len[Len(us)]

units(doc) ==
    FlattenSeq([k \in DOMAIN doc |->
        IF textLen(doc[k]) <= chunk_size THEN <<doc[k]>>
        ELSE [i \in DOMAIN doc[k] |-> <<doc[k][i]>>]])

\* The last units that fit into the overlap.
carry(current) ==
    LET n == Len(current)
        first == Min({i \in 1..n + 1 : unitsLen(SubSeq(current, i, n)) <= overlap})
    IN SubSeq(current, first, n)

\* (mutant) The unit that did not fit is left out of the next chunk.
AddUnitDropping(st, u) ==
    IF st.current # <<>> /\ unitsLen(st.current) + textLen(u) > chunk_size
    THEN [chunks |-> Append(st.chunks, st.current), current |-> carry(st.current)]
    ELSE [st EXCEPT !.current = Append(@, u)]

\* A unit that does not fit closes the chunk; the next one starts with its tail.
AddUnit(st, u) ==
    IF st.current # <<>> /\ unitsLen(st.current) + textLen(u) > chunk_size
    THEN [chunks |-> Append(st.chunks, st.current), current |-> Append(carry(st.current), u)]
    ELSE [st EXCEPT !.current = Append(@, u)]

\* The loop over the units; a blank text is one chunk.
chunk_text(doc) ==
    LET us == units(doc)
        st[n \in 0..Len(us)] == IF n = 0 THEN [chunks |-> <<>>, current |-> <<>>]
                                ELSE AddUnit(st[n - 1], us[n])
    IN Append(st[Len(us)].chunks, st[Len(us)].current)

-----------------------------------------------------------------------------
(* vector_store.py                                                          *)

\* The sentences that the first KeyLen characters of a chunk reach into.
headOf(chunk) ==
    LET text == FlattenSeq(chunk) IN
    SubSeq(text, 1, Cardinality({i \in DOMAIN text : textLen(SubSeq(text, 1, i - 1)) + 1 < KeyLen}))

\* (mutant) Without the owner in the key of the conflict.
UpsertAcrossOwners(store, row) ==
    LET same == {i \in DOMAIN store : headOf(store[i].chunk) = headOf(row.chunk)} IN
    IF backend = "pg" /\ same # {}
    THEN [i \in DOMAIN store |-> IF i \in same THEN row ELSE store[i]]
    ELSE Append(store, row)

\* INSERT ... ON CONFLICT (owner_id, chunk_id) DO UPDATE, or an append in memory.
upsert(store, row) ==
    LET same == {i \in DOMAIN store : store[i].owner = row.owner
                                        /\ headOf(store[i].chunk) = headOf(row.chunk)}
    IN IF backend = "pg" /\ same # {}
       THEN [i \in DOMAIN store |-> IF i \in same THEN row ELSE store[i]]
       ELSE Append(store, row)

\* The rows a search of the owner ranks: "WHERE owner_id = %s".
searched(owner) == {rows[i].chunk : i \in {j \in DOMAIN rows : rows[j].owner = owner}}

-----------------------------------------------------------------------------
(* ingest.py                                                                *)

\* WriterAgent publishes its report; the worker subscribed when it was built.
Publish(o, d) ==
    /\ Len(published) < MaxMessages
    /\ LET msg == [owner |-> o, doc |-> d] IN
         /\ queue' = Append(queue, msg)
         /\ published' = Append(published, msg)
    /\ UNCHANGED <<backend, worker, rows, ingested>>

start ==
    /\ worker = "off"
    /\ worker' = "waiting"
    /\ UNCHANGED <<backend, queue, rows, published, ingested>>

\* Cancelled while it waits: between get() and get() the worker does not yield.
Cancel ==
    /\ worker = "waiting"
    /\ worker' = "off"
    /\ UNCHANGED <<backend, queue, rows, published, ingested>>

\* The store when the first n chunks of a message are in it.
Stored(msg, n) ==
    LET chunks == chunk_text(msg.doc)
        store[k \in 0..n] == IF k = 0 THEN rows
                             ELSE upsert(store[k - 1], [owner |-> msg.owner, chunk |-> chunks[k]])
    IN store[n]

_process ==
    /\ worker = "waiting" /\ queue # <<>>
    /\ rows' = Stored(Head(queue), Len(chunk_text(Head(queue).doc)))
    /\ ingested' = Append(ingested, Head(queue))
    /\ queue' = Tail(queue)
    /\ UNCHANGED <<backend, worker, published>>

\* A message without text, the embedder or the store raises: start() ends with it.
ProcessRaises ==
    /\ worker = "waiting" /\ queue # <<>>
    /\ \E n \in 0..Len(chunk_text(Head(queue).doc)) - 1 : rows' = Stored(Head(queue), n)
    /\ queue' = Tail(queue)
    /\ worker' = "dead"
    /\ UNCHANGED <<backend, published, ingested>>

-----------------------------------------------------------------------------
KnowledgeInit ==
    /\ backend \in {"memory", "pg"}
    /\ queue = <<>> /\ worker = "off" /\ rows = <<>>
    /\ published = <<>> /\ ingested = <<>>

KnowledgeNext ==
    \/ \E o \in Owner, d \in Document : Publish(o, d)
    \/ start \/ Cancel \/ _process \/ ProcessRaises

KnowledgeSpec == KnowledgeInit /\ [][KnowledgeNext]_knowledgeVars

-----------------------------------------------------------------------------
\* cs cut the units us: runs of units in order that begin with the first and end with
\* the last, each beginning in the one before it or right after; neighbours share no more
\* than the overlap, and only a unit that is added to a tail makes a chunk too long.
CutOf(cs, us) ==
    \E first \in [DOMAIN cs -> DOMAIN us] :
        LET last == [k \in DOMAIN cs |-> first[k] + Len(cs[k]) - 1] IN
        /\ first[1] = 1 /\ last[Len(cs)] = Len(us)
        /\ \A k \in DOMAIN cs :
              /\ first[k] <= last[k] /\ cs[k] = SubSeq(us, first[k], last[k])
              /\ unitsLen(cs[k]) <= chunk_size \/ unitsLen(Front(cs[k])) <= overlap
        /\ \A k \in 2..Len(cs) :
              /\ first[k - 1] <= first[k] /\ first[k] <= last[k - 1] + 1 /\ last[k - 1] < last[k]
              /\ unitsLen(SubSeq(us, first[k], last[k - 1])) <= overlap

\* The units are the text, and the chunks cut them (chunker.py:30 to :77).
ChunksCover(doc) ==
    LET us == units(doc) IN
    /\ FlattenSeq(us) = FlattenSeq(doc)
    /\ IF us = <<>> THEN chunk_text(doc) = <<<<>>>> ELSE CutOf(chunk_text(doc), us)

\* A text that was ingested can be found, all of it and by its owner only: its chunks
\* cover it and are stored for the owner, in PostgreSQL unless a chunk with the same
\* beginning has taken the place of one; whatever is stored for an owner was
\* published for that owner, even by a worker that died of it (vector_store.py:122).
IngestedIsSearchable ==
    /\ \A m \in ToSet(ingested) :
          /\ ChunksCover(m.doc)
          /\ \A c \in ToSet(chunk_text(m.doc)) :
                \E found \in searched(m.owner) :
                    found = c \/ (backend = "pg" /\ headOf(found) = headOf(c))
    /\ \A o \in Owner : \A c \in searched(o) :
          \E m \in ToSet(published) : m.owner = o /\ c \in ToSet(chunk_text(m.doc))

=============================================================================
