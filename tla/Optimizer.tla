----------------------------- MODULE Optimizer -----------------------------
(***************************************************************************)
(* The offline optimization job (optimizer.py): PromptOptimizer ingests    *)
(* traces from Kafka, or makes up synthetic ones, and compiles a skill for *)
(* every (role, phase) pair with failures; SkillCompiler writes a file per *)
(* skill and then the index.  The job is run again and again and can be    *)
(* killed at any point.                                                    *)
(*                                                                         *)
(* A trace is its pair and the themes of its findings; a passing one has   *)
(* none.  A prompt is the set of themes its words address.                 *)
(***************************************************************************)
EXTENDS FiniteSetsExt, SequencesExt

CONSTANTS
    Pair,
    Trace,          \* the traces the runtime emits
    Synthetic,      \* what _synthetic_traces returns
    Base,           \* themes addressed by the default prompt of a pair
    Demos,          \* ... by the examples DSPy may append to it
    population_size, limit,
    MaxTraces, MaxJobs, MaxFaults,    \* bounds
    Absent, Torn    \* no file; a message or a file that is not what it should be

Theme == {"word", "field", "term", "other"}
Record == [pair : Pair, themes : SUBSET Theme]
Skill == [prompt : SUBSET Theme, score : Nat]

ASSUME OptimizerAssumption ==
    /\ Trace \subseteq Record /\ Synthetic \in Seq(Record)
    /\ Base \in [Pair -> SUBSET Theme] /\ Demos \subseteq Theme
    /\ population_size \in Nat \ {0} /\ limit \in Nat \ {0}
    /\ Absent # Torn /\ {Absent, Torn} \cap Skill = {}
    /\ MaxTraces \in Nat /\ MaxJobs \in Nat /\ MaxFaults \in Nat

VARIABLES
    topic, committed,     \* the trace topic and the offset of the shared group
    job,                  \* "off", "consuming", "compiling", "writing", "indexing"
    shared,               \* the consumer is in the shared group, not one of its own
    position, records,    \* of the consumer
    traces,               \* what compile is given
    assets, written,      \* the assets of this run, and how many of them are on disk
    opened,               \* write_text has emptied the file it is to write
    files, index,         \* the skills directory: the asset in a pair's file, the manifest
    jobs, faults, handed, wasted, dirty    \* history: see OptimizerInit

ingestVars == <<topic, committed, shared, position, records>>
diskVars == <<assets, written, opened, files, index, dirty>>
countVars == <<jobs, faults, handed, wasted>>
optimizerVars == <<ingestVars, job, traces, diskVars, countVars>>

-----------------------------------------------------------------------------
(* Selections from a sequence.                                              *)

\* A finite set of positions, in ascending order.
InOrder(S) == [k \in 1..Cardinality(S) |-> CHOOSE i \in S : Cardinality({j \in S : j < i}) = k - 1]

\* What the sequence s has at the positions S, in its order.
At(s, S) == [k \in 1..Cardinality(S) |-> s[InOrder(S)[k]]]

-----------------------------------------------------------------------------
(* GEPAEvolver and compile.                                                 *)

is_failure(t) == t.themes # {}

\* How many of the traces the prompt addresses.
_score_candidate(prompt, ts) == Cardinality({i \in DOMAIN ts : ts[i].themes \cap prompt # {}})

\* A constraint clause for each theme of the findings, or one that addresses none.
_generate_candidates(prompt, ts) ==
    LET constraint == <<"word", "field", "term">>
        found == At(constraint, {c \in 1..3 : \E i \in DOMAIN ts : constraint[c] \in ts[i].themes})
        clauses == IF found = <<>> THEN <<prompt>> ELSE [i \in DOMAIN found |-> prompt \cup {found[i]}]
    IN SubSeq(clauses, 1, Min({population_size, Len(clauses)}))

\* The candidate with the best score; the base prompt, or the earlier one, of equals.
evolve(prompt, ts) ==
    LET candidates == <<prompt>> \o _generate_candidates(prompt, ts)
        scored == [i \in DOMAIN candidates |-> _score_candidate(candidates[i], ts)]
        best == CHOOSE i \in DOMAIN scored : \A k \in DOMAIN scored :
                    scored[k] < scored[i] \/ (scored[k] = scored[i] /\ i <= k)
    IN [prompt |-> candidates[best], score |-> scored[best]]

FailuresOf(pair, ts) == At(ts, {i \in DOMAIN ts : ts[i].pair = pair /\ is_failure(ts[i])})

\* DSPy makes its demonstrations from passing traces; it may fail, find none, or not
\* be installed.
_compile_with_dspy(pair, ts) ==
    {Base[pair]} \cup
        {Base[pair] \cup Demos : i \in {i \in DOMAIN ts : ts[i].pair = pair /\ ~is_failure(ts[i])}}

\* An asset for every pair with failures, in the order the pairs appear, evolved from
\* the prompt DSPy has left.
compile(ts, prompt) ==
    LET firsts == InOrder({i \in DOMAIN ts : /\ \A j \in 1..i - 1 : ts[j].pair # ts[i].pair
                                             /\ FailuresOf(ts[i].pair, ts) # <<>>})
        asset(pair) == [pair |-> pair, skill |-> evolve(prompt[pair], FailuresOf(pair, ts))]
    IN [k \in DOMAIN firsts |-> asset(ts[firsts[k]].pair)]

-----------------------------------------------------------------------------
(* ingest_traces                                                            *)

Emit(t) ==
    /\ Len(topic) < MaxTraces
    /\ topic' = Append(topic, t)
    /\ UNCHANGED <<committed, shared, position, records, job, traces, diskVars, countVars>>

HandOver(ts) == traces' = ts /\ job' = "compiling"

StartJob == job = "off" /\ jobs < MaxJobs /\ jobs' = jobs + 1

\* dry_run, a broker that is not reachable, or a consumer that does not start.
IngestSynthetic ==
    /\ StartJob
    /\ HandOver(Synthetic)
    /\ UNCHANGED <<ingestVars, diskVars, faults, handed, wasted>>

\* The group is the shared one, or after reset_offset a new one that starts at 0.
StartConsumer(inGroup) ==
    /\ StartJob
    /\ job' = "consuming"
    /\ shared' = inGroup
    /\ position' = IF inGroup THEN committed ELSE 0
    /\ records' = <<>>
    /\ UNCHANGED <<topic, committed, traces, diskVars, faults, handed, wasted>>

\* A malformed value is skipped.
Consume ==
    /\ job = "consuming"
    /\ position < Len(topic) /\ Len(records) < limit
    /\ position' = position + 1
    /\ records' = IF topic[position + 1] = Torn THEN records ELSE Append(records, position + 1)
    /\ UNCHANGED <<topic, committed, shared, job, traces, diskVars, countVars>>

\* The consumer commits its position now and then, and when it is stopped.
Commit == committed' = IF shared THEN position ELSE committed

AutoCommit ==
    /\ job = "consuming"
    /\ Commit
    /\ UNCHANGED <<topic, shared, position, records, job, traces, diskVars, countVars>>

\* (mutant) Whatever the outcome, nothing is committed.
IngestEndsUncommitted ==
    /\ job = "consuming"
    /\ HandOver([k \in DOMAIN records |-> topic[records[k]]])
    /\ handed' = IF shared
                 THEN [o \in 1..MaxTraces |-> IF Contains(records, o) THEN handed[o] + 1 ELSE handed[o]]
                 ELSE handed
    /\ UNCHANGED <<ingestVars, diskVars, jobs, wasted, faults>>

\* The consumer is stopped, which commits its position; an exception is swallowed.
StopConsumer ==
    \/ Commit /\ UNCHANGED faults
    \/ /\ faults < MaxFaults /\ faults' = faults + 1
       /\ UNCHANGED committed

\* The limit is reached, or the iteration ends for want of messages.  Timestamps grow
\* with offsets, so the records are sorted.
IngestEnds ==
    /\ job = "consuming"
    /\ HandOver([k \in DOMAIN records |-> topic[records[k]]])
    /\ handed' = IF shared
                 THEN [o \in 1..MaxTraces |-> IF Contains(records, o) THEN handed[o] + 1 ELSE handed[o]]
                 ELSE handed
    /\ StopConsumer
    /\ UNCHANGED <<topic, shared, position, records, diskVars, jobs, wasted>>

\* After 10 s, or when reading raises, the consumer is cancelled and stopped; what it
\* had read is dropped.
IngestTimesOut ==
    /\ job = "consuming"
    /\ HandOver(Synthetic)
    /\ StopConsumer
    /\ wasted' = IF shared THEN wasted \cup ToSet(records) ELSE wasted
    /\ UNCHANGED <<topic, shared, position, records, diskVars, jobs, handed>>

-----------------------------------------------------------------------------
(* SkillCompiler.compile_all                                                *)

Compile ==
    /\ job = "compiling"
    /\ \E prompt \in [Pair -> UNION {_compile_with_dspy(p, traces) : p \in Pair}] :
          /\ \A p \in Pair : prompt[p] \in _compile_with_dspy(p, traces)
          /\ assets' = compile(traces, prompt)
    /\ written' = 0
    /\ job' = "writing"
    /\ UNCHANGED <<ingestVars, traces, opened, files, index, dirty, countVars>>

\* write_text: the file is emptied first, then filled.
OpenAsset ==
    /\ job = "writing" /\ ~opened
    /\ written < Len(assets)
    /\ opened' = TRUE
    /\ files' = [files EXCEPT ![assets[written + 1].pair] = Torn]
    /\ dirty' = TRUE
    /\ UNCHANGED <<ingestVars, job, traces, assets, written, index, countVars>>

_write_asset ==
    /\ job = "writing" /\ opened
    /\ files' = [files EXCEPT ![assets[written + 1].pair] = assets[written + 1].skill]
    /\ written' = written + 1
    /\ opened' = FALSE
    /\ UNCHANGED <<ingestVars, job, traces, assets, index, dirty, countVars>>

\* (mutant) The manifest is written before the files.
OpenIndexFirst ==
    /\ job = "writing" /\ ~opened
    /\ written = 0
    /\ index' = {[pair |-> assets[k].pair, score |-> assets[k].skill.score] : k \in DOMAIN assets}
    /\ dirty' = FALSE
    /\ UNCHANGED <<ingestVars, traces, job, assets, written, opened, files, countVars>>

OpenIndex ==
    /\ job = "writing" /\ ~opened
    /\ written = Len(assets)
    /\ index' = Torn
    /\ dirty' = TRUE
    /\ job' = "indexing"
    /\ UNCHANGED <<ingestVars, traces, assets, written, opened, files, countVars>>

\* The manifest lists the assets of this run.
_write_index ==
    /\ job = "indexing"
    /\ index' = {[pair |-> assets[k].pair, score |-> assets[k].skill.score] : k \in DOMAIN assets}
    /\ dirty' = FALSE
    /\ job' = "off"
    /\ UNCHANGED <<ingestVars, traces, assets, written, opened, files, countVars>>

Kill ==
    /\ job # "off"
    /\ faults < MaxFaults
    /\ faults' = faults + 1
    /\ wasted' = IF job = "consuming" /\ shared THEN wasted \cup ToSet(records) ELSE wasted
    /\ job' = "off" /\ opened' = FALSE
    /\ UNCHANGED <<ingestVars, traces, assets, written, files, index, dirty, jobs, handed>>

-----------------------------------------------------------------------------
OptimizerInit ==
    /\ topic = <<>> /\ committed = 0
    /\ job = "off" /\ shared = TRUE
    /\ position = 0 /\ records = <<>>
    /\ traces = <<>> /\ assets = <<>> /\ written = 0 /\ opened = FALSE
    /\ files = [p \in Pair |-> Absent]
    /\ index = {}
    /\ jobs = 0 /\ faults = 0       \* runs; kills and failed commits
    /\ handed = [o \in 1..MaxTraces |-> 0]   \* times a trace was given to compile
    /\ wasted = {}                  \* traces read by a run that was cut short
    /\ dirty = FALSE                \* files or manifest were touched since a manifest was finished

OptimizerNext ==
    \/ \E t \in Trace \cup {Torn} : Emit(t)
    \/ IngestSynthetic
    \/ \E inGroup \in BOOLEAN : StartConsumer(inGroup)
    \/ Consume \/ AutoCommit \/ IngestEnds \/ IngestTimesOut
    \/ Compile \/ OpenAsset \/ _write_asset \/ OpenIndex \/ _write_index
    \/ Kill

OptimizerSpec == OptimizerInit /\ [][OptimizerNext]_optimizerVars

-----------------------------------------------------------------------------
\* However often jobs are killed between and within writes, a manifest that was
\* finished, with nothing written after it, lists whole files with the very score of
\* the skill in them; and no manifest ever lists a file that is not there.  A skill
\* scores no worse than the default prompt it replaces (optimizer.py:691 and :183).
ManifestResolves ==
    /\ index # Torn =>
          \A e \in index :
             /\ files[e.pair] # Absent
             /\ ~dirty => files[e.pair] # Torn /\ files[e.pair].score = e.score
    /\ \A k \in DOMAIN assets :
          LET fs == FailuresOf(assets[k].pair, traces) IN
          job \in {"writing", "indexing"} =>
             /\ fs # <<>>
             /\ assets[k].skill.score >= _score_candidate(Base[assets[k].pair], fs)

\* Traces are neither lost nor learnt from twice: what the shared group has committed
\* was handed to compile, unless it was malformed or its run was killed or timed out;
\* and a trace is handed over a second time only when a commit was (optimizer.py:346, :479).
TracesUsedOnce ==
    \A o \in DOMAIN topic :
        /\ handed[o] <= 1 + faults
        /\ o <= committed /\ topic[o] # Torn /\ ~(job = "consuming" /\ shared) =>
               handed[o] > 0 \/ o \in wasted

=============================================================================
