------------------------------- MODULE Memory -------------------------------
(* One orchestrator's memory: the ingest directory the memory worker        *)
(* empties, the SQLite store that ingest, transcripts and workflow steps    *)
(* write, and the bulletin every message is given.  The worker, the message *)
(* threads and the step threads share the store and nothing else, so each   *)
(* of their transactions is a step of its own.                              *)
EXTENDS MemoryBulletin

CONSTANTS
    Scenarios,      \* what happens around the store in one behaviour
    Bodies,         \* file contents: [kind, nodes, edges] for each name
    FileNames,      \* names of dropped files, in their sort order
    Messages,       \* inbound messages
    TopN            \* memory.retrieval.top_n

ASSUME MessagesAreNoThreads == Messages \cap {"worker", "step"} = {}

(* max_chars and top_n are of type usize.                                   *)
ASSUME LimitsAreNumbers ==
    TopN \in Nat /\ \A s \in Scenarios : "limit" \in DOMAIN s /\ s.limit \in Nat

VARIABLES
    budget,         \* what may still happen: drops, runs, attempts, faults...
    clock,
    ingest,         \* files of memory/ingest/: name -> body
    processed,      \* files of memory/ingest/processed/
    rejected,       \* files of memory/ingest/rejected/, with their reason
    sources,        \* table memory_sources: idempotency keys
    rows,           \* tables memories, memory_fts, memory_spans: id -> row
    edges,          \* table memory_edges: pairs that contradict each other
    embeds,         \* table memory_embeddings: id -> source of the text
    worker,         \* the memory worker's place in its tick
    msg,            \* each message thread's place
    pend,           \* per writer: rows committed and not yet embedded
    bulletins,      \* memory/bulletins/<message>.json
    lost,           \* history: files whose handling was cut short
    excused         \* history: ids whose embedding was cut short or raced

store == <<sources, rows, edges, excused>>
files == <<ingest, processed, rejected, lost>>
vars == <<budget, clock, files, store, embeds, worker, msg, pend, bulletins>>

Nothing == [ids |-> {}, src |-> <<>>]
Worker == "worker"
Step == "step"
Writers == Messages \cup {Worker, Step}

NoFile == [name |-> "", body |-> "", sfx |-> 0]
IdleWorker == [pc |-> "idle", todo |-> {}, file |-> NoFile]
IdleMsg == [pc |-> "idle", now |-> 0, missed |-> {}]

Init ==
    /\ budget \in Scenarios
    /\ clock = 1
    /\ ingest = <<>> /\ processed = {} /\ rejected = {} /\ lost = {}
    /\ sources = {} /\ rows = <<>> /\ edges = {} /\ embeds = <<>> /\ excused = {}
    /\ worker = IdleWorker
    /\ msg = [m \in Messages |-> IdleMsg]
    /\ pend = [w \in Writers |-> Nothing]
    /\ bulletins = <<>>

Spend(kind) == budget[kind] > 0 /\ budget' = [budget EXCEPT ![kind] = @ - 1]

(* The table, or directory, g with the entries of f written over it.        *)
Over(f, g) == [x \in DOMAIN f \cup DOMAIN g |-> IF x \in DOMAIN f THEN f[x] ELSE g[x]]

-----------------------------------------------------------------------------
(* The store.                                                               *)

(* The node's id comes from the processed path and the bytes for a text     *)
(* file, and from the file itself for JSON.                                 *)
extract_candidates_from_ingest_file(f) ==
    IF Bodies[f.body].kind = "text"
    THEN {[id |-> <<"ingest", f.name, f.sfx, f.body>>, status |-> "active"]}
    ELSE Bodies[f.body].nodes

(* The text of an ingest file is readable when it parses and its name in    *)
(* processed/ still ends in .txt, .md or .json: the suffix that avoids a    *)
(* collision is put behind the extension.                                   *)
Extracts(f) == f.sfx = 0 /\ Bodies[f.body].kind \in {"text", "json"}

compute_ingest_idempotency_key(f) == <<"file", f.name, f.body>>

Ids(nodes) == {n.id : n \in nodes}

EdgesResolve(es, nodes) == \A e \in es : {e[1], e[2]} \subseteq DOMAIN rows \cup Ids(nodes)

(* One transaction: the source row first, then every memory, its text index *)
(* and its edges; an existing memory of the same id is overwritten, status  *)
(* included.                                                                *)
upsert_nodes_and_edges(key, nodes, es, path) ==
    /\ sources' = sources \cup {key}
    /\ rows' = Over([id \in Ids(nodes) |->
                        [src |-> key, path |-> path,
                         status |-> (CHOOSE n \in nodes : n.id = id).status]], rows)
    /\ edges' = edges \cup es

(* Mutant of Persist: the source row is replaced instead of kept.           *)
PersistAgain(w, key, nodes, es, path) ==
    /\ upsert_nodes_and_edges(key, nodes, es, path)
    /\ pend' = [pend EXCEPT ![w] = [ids |-> Ids(nodes), src |-> key]]
    /\ excused' = excused \cup
           (Ids(nodes) \cap UNION {pend[v].ids : v \in Writers \ {w}})

(* A source is applied once; the rows it wrote are embedded afterwards.     *)
Persist(w, key, nodes, es, path) ==
    IF key \in sources
    THEN UNCHANGED <<store, pend>>
    ELSE /\ upsert_nodes_and_edges(key, nodes, es, path)
         /\ pend' = [pend EXCEPT ![w] = [ids |-> Ids(nodes), src |-> key]]
         /\ excused' = excused \cup
                (Ids(nodes) \cap UNION {pend[v].ids : v \in Writers \ {w}})

(* Mutant of upsert_embeddings_for_nodes_best_effort: an embedding that     *)
(* exists is kept.                                                          *)
KeepEmbeddings(w, written) ==
    LET ids == IF written THEN pend[w].ids ELSE {}
    IN  /\ embeds' = Over(embeds, [id \in ids |-> pend[w].src])
        /\ excused' = excused \cup (pend[w].ids \ ids)
        /\ pend' = [pend EXCEPT ![w] = Nothing]

(* Best effort: an embedding that cannot be written is skipped.             *)
upsert_embeddings_for_nodes_best_effort(w, written) ==
    LET ids == IF written THEN pend[w].ids ELSE {}
        cur == {id \in ids : /\ rows[id].src = pend[w].src
                             /\ \A v \in Writers \ {w} : id \notin pend[v].ids}
    IN  /\ embeds' = Over([id \in ids |-> pend[w].src], embeds)
        /\ excused' = (excused \ cur) \cup (pend[w].ids \ ids)
        /\ pend' = [pend EXCEPT ![w] = Nothing]

-----------------------------------------------------------------------------
(* Ingest.                                                                  *)

(* A user writes a file into the drop zone, over one of the same name.      *)
DropFile ==
    /\ budget.drops # <<>>
    /\ LET f == Head(budget.drops) IN ingest' = Over([n \in {f[1]} |-> f[2]], ingest)
    /\ budget' = [budget EXCEPT !.drops = Tail(@)]
    /\ UNCHANGED <<clock, processed, rejected, lost, store, embeds, worker, msg, pend, bulletins>>

Without(f, x) == [y \in DOMAIN f \ {x} |-> f[y]]

(* Mutant of move_with_collision: the suffix is always added.               *)
AlwaysSuffix(name) ==
    Min({n \in 1 .. Cardinality(processed) + 1 :
            \A p \in processed : p.name = name => p.sfx # n})

(* The first free name in processed/: the file name, or it with a suffix.   *)
move_with_collision(name) ==
    Min({n \in 0 .. Cardinality(processed) :
            \A p \in processed : p.name = name => p.sfx # n})

(* A tick lists the drop zone, and takes the files in order.                *)
TickBegin ==
    /\ worker.pc = "idle" /\ DOMAIN ingest # {}
    /\ worker' = [IdleWorker EXCEPT !.pc = "next", !.todo = DOMAIN ingest]
    /\ UNCHANGED <<budget, clock, files, store, embeds, msg, pend, bulletins>>

TickEnd ==
    /\ worker.pc = "next" /\ worker.todo = {}
    /\ worker' = IdleWorker
    /\ UNCHANGED <<budget, clock, files, store, embeds, msg, pend, bulletins>>

ReadFile ==
    /\ worker.pc = "next" /\ worker.todo # {}
    /\ LET name == SelectSeq(FileNames, LAMBDA n : n \in worker.todo)[1] IN
         worker' = [pc |-> "read", todo |-> worker.todo \ {name},
                    file |-> [name |-> name, body |-> ingest[name], sfx |-> 0]]
    /\ UNCHANGED <<budget, clock, files, store, embeds, msg, pend, bulletins>>

NextFile(w) == [w EXCEPT !.pc = "next", !.file = NoFile]

(* Too large, or of a type that is not supported.                           *)
RejectFile ==
    /\ worker.pc = "read" /\ Bodies[worker.file.body].kind = "refused"
    /\ rejected' = rejected \cup
         {[name |-> worker.file.name, read |-> worker.file.body, why |-> "refused"]}
    /\ ingest' = Without(ingest, worker.file.name)
    /\ worker' = NextFile(worker)
    /\ UNCHANGED <<budget, clock, processed, lost, store, embeds, msg, pend, bulletins>>

(* The file that is moved may no longer be the one that was read.           *)
InProcessed(name) == [name |-> name, sfx |-> move_with_collision(name), body |-> ingest[name]]

SkipDuplicate ==
    /\ worker.pc = "read" /\ Bodies[worker.file.body].kind # "refused"
    /\ compute_ingest_idempotency_key(worker.file) \in sources
    /\ LET p == InProcessed(worker.file.name) IN
         /\ processed' = processed \cup {p}
         /\ lost' = IF p.body = worker.file.body THEN lost ELSE lost \cup {p}
    /\ ingest' = Without(ingest, worker.file.name)
    /\ worker' = NextFile(worker)
    /\ UNCHANGED <<budget, clock, rejected, store, embeds, msg, pend, bulletins>>

MoveToProcessed ==
    /\ worker.pc = "read" /\ Bodies[worker.file.body].kind # "refused"
    /\ compute_ingest_idempotency_key(worker.file) \notin sources
    /\ LET p == InProcessed(worker.file.name) IN
         /\ processed' = processed \cup {p}
         /\ lost' = IF p.body = worker.file.body THEN lost ELSE lost \cup {p}
         /\ worker' = [worker EXCEPT !.pc = "moved", !.file.sfx = p.sfx]
    /\ ingest' = Without(ingest, worker.file.name)
    /\ UNCHANGED <<budget, clock, rejected, store, embeds, msg, pend, bulletins>>

InHand == {p \in processed : p.name = worker.file.name /\ p.sfx = worker.file.sfx}

(* Mutant of Reject: a file that cannot be stored stays where it is.        *)
RejectInPlace(why) ==
    /\ worker' = NextFile(worker)
    /\ UNCHANGED <<clock, files, store, embeds, msg, pend, bulletins>>

Reject(why) ==
    /\ rejected' = rejected \cup
         {[name |-> worker.file.name, read |-> worker.file.body, why |-> why]}
    /\ processed' = processed \ InHand
    /\ lost' = lost \ InHand
    /\ worker' = NextFile(worker)
    /\ UNCHANGED <<clock, ingest, store, embeds, msg, pend, bulletins>>

ExtractionFails ==
    /\ worker.pc = "moved" /\ ~Extracts(worker.file)
    /\ Reject("extraction")
    /\ UNCHANGED budget

PersistFile ==
    /\ worker.pc = "moved" /\ Extracts(worker.file)
    /\ LET nodes == extract_candidates_from_ingest_file(worker.file)
           es == Bodies[worker.file.body].edges
       IN  /\ EdgesResolve(es, nodes)
           /\ Persist(Worker, compute_ingest_idempotency_key(worker.file), nodes, es, "inside")
    /\ worker' = [worker EXCEPT !.pc = "written"]
    /\ UNCHANGED <<budget, clock, files, embeds, msg, bulletins>>

(* The store refuses the write: an edge names a memory it does not hold, or *)
(* SQLite fails.                                                            *)
PersistFileFails ==
    /\ worker.pc = "moved" /\ Extracts(worker.file)
    /\ IF EdgesResolve(Bodies[worker.file.body].edges,
                       extract_candidates_from_ingest_file(worker.file))
       THEN Spend("faults")
       ELSE UNCHANGED budget
    /\ Reject("repository_error")

EmbedFile ==
    /\ worker.pc = "written"
    /\ \/ UNCHANGED budget /\ upsert_embeddings_for_nodes_best_effort(Worker, TRUE)
       \/ Spend("faults") /\ upsert_embeddings_for_nodes_best_effort(Worker, FALSE)
    /\ worker' = NextFile(worker)
    /\ UNCHANGED <<clock, files, sources, rows, edges, msg, bulletins>>

(* A tick ends at the first error: the lookup of the key, the move, or what *)
(* comes between the move and the transaction.                              *)
TickError ==
    /\ worker.pc \in {"read", "moved"}
    /\ Spend("faults")
    /\ lost' = IF worker.pc = "moved" THEN lost \cup InHand ELSE lost
    /\ worker' = IdleWorker
    /\ UNCHANGED <<clock, ingest, processed, rejected, store, embeds, msg, pend, bulletins>>

-----------------------------------------------------------------------------
(* Write-back of workflow steps and of messages.                            *)

(* The next attempt of a step, or the last one again after a restart; every *)
(* attempt writes the same memory.                                          *)
LastAttempt == Max({0} \cup {k[2] : k \in {x \in sources : x[1] = "run"}})

persist_workflow_output_memories ==
    /\ pend[Step] = Nothing
    /\ Spend("attempts")
    /\ \E attempt \in {LastAttempt, LastAttempt + 1} \ {0} :
         Persist(Step, <<"run", attempt>>,
                 {[id |-> <<"w", "step">>, status |-> "active"]}, {}, "inside")
    /\ UNCHANGED <<clock, files, embeds, worker, msg, bulletins>>

EmbedStep ==
    /\ pend[Step] # Nothing
    /\ \/ UNCHANGED budget /\ upsert_embeddings_for_nodes_best_effort(Step, TRUE)
       \/ Spend("faults") /\ upsert_embeddings_for_nodes_best_effort(Step, FALSE)
    /\ UNCHANGED <<clock, files, sources, rows, edges, worker, msg, bulletins>>

MsgAt(m, pc) == msg' = [msg EXCEPT ![m].pc = pc]

(* A message is handled, again if the queue delivers it again.              *)
ProcessMessage(m) ==
    /\ msg[m].pc = "idle"
    /\ budget.runs # <<>> /\ Head(budget.runs) = m
    /\ budget' = [budget EXCEPT !.runs = Tail(@)]
    /\ msg' = [msg EXCEPT ![m] = [pc |-> "observe", now |-> clock, missed |-> {}]]
    /\ UNCHANGED <<clock, files, store, embeds, worker, pend, bulletins>>

persist_transcript_observation(m) ==
    /\ msg[m].pc = "observe"
    /\ \/ /\ Persist(m, <<"msg", m>>, {[id |-> <<"t", m>>, status |-> "active"]}, {}, "none")
          /\ UNCHANGED budget
       \/ Spend("faults") /\ UNCHANGED <<store, pend>>     \* logged
    /\ MsgAt(m, "embed")
    /\ UNCHANGED <<clock, files, embeds, worker, bulletins>>

EmbedTranscript(m) ==
    /\ msg[m].pc = "embed"
    /\ \/ UNCHANGED budget /\ upsert_embeddings_for_nodes_best_effort(m, TRUE)
       \/ /\ pend[m] # Nothing
          /\ Spend("faults")
          /\ upsert_embeddings_for_nodes_best_effort(m, FALSE)
    /\ MsgAt(m, "recall")
    /\ UNCHANGED <<clock, files, sources, rows, edges, worker, bulletins>>

-----------------------------------------------------------------------------
(* Recall and the bulletin.                                                 *)

Live == {id \in DOMAIN rows : rows[id].status # "retracted"}

(* What the words of the message match, and what has an embedding to        *)
(* compare; retracted memories are in neither.                              *)
query_full_text == SUBSET Live
query_vector == Live \cap DOMAIN embeds

(* The best TopN of both, in the order their scores put them: fewer only if *)
(* no more were found.                                                      *)
fuse_rankings(text) ==
    LET found == text \cup query_vector
    IN  {recall \in SeqOf(found, TopN) :
            IsInjective(recall) /\ (Len(recall) = TopN \/ Range(recall) = found)}

load_unresolved_contradiction_ids ==
    UNION {{e[1], e[2]} : e \in
        {x \in edges : rows[x[1]].status = "active" /\ rows[x[2]].status = "active"}}

PathsAllowed(recall) == \A id \in Range(recall) : rows[id].path # "outside"

NodeSection(id) ==
    CASE id[1] = "w" -> Decisions [] id[1] = "j" -> Goals [] OTHER -> Knowledge

(* History: the successful bulletins on disk when a message was shown an    *)
(* empty one, which of them were newer than it, and why it was shown it.    *)
Successful(b, why) ==
    {[of |-> k, newer |-> bulletins[k].gen > b.gen, why |-> why] :
        k \in {j \in DOMAIN bulletins : bulletins[j].kind \in {"fresh", "copy"}}}

(* The message goes on with bulletin b.                                     *)
Shown(m, b, why) ==
    msg' = [msg EXCEPT ![m].pc = "idle",
                       ![m].missed = IF b.kind = "empty" THEN Successful(b, why) ELSE {}]

EmptyBulletin(now) ==
    [kind |-> "empty", gen |-> now, mtime |-> 0, recalled |-> <<>>, sections |-> EmptySections]

(* The store cannot be opened: the message is handled with an empty         *)
(* bulletin, and the bulletins on disk are not looked at.                   *)
RepositoryUnavailable(m) ==
    /\ msg[m].pc = "observe"
    /\ Spend("faults")
    /\ Shown(m, EmptyBulletin(msg[m].now), "unavailable")
    /\ UNCHANGED <<clock, files, store, embeds, worker, pend, bulletins>>

Save(m, b) ==
    /\ bulletins' = Over([k \in {m} |-> [b EXCEPT !.mtime = clock]], bulletins)
    /\ Shown(m, b, "fallback")

Recall(m) ==
    /\ msg[m].pc = "recall"
    /\ \E text \in query_full_text : \E recall \in fuse_rankings(text) :
         /\ PathsAllowed(recall)
         /\ Save(m, [kind |-> "fresh", gen |-> msg[m].now, mtime |-> 0, recalled |-> recall,
                     sections |-> build_memory_bulletin(
                         recall, [id \in Range(recall) |-> NodeSection(id)],
                         load_unresolved_contradiction_ids, budget.limit)])
    /\ UNCHANGED <<budget, clock, files, store, embeds, worker, pend>>

(* Files that parse, of other messages; the newest by the time written in   *)
(* it, then by the file's time.                                             *)
Snapshots(m) == {k \in DOMAIN bulletins \ {m} : bulletins[k].kind # "torn"}

Newer(a, b) == a.gen > b.gen \/ (a.gen = b.gen /\ a.mtime > b.mtime)

(* Mutant of load_latest_bulletin: any snapshot is taken.                   *)
AnyBulletin(m) == Snapshots(m)

load_latest_bulletin(m) ==
    {k \in Snapshots(m) : \A j \in Snapshots(m) : ~Newer(bulletins[j], bulletins[k])}

Torn == [EmptyBulletin(0) EXCEPT !.kind = "torn"]

(* Whether the recall succeeded or not, a log line, the reading of the      *)
(* bulletins or the writing of the message's own may fail, the last with    *)
(* half of the file written: the message is shown an empty bulletin.        *)
BulletinFails(m) ==
    /\ msg[m].pc = "recall"
    /\ Spend("faults")
    /\ \E torn \in SUBSET {m} : bulletins' = Over([k \in torn |-> Torn], bulletins)
    /\ Shown(m, EmptyBulletin(msg[m].now), "io")
    /\ UNCHANGED <<clock, files, store, embeds, worker, pend>>

(* Recall fails: a source path outside the workspace among the memories     *)
(* chosen, or SQLite.                                                       *)
RecallFails(m) ==
    /\ msg[m].pc = "recall"
    /\ \/ /\ \E text \in query_full_text : \E recall \in fuse_rankings(text) :
                 ~PathsAllowed(recall)
          /\ UNCHANGED budget
       \/ Spend("faults")
    /\ IF Snapshots(m) = {}
       THEN Save(m, EmptyBulletin(msg[m].now))
       ELSE \E k \in load_latest_bulletin(m) :
              Save(m, [bulletins[k] EXCEPT !.kind = IF @ = "empty" THEN @ ELSE "copy"])
    /\ UNCHANGED <<clock, files, store, embeds, worker, pend>>

-----------------------------------------------------------------------------
(* The environment.                                                         *)

Tick ==
    /\ Spend("ticks")
    /\ clock' = clock + 1
    /\ UNCHANGED <<files, store, embeds, worker, msg, pend, bulletins>>

(* The workspace is moved with its store: the paths in the rows are those   *)
(* of the old place.                                                        *)
RelocateWorkspace ==
    /\ Spend("moves")
    /\ rows' = [id \in DOMAIN rows |->
                   [rows[id] EXCEPT !.path = IF @ = "inside" THEN "outside" ELSE @]]
    /\ UNCHANGED <<clock, files, sources, edges, excused, embeds, worker, msg, pend, bulletins>>

(* The daemon dies; the memory of every thread is gone, a bulletin that was *)
(* being written may be half a file.                                        *)
Crash ==
    /\ Spend("crashes")
    /\ lost' = IF worker.pc = "moved" THEN lost \cup InHand ELSE lost
    /\ worker' = IdleWorker
    /\ excused' = excused \cup UNION {pend[w].ids : w \in Writers}
    /\ pend' = [w \in Writers |-> Nothing]
    /\ msg' = [m \in Messages |-> [msg[m] EXCEPT !.pc = "idle"]]
    /\ \E torn \in SUBSET {m \in Messages : msg[m].pc = "recall"} :
         bulletins' = Over([m \in torn |-> Torn], bulletins)
    /\ UNCHANGED <<clock, ingest, processed, rejected, sources, rows, edges, embeds>>

Next ==
    \/ DropFile \/ Tick \/ RelocateWorkspace \/ Crash
    \/ TickBegin \/ TickEnd \/ TickError \/ ReadFile
    \/ RejectFile \/ SkipDuplicate \/ MoveToProcessed \/ ExtractionFails
    \/ PersistFile \/ PersistFileFails \/ EmbedFile
    \/ persist_workflow_output_memories \/ EmbedStep
    \/ \E m \in Messages :
         \/ ProcessMessage(m) \/ RepositoryUnavailable(m)
         \/ persist_transcript_observation(m) \/ EmbedTranscript(m)
         \/ Recall(m) \/ RecallFails(m) \/ BulletinFails(m)

Spec == Init /\ [][Next]_vars

-----------------------------------------------------------------------------
(* Types; the file in the worker's hand exists, and every edge and          *)
(* embedding belongs to a memory.                                           *)
TypeOK ==
    /\ clock \in Nat
    /\ \A name \in DOMAIN ingest : ingest[name] \in DOMAIN Bodies
    /\ worker.pc \in {"idle", "next", "read", "moved", "written"}
    /\ worker.todo \subseteq DOMAIN ingest
    /\ worker.pc = "read" => worker.file.name \in DOMAIN ingest
    /\ worker.pc \in {"moved", "written"} => Cardinality(InHand) = 1
    /\ \A m \in Messages : msg[m].pc \in {"idle", "observe", "embed", "recall"}
    /\ \A id \in DOMAIN rows : rows[id].src \in sources
    /\ \A e \in edges : {e[1], e[2]} \subseteq DOMAIN rows
    /\ DOMAIN embeds \subseteq DOMAIN rows

(* A file in processed/ is in the store, or is still in the worker's hand,  *)
(* or was cut off by a crash or an error between the move and the           *)
(* transaction, or was replaced by its owner after it was read.             *)
FileAccounted ==
    \A p \in processed :
        \/ compute_ingest_idempotency_key(p) \in sources
        \/ worker.pc = "moved" /\ p \in InHand
        \/ p \in lost

(* A readable file is rejected only because the store refused it, or        *)
(* because a file of its name is already in processed/: the name it is      *)
(* given there has no extension the extractor knows.                        *)
RejectionHasCause ==
    \A r \in rejected :
        Bodies[r.read].kind \in {"text", "json"} =>
            \/ r.why = "repository_error"
            \/ r.why = "extraction" /\ \E p \in processed : p.name = r.name

(* A memory changes only in the transaction of a source the store had not   *)
(* seen: what is delivered, dropped or run again changes nothing, so a      *)
(* retracted memory is not brought back by a retry.                         *)
ReplayChangesNothing ==
    [][\A id \in DOMAIN rows :
          \/ rows'[id].src = rows[id].src /\ rows'[id].status = rows[id].status
          \/ rows'[id].src \in sources' \ sources]_vars

(* An embedding belongs to the text its memory has now, unless the writer   *)
(* still has to write it, was stopped before it, or two writers of the      *)
(* same memory were at work at once.                                        *)
EmbeddingCurrent ==
    \A id \in DOMAIN rows :
        \/ id \in DOMAIN embeds /\ embeds[id] = rows[id].src
        \/ \E w \in Writers : id \in pend[w].ids
        \/ id \in excused

(* A message is shown an empty bulletin although a newer, successful one of *)
(* another message is on disk only if the store could not be opened, or a   *)
(* bulletin or the log could not be read or written: a failing recall alone *)
(* falls back to nothing older than the newest success.                     *)
EmptyBulletinHasCause ==
    \A m \in Messages : \A g \in msg[m].missed :
        g.why \in {"unavailable", "io"} \/ g.of = m \/ ~g.newer

TrimRank(id) == CHOOSE i \in 1 .. Len(trim_order) : trim_order[i] = NodeSection(id)

(* A bulletin is within its limit, and a recalled goal, todo or decision is *)
(* left out only when everything it still cites is at least as important.   *)
BulletinKeepsPriorities ==
    \A m \in DOMAIN bulletins :
        LET b == bulletins[m]
            cited == citations_for_sections(b.sections)
        IN  b.kind = "fresh" =>
                /\ Fits(b.sections, budget.limit)
                /\ \A id \in Range(b.recalled) \ cited :
                      NodeSection(id) \in {Goals, Todos, Decisions} =>
                          \A c \in cited : TrimRank(c) >= TrimRank(id)
=============================================================================
