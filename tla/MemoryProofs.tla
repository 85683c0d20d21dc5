---------------------------- MODULE MemoryProofs ----------------------------
(* Safety of Memory for every set of files, messages and scenarios: what    *)
(* becomes of dropped files, which embedding a memory has, what a replay    *)
(* changes, which bulletin a message is shown when recall fails, and what a *)
(* bulletin leaves out.                                                     *)
EXTENDS Memory, FiniteSetTheorems, SequenceTheorems, WellFoundedInduction, TLAPS

LEMMA MinFact ==
    ASSUME NEW N \in Nat, NEW S \in SUBSET (0..N), S # {}
    PROVE  Min(S) \in S /\ \A n \in S : Min(S) <= n
<1> DEFINE R == {ss \in Nat \X Nat : ss[1] < ss[2]}
<1>1. S \subseteq Nat
  OBVIOUS
<1>2. IsWellFoundedOn(R, Nat)
  BY NatLessThanWellFounded DEF OpToRel
<1> HIDE DEF R
<1>3. PICK u \in S : \A n \in S : ~(<<n, u>> \in R)
  BY <1>1, <1>2, WFMin
<1>4. \A n \in S : u <= n
  <2>1. \A n \in S : n < u => <<n, u>> \in R
    BY <1>1 DEF R
  <2>2. SUFFICES ASSUME NEW n \in S PROVE u <= n
    OBVIOUS
  <2>3. ~(n < u) /\ n \in Nat /\ u \in Nat
    BY <1>1, <1>3, <2>1
  <2>4. QED
    BY <2>3
<1>5. QED
  BY <1>3, <1>4 DEF Min

LEMMA OverFact ==
    ASSUME NEW f, NEW g
    PROVE  /\ DOMAIN Over(f, g) = DOMAIN f \cup DOMAIN g
           /\ \A x \in DOMAIN f : Over(f, g)[x] = f[x]
           /\ \A x \in DOMAIN g : x \notin DOMAIN f => Over(f, g)[x] = g[x]
BY DEF Over

\* Among one more numbers than there are files, one is free: the name a file is
\* moved to is not taken, and it has no suffix exactly if the plain name was free.
LEMMA FreeName ==
    ASSUME IsFiniteSet(processed), NEW name
    PROVE  /\ \A p \in processed : p.name = name => p.sfx # move_with_collision(name)
           /\ move_with_collision(name) # 0 => \E p \in processed : p.name = name /\ p.sfx = 0
<1> DEFINE C == Cardinality(processed)
           free == {n \in 0..C : \A p \in processed : p.name = name => p.sfx # n}
           used == {p.sfx : p \in processed}
<1>1. C \in Nat
  BY FS_CardinalityType
<1>2. IsFiniteSet(used) /\ Cardinality(used) <= C
  <2> DEFINE f == [p \in processed |-> p.sfx]
  <2>1. f \in Surjection(processed, used)
    BY DEF Surjection
  <2> HIDE DEF f, used
  <2>2. QED
    BY <2>1, FS_Surjection
<1>3. free # {}
  <2>1. SUFFICES ASSUME free = {} PROVE FALSE
    OBVIOUS
  <2>2. 0..C \subseteq used
    BY <2>1
  <2>3. IsFiniteSet(0..C) /\ Cardinality(0..C) = C + 1
    BY <1>1, FS_Interval
  <2> HIDE DEF C, used
  <2>4. Cardinality(0..C) <= Cardinality(used)
    BY <1>2, <2>2, FS_Subset
  <2>5. Cardinality(used) \in Nat
    BY <1>2, FS_CardinalityType
  <2>6. QED
    BY <1>1, <1>2, <2>3, <2>4, <2>5
<1>4. Min(free) \in free /\ \A n \in free : Min(free) <= n
  <2>1. free \in SUBSET (0..C)
    OBVIOUS
  <2> HIDE DEF free, C
  <2>2. QED
    BY <1>1, <1>3, <2>1, MinFact
<1>5. move_with_collision(name) = Min(free)
  BY DEF move_with_collision
<1>6. ASSUME Min(free) # 0 PROVE 0 \notin free
  <2>1. Min(free) \in Nat
    BY <1>4
  <2> HIDE DEF free
  <2>2. QED
    BY <1>4, <1>6, <2>1
<1>7. ASSUME move_with_collision(name) # 0
      PROVE  \E p \in processed : p.name = name /\ p.sfx = 0
  <2>1. 0 \notin free
    BY <1>5, <1>6, <1>7
  <2>2. 0 \in 0..C
    BY <1>1
  <2>3. QED
    BY <2>1, <2>2
<1>8. \A p \in processed : p.name = name => p.sfx # move_with_collision(name)
  BY <1>4, <1>5
<1>9. QED
  BY <1>7, <1>8

-----------------------------------------------------------------------------
(* The worker and the files.                                                *)

\* The worker is a record of a place, a listing and a file.
WorkerShape ==
    /\ worker = [pc |-> worker.pc, todo |-> worker.todo, file |-> worker.file]
    /\ worker.file = [name |-> worker.file.name, body |-> worker.file.body, sfx |-> worker.file.sfx]

Stored(p) == compute_ingest_idempotency_key(p) \in sources

\* What the worker has in hand is the file it read, or is accounted for already.
InHandIsRead ==
    worker.pc = "moved" => \A p \in InHand : p.body = worker.file.body \/ Stored(p) \/ p \in lost

Readable(r) == Bodies[r.read].kind \in {"text", "json"}

\* A readable file the extractor refused has a file under its plain name.
Explained(r) == r.why = "extraction" /\ \E q \in processed : q.name = r.name /\ q.sfx = 0

RejectedExplained ==
    \A r \in rejected : Readable(r) /\ r.why # "repository_error" => Explained(r)

\* A file moved under its plain name explains no rejection, and one that was given
\* a suffix is not the file that has the plain name.
InHandName ==
    worker.pc = "moved" =>
        IF worker.file.sfx = 0
        THEN ~\E r \in rejected : Readable(r) /\ r.why # "repository_error" /\ r.name = worker.file.name
        ELSE \E q \in processed : q.name = worker.file.name /\ q.sfx = 0

FilesInv ==
    /\ WorkerShape /\ IsFiniteSet(processed)
    /\ FileAccounted /\ InHandIsRead /\ RejectedExplained /\ InHandName

\* Steps that leave the files alone, forget no source and keep what is in hand.
LEMMA FilesRest ==
    ASSUME FilesInv, UNCHANGED <<processed, rejected, lost>>, sources \subseteq sources',
           \/ UNCHANGED worker
           \/ WorkerShape' /\ worker.pc # "moved" /\ worker'.pc # "moved"
    PROVE  FilesInv'
<1>1. \A p : Stored(p) => Stored(p)'
  BY DEF Stored, compute_ingest_idempotency_key
<1>2. WorkerShape'
  BY DEF FilesInv, WorkerShape
<1>3. (worker.pc = "moved") = (worker'.pc = "moved") /\ (worker.pc = "moved" => UNCHANGED worker)
  OBVIOUS
<1>4. worker.pc = "moved" => InHand' = InHand
  BY <1>3 DEF InHand
<1>5. FileAccounted'
  BY <1>1, <1>3, <1>4 DEF FilesInv, FileAccounted, Stored
<1>6. InHandIsRead'
  BY <1>1, <1>3, <1>4 DEF FilesInv, InHandIsRead
<1>7. RejectedExplained'
  BY DEF FilesInv, RejectedExplained, Readable, Explained
<1>8. InHandName'
  <2>1. CASE worker'.pc # "moved"
    BY <2>1 DEF InHandName
  <2>2. CASE UNCHANGED worker
    BY <2>2 DEF FilesInv, InHandName, Readable
  <2>3. QED
    BY <1>3, <2>1, <2>2
<1>9. IsFiniteSet(processed')
  BY DEF FilesInv
<1>10. QED
  BY <1>2, <1>5, <1>6, <1>7, <1>8, <1>9 DEF FilesInv

LEMMA NextFileFact ==
    ASSUME WorkerShape, worker' = NextFile(worker)
    PROVE  WorkerShape' /\ worker'.pc = "next"
<1>1. worker' = [pc |-> "next", todo |-> worker.todo, file |-> NoFile]
  BY DEF NextFile, WorkerShape
<1>2. worker'.pc = "next" /\ worker'.todo = worker.todo /\ worker'.file = NoFile
  BY <1>1
<1>3. QED
  BY <1>1, <1>2 DEF WorkerShape, NoFile

LEMMA IdleFact ==
    ASSUME worker' = IdleWorker
    PROVE  WorkerShape' /\ worker'.pc = "idle"
BY DEF IdleWorker, WorkerShape, NoFile

LEMMA FilesDuplicate == ASSUME FilesInv, SkipDuplicate PROVE FilesInv'
<1> DEFINE p == InProcessed(worker.file.name)
<1>0. WorkerShape /\ IsFiniteSet(processed) /\ FileAccounted /\ RejectedExplained
  BY DEF FilesInv
<1>1. /\ worker.pc = "read" /\ Stored(worker.file) /\ processed' = processed \cup {p}
      /\ lost' = IF p.body = worker.file.body THEN lost ELSE lost \cup {p}
      /\ worker' = NextFile(worker) /\ UNCHANGED <<rejected, sources>>
  BY DEF SkipDuplicate, Stored, store
<1>2. p.name = worker.file.name
  BY DEF InProcessed
<1> HIDE DEF p
<1>3. WorkerShape' /\ worker'.pc = "next"
  BY <1>0, <1>1, NextFileFact
<1>4. IsFiniteSet(processed')
  BY <1>0, <1>1, FS_AddElement
<1>5. FileAccounted'
  <2>1. SUFFICES ASSUME NEW q \in processed' PROVE Stored(q) \/ q \in lost'
    BY <1>1 DEF FileAccounted, Stored, compute_ingest_idempotency_key
  <2>2. CASE q = p
    BY <1>1, <1>2, <2>2 DEF Stored, compute_ingest_idempotency_key
  <2>3. CASE q \in processed
    BY <1>0, <1>1, <2>3 DEF FileAccounted, Stored
  <2>4. QED
    BY <1>1, <2>2, <2>3
<1>6. InHandIsRead' /\ InHandName'
  BY <1>3 DEF InHandIsRead, InHandName
<1>7. RejectedExplained'
  BY <1>0, <1>1 DEF RejectedExplained, Readable, Explained
<1>8. QED
  BY <1>3, <1>4, <1>5, <1>6, <1>7 DEF FilesInv

LEMMA FilesMove == ASSUME FilesInv, MoveToProcessed PROVE FilesInv'
<1> DEFINE p == InProcessed(worker.file.name)
<1>0. WorkerShape /\ IsFiniteSet(processed) /\ FileAccounted /\ RejectedExplained
  BY DEF FilesInv
<1>1. /\ worker.pc = "read" /\ processed' = processed \cup {p}
      /\ lost' = IF p.body = worker.file.body THEN lost ELSE lost \cup {p}
      /\ worker' = [worker EXCEPT !.pc = "moved", !.file.sfx = p.sfx] /\ UNCHANGED <<rejected, sources>>
  BY DEF MoveToProcessed, store
<1>2. p.name = worker.file.name /\ p.sfx = move_with_collision(worker.file.name)
  BY DEF InProcessed
<1> HIDE DEF p
<1>3. worker' = [pc |-> "moved", todo |-> worker.todo,
                 file |-> [name |-> worker.file.name, body |-> worker.file.body, sfx |-> p.sfx]]
  <2>1. PICK a, b, n, c, d : worker = [pc |-> a, todo |-> b, file |-> [name |-> n, body |-> c, sfx |-> d]]
    BY <1>0 DEF WorkerShape
  <2>2. QED
    BY <1>1, <2>1
<1>4. /\ WorkerShape' /\ worker'.pc = "moved" /\ worker'.file.name = worker.file.name
      /\ worker'.file.body = worker.file.body /\ worker'.file.sfx = p.sfx
  BY <1>3 DEF WorkerShape
<1>5. IsFiniteSet(processed')
  BY <1>0, <1>1, FS_AddElement
<1>6. FileAccounted'
  <2>1. SUFFICES ASSUME NEW q \in processed'
                 PROVE  Stored(q) \/ q \in lost' \/ (q.name = worker'.file.name /\ q.sfx = worker'.file.sfx)
    BY <1>1, <1>4 DEF FileAccounted, Stored, compute_ingest_idempotency_key, InHand
  <2>2. CASE q = p
    BY <1>2, <1>4, <2>2
  <2>3. CASE q \in processed
    BY <1>0, <1>1, <2>3 DEF FileAccounted, Stored
  <2>4. QED
    BY <1>1, <2>2, <2>3
<1>7. InHandIsRead'
  <2>1. SUFFICES ASSUME NEW q \in processed', q.name = worker'.file.name, q.sfx = worker'.file.sfx
                 PROVE  q.body = worker'.file.body \/ Stored(q) \/ q \in lost'
    BY <1>1 DEF InHandIsRead, InHand, Stored, compute_ingest_idempotency_key
  <2>2. CASE q = p
    BY <1>1, <1>4, <2>2
  <2>3. CASE q \in processed
    BY <1>0, <1>1, <2>3 DEF FileAccounted, Stored
  <2>4. QED
    BY <1>1, <2>2, <2>3
<1>8. RejectedExplained'
  BY <1>0, <1>1 DEF RejectedExplained, Readable, Explained
<1>9. InHandName'
  <2>1. /\ \A q \in processed : q.name = worker.file.name => q.sfx # p.sfx
        /\ p.sfx # 0 => \E q \in processed : q.name = worker.file.name /\ q.sfx = 0
    BY <1>0, <1>2, FreeName
  <2>2. CASE p.sfx = 0
    <3>1. ASSUME NEW r \in rejected, Readable(r), r.why # "repository_error", r.name = worker.file.name
          PROVE  FALSE
      BY <1>0, <2>1, <2>2, <3>1 DEF RejectedExplained, Explained
    <3>2. QED
      BY <1>1, <1>4, <2>2, <3>1 DEF InHandName, Readable
  <2>3. CASE p.sfx # 0
    BY <1>1, <1>4, <2>1, <2>3 DEF InHandName
  <2>4. QED
    BY <2>2, <2>3
<1>10. QED
  BY <1>4, <1>5, <1>6, <1>7, <1>8, <1>9 DEF FilesInv

\* A file taken back from processed/ into rejected/.
LEMMA FilesReject ==
    ASSUME FilesInv, NEW why, Reject(why), worker.pc = "moved",
           why = "repository_error" \/ (why = "extraction" /\ ~Extracts(worker.file))
    PROVE  FilesInv'
<1> DEFINE x == [name |-> worker.file.name, read |-> worker.file.body, why |-> why]
<1>0. WorkerShape /\ IsFiniteSet(processed) /\ FileAccounted /\ RejectedExplained /\ InHandName
  BY DEF FilesInv
<1>1. /\ rejected' = rejected \cup {x} /\ processed' = processed \ InHand /\ lost' = lost \ InHand
      /\ worker' = NextFile(worker) /\ UNCHANGED sources
  BY DEF Reject, store
<1>2. WorkerShape' /\ worker'.pc = "next"
  BY <1>0, <1>1, NextFileFact
<1>3. IsFiniteSet(processed')
  BY <1>0, <1>1, FS_Subset
<1>4. FileAccounted'
  BY <1>0, <1>1 DEF FileAccounted, compute_ingest_idempotency_key
<1>5. InHandIsRead' /\ InHandName'
  BY <1>2 DEF InHandIsRead, InHandName
<1>6. ASSUME NEW r \in rejected', Readable(r), r.why # "repository_error"
      PROVE  r.why = "extraction" /\ \E q \in processed' : q.name = r.name /\ q.sfx = 0
  <2>1. CASE r = x
    <3>1. r.name = worker.file.name /\ r.read = worker.file.body /\ r.why = why
      BY <2>1
    <3>2. worker.file.sfx # 0 /\ why = "extraction"
      BY <1>6, <3>1 DEF Readable, Extracts
    <3>3. PICK q \in processed : q.name = worker.file.name /\ q.sfx = 0
      BY <1>0, <3>2 DEF InHandName
    <3>4. q \notin InHand
      BY <3>2, <3>3 DEF InHand
    <3>5. QED
      BY <1>1, <3>1, <3>2, <3>3, <3>4
  <2>2. CASE r \in rejected
    <3>1. Explained(r)
      BY <1>0, <1>6, <2>2 DEF RejectedExplained
    <3>2. PICK q \in processed : q.name = r.name /\ q.sfx = 0
      BY <3>1 DEF Explained
    <3>3. q \notin InHand
      <4>1. SUFFICES ASSUME q \in InHand PROVE FALSE
        OBVIOUS
      <4>2. worker.file.sfx = 0 /\ r.name = worker.file.name
        BY <3>2, <4>1 DEF InHand
      <4>3. QED
        BY <1>0, <1>6, <2>2, <4>2 DEF InHandName
    <3>4. QED
      BY <1>1, <3>1, <3>2, <3>3 DEF Explained
  <2>3. QED
    BY <1>1, <2>1, <2>2
<1>7. RejectedExplained'
  BY <1>6 DEF RejectedExplained, Explained, Readable
<1>8. QED
  BY <1>2, <1>3, <1>4, <1>5, <1>7 DEF FilesInv

LEMMA FilesRefuse == ASSUME FilesInv, RejectFile PROVE FilesInv'
<1> DEFINE x == [name |-> worker.file.name, read |-> worker.file.body, why |-> "refused"]
<1>0. WorkerShape /\ IsFiniteSet(processed) /\ FileAccounted /\ RejectedExplained
  BY DEF FilesInv
<1>1. /\ worker.pc = "read" /\ Bodies[worker.file.body].kind = "refused" /\ rejected' = rejected \cup {x}
      /\ worker' = NextFile(worker) /\ UNCHANGED <<sources, processed, lost>>
  BY DEF RejectFile, store
<1>2. WorkerShape' /\ worker'.pc = "next"
  BY <1>0, <1>1, NextFileFact
<1>3. FileAccounted'
  BY <1>0, <1>1 DEF FileAccounted, compute_ingest_idempotency_key
<1>4. InHandIsRead' /\ InHandName'
  BY <1>2 DEF InHandIsRead, InHandName
<1>5. RejectedExplained'
  <2>1. ~Readable(x)
    BY <1>1 DEF Readable
  <2> HIDE DEF x
  <2>2. QED
    BY <1>0, <1>1, <2>1 DEF RejectedExplained, Readable, Explained
<1>6. QED
  BY <1>0, <1>1, <1>2, <1>3, <1>4, <1>5 DEF FilesInv

\* The worker is cut off: what it had in hand is lost.
LEMMA FilesCut ==
    ASSUME FilesInv, worker' = IdleWorker, UNCHANGED <<processed, rejected, sources>>,
           lost' = IF worker.pc = "moved" THEN lost \cup InHand ELSE lost
    PROVE  FilesInv'
<1>1. WorkerShape' /\ worker'.pc = "idle"
  BY IdleFact
<1>2. FileAccounted'
  BY DEF FilesInv, FileAccounted, compute_ingest_idempotency_key
<1>3. InHandIsRead' /\ InHandName'
  BY <1>1 DEF InHandIsRead, InHandName
<1>4. RejectedExplained'
  BY DEF FilesInv, RejectedExplained, Readable, Explained
<1>5. QED
  BY <1>1, <1>2, <1>3, <1>4 DEF FilesInv

\* The transaction stores what is in hand.
LEMMA FilesPersist == ASSUME FilesInv, PersistFile PROVE FilesInv'
<1>0. WorkerShape /\ FileAccounted /\ InHandIsRead /\ RejectedExplained
  BY DEF FilesInv
<1>1. /\ worker.pc = "moved" /\ worker' = [worker EXCEPT !.pc = "written"]
      /\ UNCHANGED <<processed, rejected, lost>>
  BY DEF PersistFile, files
<1>2. sources \subseteq sources' /\ compute_ingest_idempotency_key(worker.file) \in sources'
  BY DEF PersistFile, Persist, upsert_nodes_and_edges, store
<1>3. WorkerShape' /\ worker'.pc = "written"
  <2>1. worker' = [pc |-> "written", todo |-> worker.todo, file |-> worker.file]
    BY <1>0, <1>1 DEF WorkerShape
  <2>2. QED
    BY <1>0, <2>1 DEF WorkerShape
<1>4. FileAccounted'
  <2>1. SUFFICES ASSUME NEW p \in processed PROVE compute_ingest_idempotency_key(p) \in sources' \/ p \in lost
    BY <1>1 DEF FileAccounted, compute_ingest_idempotency_key
  <2>2. CASE p \in InHand
    <3>1. p.name = worker.file.name
      BY <2>2 DEF InHand
    <3>2. QED
      BY <1>0, <1>1, <1>2, <2>2, <3>1 DEF InHandIsRead, Stored, compute_ingest_idempotency_key
  <2>3. CASE p \notin InHand
    BY <1>0, <1>2, <2>3 DEF FileAccounted
  <2>4. QED
    BY <2>2, <2>3
<1>5. InHandIsRead' /\ InHandName'
  BY <1>3 DEF InHandIsRead, InHandName
<1>6. RejectedExplained'
  BY <1>0, <1>1 DEF RejectedExplained, Readable, Explained
<1>7. QED
  BY <1>1, <1>3, <1>4, <1>5, <1>6 DEF FilesInv

\* What a writer's transaction does to the tables of sources.
LEMMA SourcesGrow ==
    ASSUME NEW w, NEW key, NEW nodes, NEW es, NEW path, Persist(w, key, nodes, es, path)
    PROVE  sources \subseteq sources'
BY DEF Persist, upsert_nodes_and_edges, store

LEMMA FilesMessage ==
    ASSUME FilesInv, NEW m \in Messages,
           \/ ProcessMessage(m) \/ RepositoryUnavailable(m)
           \/ persist_transcript_observation(m) \/ EmbedTranscript(m)
           \/ Recall(m) \/ RecallFails(m) \/ BulletinFails(m)
    PROVE  FilesInv'
<1>1. UNCHANGED <<processed, rejected, lost, worker>>
  BY DEF ProcessMessage, RepositoryUnavailable, persist_transcript_observation, EmbedTranscript,
         Recall, RecallFails, BulletinFails, files
<1>2. sources \subseteq sources'
  <2>1. CASE persist_transcript_observation(m)
    BY <2>1, SourcesGrow DEF persist_transcript_observation, store
  <2>2. CASE ~persist_transcript_observation(m)
    BY <2>2 DEF ProcessMessage, RepositoryUnavailable, EmbedTranscript, Recall, RecallFails,
                BulletinFails, store
  <2>3. QED
    BY <2>1, <2>2
<1>3. QED
  BY <1>1, <1>2, FilesRest

LEMMA FilesNext == ASSUME FilesInv, [Next]_vars PROVE FilesInv'
<1>1. CASE DropFile \/ Tick \/ RelocateWorkspace \/ UNCHANGED vars
  <2>1. UNCHANGED <<processed, rejected, lost, worker, sources>>
    BY <1>1 DEF DropFile, Tick, RelocateWorkspace, vars, files, store
  <2>2. QED
    BY <2>1, FilesRest
<1>2. CASE Crash
  BY <1>2, FilesCut DEF Crash
<1>3. CASE TickError
  BY <1>3, FilesCut DEF TickError, store
<1>4. CASE TickBegin
  <2>1. /\ UNCHANGED <<processed, rejected, lost, sources>> /\ worker.pc = "idle"
        /\ worker' = [pc |-> "next", todo |-> DOMAIN ingest, file |-> NoFile]
    BY <1>4 DEF TickBegin, files, store, IdleWorker
  <2>2. WorkerShape' /\ worker'.pc = "next"
    BY <2>1 DEF WorkerShape, NoFile
  <2>3. QED
    BY <2>1, <2>2, FilesRest
<1>5. CASE TickEnd
  <2>1. UNCHANGED <<processed, rejected, lost, sources>> /\ worker.pc = "next" /\ worker' = IdleWorker
    BY <1>5 DEF TickEnd, files, store
  <2>2. QED
    BY <2>1, IdleFact, FilesRest
<1>6. CASE ReadFile
  <2>1. UNCHANGED <<processed, rejected, lost, sources>> /\ worker.pc = "next"
    BY <1>6 DEF ReadFile, files, store
  <2>2. PICK name : worker' = [pc |-> "read", todo |-> worker.todo \ {name},
                               file |-> [name |-> name, body |-> ingest[name], sfx |-> 0]]
    BY <1>6 DEF ReadFile
  <2>3. WorkerShape' /\ worker'.pc = "read"
    BY <2>2 DEF WorkerShape
  <2>4. QED
    BY <2>1, <2>3, FilesRest
<1>7. CASE ExtractionFails
  BY <1>7, FilesReject DEF ExtractionFails
<1>8. CASE PersistFileFails
  BY <1>8, FilesReject DEF PersistFileFails
<1>9. CASE EmbedFile
  <2>1. /\ UNCHANGED <<processed, rejected, lost, sources>> /\ worker.pc = "written"
        /\ worker' = NextFile(worker)
    BY <1>9 DEF EmbedFile, files
  <2>2. WorkerShape' /\ worker'.pc = "next"
    BY <2>1, NextFileFact DEF FilesInv
  <2>3. QED
    BY <2>1, <2>2, FilesRest
<1>10. CASE persist_workflow_output_memories \/ EmbedStep
  <2>1. UNCHANGED <<processed, rejected, lost, worker>>
    BY <1>10 DEF persist_workflow_output_memories, EmbedStep, files
  <2>2. sources \subseteq sources'
    BY <1>10, SourcesGrow DEF persist_workflow_output_memories, EmbedStep
  <2>3. QED
    BY <2>1, <2>2, FilesRest
<1>11. QED
  BY <1>1, <1>2, <1>3, <1>4, <1>5, <1>6, <1>7, <1>8, <1>9, <1>10, FilesRefuse, FilesDuplicate,
     FilesMove, FilesPersist, FilesMessage DEF Next

LEMMA FilesInit == ASSUME Init PROVE FilesInv
<1>1. WorkerShape /\ worker.pc = "idle"
  BY DEF Init, IdleWorker, NoFile, WorkerShape
<1>2. IsFiniteSet(processed)
  BY FS_EmptySet DEF Init
<1>3. QED
  BY <1>1, <1>2 DEF Init, FilesInv, FileAccounted, InHandIsRead, RejectedExplained, InHandName

LEMMA FilesAlways == Spec => []FilesInv
<1>1. Init => FilesInv
  BY FilesInit
<1>2. FilesInv /\ [Next]_vars => FilesInv'
  BY FilesNext
<1>3. QED
  BY <1>1, <1>2, PTL DEF Spec

(* No file is dropped silently: whatever file lies in processed/ is in the  *)
(* store, in the worker's hand, or was cut off by an error or a crash       *)
(* between the move and the transaction (memory/ingest.rs).                 *)
THEOREM FilesAreAccounted == Spec => []FileAccounted
<1>1. FilesInv => FileAccounted
  BY DEF FilesInv
<1>2. QED
  BY <1>1, FilesAlways, PTL

(* A readable file lands in rejected/ only because the store refused it or  *)
(* because a file of its name is in processed/ already, whose suffix hides  *)
(* the extension from the extractor.                                        *)
THEOREM RejectionsHaveCause == Spec => []RejectionHasCause
<1>1. FilesInv => RejectionHasCause
  <2>1. SUFFICES ASSUME FilesInv, NEW r \in rejected, Readable(r), r.why # "repository_error"
                 PROVE  r.why = "extraction" /\ \E p \in processed : p.name = r.name
    BY DEF RejectionHasCause, Readable
  <2>2. QED
    BY <2>1 DEF FilesInv, RejectedExplained, Explained
<1>2. QED
  BY <1>1, FilesAlways, PTL

-----------------------------------------------------------------------------
(* The writers and the store.                                               *)

RowShape ==
    \A id \in DOMAIN rows :
        rows[id] = [src |-> rows[id].src, path |-> rows[id].path, status |-> rows[id].status]

MsgShape ==
    /\ DOMAIN msg = Messages
    /\ \A m \in Messages : msg[m] = [pc |-> msg[m].pc, now |-> msg[m].now, missed |-> msg[m].missed]

\* The worker and a message owe embeddings only between their two transactions.
Owing ==
    /\ DOMAIN pend = Writers
    /\ worker.pc # "written" => pend[Worker] = Nothing
    /\ \A m \in Messages : msg[m].pc # "embed" => pend[m] = Nothing

\* What a writer owes is in the store, with the text it wrote unless another
\* writer came between.
OwedHeld ==
    \A w \in Writers : \A id \in pend[w].ids :
        id \in DOMAIN rows /\ (rows[id].src # pend[w].src => id \in excused)

StoreInv == WorkerShape /\ RowShape /\ MsgShape /\ Owing /\ OwedHeld /\ EmbeddingCurrent

\* A transaction: the rows of a new source are written, and no others.
LEMMA PersistFact ==
    ASSUME NEW w \in Writers, NEW key, NEW nodes, NEW es, NEW path,
           Persist(w, key, nodes, es, path), RowShape, DOMAIN pend = Writers
    PROVE  \/ UNCHANGED <<sources, rows, excused, pend>>
           \/ /\ RowShape' /\ DOMAIN rows' = DOMAIN rows \cup Ids(nodes)
              /\ key \notin sources /\ sources' = sources \cup {key}
              /\ \A id \in Ids(nodes) : rows'[id].src = key
              /\ \A id \in DOMAIN rows \ Ids(nodes) : rows'[id] = rows[id]
              /\ DOMAIN pend' = Writers /\ pend'[w].ids = Ids(nodes) /\ pend'[w].src = key
              /\ \A v \in Writers \ {w} : pend'[v] = pend[v]
              /\ excused \subseteq excused'
              /\ \A v \in Writers \ {w} : \A id \in Ids(nodes) : id \in pend[v].ids => id \in excused'
<1> DEFINE new == [id \in Ids(nodes) |->
                      [src |-> key, path |-> path, status |-> (CHOOSE n \in nodes : n.id = id).status]]
<1>1. SUFFICES ASSUME ~UNCHANGED <<sources, rows, excused, pend>>
               PROVE  /\ RowShape' /\ DOMAIN rows' = DOMAIN rows \cup Ids(nodes)
                      /\ key \notin sources /\ sources' = sources \cup {key}
                      /\ \A id \in Ids(nodes) : rows'[id].src = key
                      /\ \A id \in DOMAIN rows \ Ids(nodes) : rows'[id] = rows[id]
                      /\ DOMAIN pend' = Writers /\ pend'[w].ids = Ids(nodes) /\ pend'[w].src = key
                      /\ \A v \in Writers \ {w} : pend'[v] = pend[v]
                      /\ excused \subseteq excused'
                      /\ \A v \in Writers \ {w} : \A id \in Ids(nodes) : id \in pend[v].ids => id \in excused'
  OBVIOUS
<1>2. /\ key \notin sources /\ sources' = sources \cup {key} /\ rows' = Over(new, rows)
      /\ pend' = [pend EXCEPT ![w] = [ids |-> Ids(nodes), src |-> key]]
      /\ excused' = excused \cup (Ids(nodes) \cap UNION {pend[v].ids : v \in Writers \ {w}})
  BY <1>1 DEF Persist, upsert_nodes_and_edges, store
<1>3. DOMAIN new = Ids(nodes) /\ \A id \in Ids(nodes) : new[id].src = key
  OBVIOUS
<1>4. \A id \in Ids(nodes) : new[id] = [src |-> new[id].src, path |-> new[id].path, status |-> new[id].status]
  OBVIOUS
<1> HIDE DEF new
<1>5. /\ DOMAIN rows' = DOMAIN rows \cup Ids(nodes)
      /\ \A id \in Ids(nodes) : rows'[id] = new[id]
      /\ \A id \in DOMAIN rows \ Ids(nodes) : rows'[id] = rows[id]
  <2>1. /\ DOMAIN Over(new, rows) = DOMAIN new \cup DOMAIN rows
        /\ \A id \in DOMAIN new : Over(new, rows)[id] = new[id]
        /\ \A id \in DOMAIN rows : id \notin DOMAIN new => Over(new, rows)[id] = rows[id]
    BY OverFact
  <2>2. QED
    BY <1>2, <1>3, <2>1
<1>6. RowShape'
  <2>1. SUFFICES ASSUME NEW id \in DOMAIN rows'
                 PROVE  rows'[id] = [src |-> rows'[id].src, path |-> rows'[id].path,
                                     status |-> rows'[id].status]
    BY DEF RowShape
  <2>2. CASE id \in Ids(nodes)
    BY <1>4, <1>5, <2>2
  <2>3. CASE id \in DOMAIN rows \ Ids(nodes)
    BY <1>5, <2>3 DEF RowShape
  <2>4. QED
    BY <1>5, <2>2, <2>3
<1>7. /\ DOMAIN pend' = Writers /\ pend'[w].ids = Ids(nodes) /\ pend'[w].src = key
      /\ \A v \in Writers \ {w} : pend'[v] = pend[v]
  BY <1>2
<1>8. \A id \in Ids(nodes) : rows'[id].src = key
  BY <1>3, <1>5
<1>9. /\ excused \subseteq excused'
      /\ \A v \in Writers \ {w} : \A id \in Ids(nodes) : id \in pend[v].ids => id \in excused'
  BY <1>2
<1>10. QED
  BY <1>2, <1>5, <1>6, <1>7, <1>8, <1>9

\* A writer that owes nothing may write.
LEMMA StorePersist ==
    ASSUME NEW w \in Writers, NEW key, NEW nodes, NEW es, NEW path, StoreInv,
           Persist(w, key, nodes, es, path), pend[w] = Nothing, UNCHANGED embeds
    PROVE  /\ RowShape' /\ OwedHeld' /\ EmbeddingCurrent' /\ DOMAIN pend' = Writers
           /\ \A v \in Writers \ {w} : pend'[v] = pend[v]
<1>0. RowShape /\ DOMAIN pend = Writers /\ OwedHeld /\ EmbeddingCurrent /\ pend[w].ids = {}
  BY DEF StoreInv, Owing, Nothing
<1>1. CASE UNCHANGED <<sources, rows, excused, pend>>
  BY <1>0, <1>1 DEF RowShape, OwedHeld, EmbeddingCurrent
<1>2. CASE ~UNCHANGED <<sources, rows, excused, pend>>
  <2>1. /\ RowShape' /\ DOMAIN rows' = DOMAIN rows \cup Ids(nodes)
        /\ \A id \in Ids(nodes) : rows'[id].src = key
        /\ \A id \in DOMAIN rows \ Ids(nodes) : rows'[id] = rows[id]
        /\ DOMAIN pend' = Writers /\ pend'[w].ids = Ids(nodes) /\ pend'[w].src = key
        /\ \A v \in Writers \ {w} : pend'[v] = pend[v]
        /\ excused \subseteq excused'
        /\ \A v \in Writers \ {w} : \A id \in Ids(nodes) : id \in pend[v].ids => id \in excused'
    BY <1>0, <1>2, PersistFact
  <2> HIDE DEF Ids
  <2>2. OwedHeld'
    <3>1. SUFFICES ASSUME NEW v \in Writers, NEW id \in pend'[v].ids
                   PROVE  id \in DOMAIN rows' /\ (rows'[id].src # pend'[v].src => id \in excused')
      BY DEF OwedHeld, Writers
    <3>2. CASE v = w
      BY <2>1, <3>2
    <3>3. CASE v # w /\ id \in Ids(nodes)
      BY <2>1, <3>3
    <3>4. CASE v # w /\ id \notin Ids(nodes)
      <4>1. id \in pend[v].ids /\ pend'[v] = pend[v]
        BY <2>1, <3>4
      <4>2. id \in DOMAIN rows /\ (rows[id].src # pend[v].src => id \in excused)
        BY <1>0, <4>1 DEF OwedHeld
      <4>3. QED
        BY <2>1, <3>4, <4>1, <4>2
    <3>5. QED
      BY <3>2, <3>3, <3>4
  <2>3. EmbeddingCurrent'
    <3>1. SUFFICES ASSUME NEW id \in DOMAIN rows'
                   PROVE  \/ id \in DOMAIN embeds /\ embeds[id] = rows'[id].src
                          \/ \E v \in Writers : id \in pend'[v].ids
                          \/ id \in excused'
      BY DEF EmbeddingCurrent, Writers
    <3>2. CASE id \in Ids(nodes)
      BY <2>1, <3>2
    <3>3. CASE id \in DOMAIN rows \ Ids(nodes)
      <4>1. \/ id \in DOMAIN embeds /\ embeds[id] = rows[id].src
            \/ \E v \in Writers : id \in pend[v].ids
            \/ id \in excused
        BY <1>0, <3>3 DEF EmbeddingCurrent
      <4>2. \A v \in Writers : id \in pend[v].ids => id \in pend'[v].ids
        BY <1>0, <2>1
      <4>3. QED
        BY <2>1, <3>3, <4>1, <4>2
    <3>4. QED
      BY <2>1, <3>2, <3>3
  <2>4. QED
    BY <2>1, <2>2, <2>3
<1>3. QED
  BY <1>1, <1>2

\* A writer's embeddings, written or skipped.
LEMMA StoreEmbed ==
    ASSUME NEW w \in Writers, NEW written \in BOOLEAN, StoreInv,
           upsert_embeddings_for_nodes_best_effort(w, written), UNCHANGED rows
    PROVE  /\ RowShape' /\ OwedHeld' /\ EmbeddingCurrent' /\ DOMAIN pend' = Writers
           /\ pend'[w] = Nothing /\ \A v \in Writers \ {w} : pend'[v] = pend[v]
<1> DEFINE ids == IF written THEN pend[w].ids ELSE {}
           cur == {id \in ids : /\ rows[id].src = pend[w].src
                                /\ \A v \in Writers \ {w} : id \notin pend[v].ids}
           emb == [id \in ids |-> pend[w].src]
<1>0. RowShape /\ DOMAIN pend = Writers /\ OwedHeld /\ EmbeddingCurrent
  BY DEF StoreInv, Owing
<1>1. /\ embeds' = Over(emb, embeds) /\ excused' = (excused \ cur) \cup (pend[w].ids \ ids)
      /\ pend' = [pend EXCEPT ![w] = Nothing]
  BY DEF upsert_embeddings_for_nodes_best_effort
<1>2. DOMAIN emb = ids /\ \A id \in ids : emb[id] = pend[w].src
  OBVIOUS
<1>3. ids \subseteq pend[w].ids
  OBVIOUS
<1>4. \A id : id \in cur <=> (id \in ids /\ rows[id].src = pend[w].src
                              /\ \A v \in Writers \ {w} : id \notin pend[v].ids)
  OBVIOUS
<1> HIDE DEF ids, cur, emb
<1>5. /\ DOMAIN pend' = Writers /\ pend'[w] = Nothing /\ pend'[w].ids = {}
      /\ \A v \in Writers \ {w} : pend'[v] = pend[v]
  BY <1>0, <1>1 DEF Nothing
<1>6. /\ DOMAIN embeds' = ids \cup DOMAIN embeds /\ \A id \in ids : embeds'[id] = pend[w].src
      /\ \A id \in DOMAIN embeds \ ids : embeds'[id] = embeds[id]
  <2>1. /\ DOMAIN Over(emb, embeds) = DOMAIN emb \cup DOMAIN embeds
        /\ \A id \in DOMAIN emb : Over(emb, embeds)[id] = emb[id]
        /\ \A id \in DOMAIN embeds : id \notin DOMAIN emb => Over(emb, embeds)[id] = embeds[id]
    BY OverFact
  <2>2. QED
    BY <1>1, <1>2, <2>1
<1>7. RowShape'
  BY <1>0 DEF RowShape
<1>8. OwedHeld'
  <2>1. SUFFICES ASSUME NEW v \in Writers, NEW id \in pend'[v].ids
                 PROVE  id \in DOMAIN rows /\ (rows[id].src # pend'[v].src => id \in excused')
    BY DEF OwedHeld, Writers
  <2>2. v # w /\ pend'[v] = pend[v] /\ id \in pend[v].ids /\ id \notin cur
    BY <1>4, <1>5
  <2>3. QED
    BY <1>0, <1>1, <2>2 DEF OwedHeld
<1>9. EmbeddingCurrent'
  <2>1. SUFFICES ASSUME NEW id \in DOMAIN rows
                 PROVE  \/ id \in DOMAIN embeds' /\ embeds'[id] = rows[id].src
                        \/ \E v \in Writers : id \in pend'[v].ids
                        \/ id \in excused'
    BY DEF EmbeddingCurrent, Writers
  <2>2. CASE id \in cur
    BY <1>4, <1>6, <2>2
  <2>3. CASE id \in ids \ cur
    <3>1. rows[id].src # pend[w].src \/ \E v \in Writers \ {w} : id \in pend[v].ids
      BY <1>4, <2>3
    <3>2. rows[id].src # pend[w].src => id \in excused
      BY <1>0, <1>3, <2>3 DEF OwedHeld
    <3>3. QED
      BY <1>1, <1>5, <2>3, <3>1, <3>2
  <2>4. CASE id \in pend[w].ids \ ids
    BY <1>1, <2>4
  <2>5. CASE id \notin pend[w].ids
    <3>1. \/ id \in DOMAIN embeds /\ embeds[id] = rows[id].src
          \/ \E v \in Writers \ {w} : id \in pend[v].ids
          \/ id \in excused
      BY <1>0, <2>5 DEF EmbeddingCurrent
    <3>2. id \notin ids /\ id \notin cur
      BY <1>3, <1>4, <2>5
    <3>3. QED
      BY <1>1, <1>5, <1>6, <3>1, <3>2
  <2>6. QED
    BY <2>2, <2>3, <2>4, <2>5
<1>10. QED
  BY <1>5, <1>7, <1>8, <1>9

\* One message's place changes.
LEMMA MsgStep ==
    ASSUME MsgShape, NEW m \in Messages, NEW pc, msg' = [msg EXCEPT ![m].pc = pc]
    PROVE  /\ MsgShape' /\ msg'[m].pc = pc /\ msg'[m].now = msg[m].now /\ msg'[m].missed = msg[m].missed
           /\ \A k \in Messages \ {m} : msg'[k] = msg[k]
<1>1. /\ DOMAIN msg' = Messages /\ \A k \in Messages \ {m} : msg'[k] = msg[k]
      /\ msg'[m] = [msg[m] EXCEPT !.pc = pc]
  BY DEF MsgShape
<1>2. msg[m] = [pc |-> msg[m].pc, now |-> msg[m].now, missed |-> msg[m].missed]
  BY DEF MsgShape
<1>3. msg'[m] = [pc |-> pc, now |-> msg[m].now, missed |-> msg[m].missed]
  BY <1>1, <1>2
<1>4. msg'[m].pc = pc /\ msg'[m].now = msg[m].now /\ msg'[m].missed = msg[m].missed
  BY <1>3
<1>5. MsgShape'
  <2>1. SUFFICES ASSUME NEW k \in Messages
                 PROVE  msg'[k] = [pc |-> msg'[k].pc, now |-> msg'[k].now, missed |-> msg'[k].missed]
    BY <1>1 DEF MsgShape
  <2>2. CASE k = m
    BY <1>3, <1>4, <2>2
  <2>3. CASE k # m
    BY <1>1, <2>3 DEF MsgShape
  <2>4. QED
    BY <2>2, <2>3
<1>6. QED
  BY <1>1, <1>4, <1>5

\* Steps that touch neither the rows nor what is owed; a place may change
\* only among those where nothing is owed.
LEMMA StoreRest ==
    ASSUME StoreInv, WorkerShape', MsgShape', UNCHANGED <<rows, embeds, excused, pend>>,
           worker'.pc = worker.pc \/ worker.pc # "written",
           \A m \in Messages : msg'[m].pc = msg[m].pc \/ msg[m].pc # "embed"
    PROVE  StoreInv'
<1>1. Owing'
  BY DEF StoreInv, Owing, Nothing, Writers, Worker
<1>2. RowShape' /\ OwedHeld' /\ EmbeddingCurrent'
  BY DEF StoreInv, RowShape, OwedHeld, EmbeddingCurrent, Writers
<1>3. QED
  BY <1>1, <1>2 DEF StoreInv

LEMMA ThreadsDiffer == /\ Worker \in Writers /\ Step \in Writers /\ Worker # Step
                       /\ \A m \in Messages : m \in Writers /\ m # Worker /\ m # Step
BY MessagesAreNoThreads DEF Writers, Worker, Step

\* Where each thread owes nothing after a step of writer w.
LEMMA OwingAfter ==
    ASSUME StoreInv, NEW w \in Writers, DOMAIN pend' = Writers,
           \A v \in Writers \ {w} : pend'[v] = pend[v],
           w # Worker => UNCHANGED worker,
           w = Worker => (worker'.pc # "written" => pend'[w] = Nothing),
           \A m \in Messages \ {w} : msg'[m] = msg[m],
           w \in Messages => (msg'[w].pc # "embed" => pend'[w] = Nothing)
    PROVE  Owing'
<1>1. worker'.pc # "written" => pend'[Worker] = Nothing
  BY ThreadsDiffer DEF StoreInv, Owing
<1>2. ASSUME NEW m \in Messages, msg'[m].pc # "embed" PROVE pend'[m] = Nothing
  BY <1>2, ThreadsDiffer DEF StoreInv, Owing
<1>3. QED
  BY <1>1, <1>2 DEF Owing, Nothing, Writers, Worker

LEMMA WorkerMoves ==
    ASSUME WorkerShape, NEW pc, worker' = [worker EXCEPT !.pc = pc]
    PROVE  WorkerShape' /\ worker'.pc = pc
<1>1. worker' = [pc |-> pc, todo |-> worker.todo, file |-> worker.file]
  BY DEF WorkerShape
<1>2. worker'.pc = pc /\ worker'.todo = worker.todo /\ worker'.file = worker.file
  BY <1>1
<1>3. QED
  BY <1>1, <1>2 DEF WorkerShape

LEMMA StoreWorker ==
    ASSUME StoreInv,
           \/ TickBegin \/ TickEnd \/ TickError \/ ReadFile \/ RejectFile \/ SkipDuplicate
           \/ MoveToProcessed \/ ExtractionFails \/ PersistFileFails
    PROVE  StoreInv'
<1>0. WorkerShape /\ MsgShape
  BY DEF StoreInv
<1>1. UNCHANGED <<rows, embeds, excused, pend, msg>> /\ worker.pc # "written"
  BY DEF TickBegin, TickEnd, TickError, ReadFile, RejectFile, SkipDuplicate, MoveToProcessed,
         ExtractionFails, PersistFileFails, Reject, store
<1>2. WorkerShape'
  <2>1. CASE TickBegin
    <3>1. worker' = [pc |-> "next", todo |-> DOMAIN ingest, file |-> NoFile]
      BY <2>1 DEF TickBegin, IdleWorker
    <3>2. QED
      BY <3>1 DEF WorkerShape, NoFile
  <2>2. CASE TickEnd \/ TickError
    BY <2>2, IdleFact DEF TickEnd, TickError
  <2>3. CASE ReadFile
    <3>1. PICK name : worker' = [pc |-> "read", todo |-> worker.todo \ {name},
                                 file |-> [name |-> name, body |-> ingest[name], sfx |-> 0]]
      BY <2>3 DEF ReadFile
    <3>2. QED
      BY <3>1 DEF WorkerShape
  <2>4. CASE RejectFile \/ SkipDuplicate \/ ExtractionFails \/ PersistFileFails
    BY <1>0, <2>4, NextFileFact DEF RejectFile, SkipDuplicate, ExtractionFails, PersistFileFails, Reject
  <2>5. CASE MoveToProcessed
    <3>1. PICK x : worker' = [worker EXCEPT !.pc = "moved", !.file.sfx = x]
      BY <2>5 DEF MoveToProcessed
    <3>2. PICK a, b, n, c, d : worker = [pc |-> a, todo |-> b, file |-> [name |-> n, body |-> c, sfx |-> d]]
      BY <1>0 DEF WorkerShape
    <3>3. worker' = [pc |-> "moved", todo |-> b, file |-> [name |-> n, body |-> c, sfx |-> x]]
      BY <3>1, <3>2
    <3>4. QED
      BY <3>3 DEF WorkerShape
  <2>6. QED
    BY <2>1, <2>2, <2>3, <2>4, <2>5
<1>3. MsgShape'
  BY <1>0, <1>1 DEF MsgShape
<1>4. QED
  BY <1>1, <1>2, <1>3, StoreRest

LEMMA StoreThreads ==
    ASSUME StoreInv,
           PersistFile \/ EmbedFile \/ persist_workflow_output_memories \/ EmbedStep
    PROVE  StoreInv'
<1>0. WorkerShape /\ MsgShape /\ Owing
  BY DEF StoreInv
<1>1. UNCHANGED msg
  BY DEF PersistFile, EmbedFile, persist_workflow_output_memories, EmbedStep
<1>2. MsgShape'
  BY <1>0, <1>1 DEF MsgShape
<1>3. CASE PersistFile
  <2>1. WorkerShape' /\ worker'.pc = "written"
    BY <1>0, <1>3, WorkerMoves DEF PersistFile
  <2>2. pend[Worker] = Nothing /\ UNCHANGED embeds
    BY <1>0, <1>3 DEF PersistFile, Owing
  <2>3. PICK key, nodes, es, path : Persist(Worker, key, nodes, es, path)
    BY <1>3 DEF PersistFile
  <2>4. /\ RowShape' /\ OwedHeld' /\ EmbeddingCurrent' /\ DOMAIN pend' = Writers
        /\ \A v \in Writers \ {Worker} : pend'[v] = pend[v]
    BY <2>2, <2>3, StorePersist, ThreadsDiffer
  <2>5. Owing'
    BY <1>1, <2>1, <2>4, OwingAfter, ThreadsDiffer
  <2>6. QED
    BY <1>2, <2>1, <2>4, <2>5 DEF StoreInv
<1>4. CASE EmbedFile
  <2>1. WorkerShape'
    BY <1>0, <1>4, NextFileFact DEF EmbedFile
  <2>2. PICK b \in BOOLEAN : upsert_embeddings_for_nodes_best_effort(Worker, b)
    BY <1>4 DEF EmbedFile
  <2>3. /\ RowShape' /\ OwedHeld' /\ EmbeddingCurrent' /\ DOMAIN pend' = Writers
        /\ pend'[Worker] = Nothing /\ \A v \in Writers \ {Worker} : pend'[v] = pend[v]
    BY <1>4, <2>2, StoreEmbed, ThreadsDiffer DEF EmbedFile
  <2>4. Owing'
    BY <1>1, <2>3, OwingAfter, ThreadsDiffer
  <2>5. QED
    BY <1>2, <2>1, <2>3, <2>4 DEF StoreInv
<1>5. CASE persist_workflow_output_memories \/ EmbedStep
  <2>1. UNCHANGED worker
    BY <1>5 DEF persist_workflow_output_memories, EmbedStep
  <2>2. /\ RowShape' /\ OwedHeld' /\ EmbeddingCurrent' /\ DOMAIN pend' = Writers
        /\ \A v \in Writers \ {Step} : pend'[v] = pend[v]
    <3>1. CASE persist_workflow_output_memories
      <4>1. PICK key, nodes, es, path : Persist(Step, key, nodes, es, path)
        BY <3>1 DEF persist_workflow_output_memories
      <4>2. QED
        BY <3>1, <4>1, StorePersist, ThreadsDiffer DEF persist_workflow_output_memories
    <3>2. CASE EmbedStep
      <4>1. PICK b \in BOOLEAN : upsert_embeddings_for_nodes_best_effort(Step, b)
        BY <3>2 DEF EmbedStep
      <4>2. QED
        BY <3>2, <4>1, StoreEmbed, ThreadsDiffer DEF EmbedStep
    <3>3. QED
      BY <1>5, <3>1, <3>2
  <2>3. Owing'
    BY <1>1, <2>1, <2>2, OwingAfter, ThreadsDiffer
  <2>4. WorkerShape'
    BY <1>0, <2>1 DEF WorkerShape
  <2>5. QED
    BY <1>2, <2>2, <2>3, <2>4 DEF StoreInv
<1>6. QED
  BY <1>3, <1>4, <1>5

\* The end of a message: its place, and what it was not shown.
LEMMA ShownFact ==
    ASSUME MsgShape, NEW m \in Messages, NEW b, NEW why, Shown(m, b, why)
    PROVE  /\ MsgShape' /\ msg'[m].pc = "idle"
           /\ msg'[m].missed = (IF b.kind = "empty" THEN Successful(b, why) ELSE {})
           /\ \A k \in Messages \ {m} : msg'[k] = msg[k]
<1> DEFINE x == IF b.kind = "empty" THEN Successful(b, why) ELSE {}
<1>0. msg' = [msg EXCEPT ![m].pc = "idle", ![m].missed = x]
  BY DEF Shown
<1> HIDE DEF x
<1>1. PICK a, n, c : msg[m] = [pc |-> a, now |-> n, missed |-> c]
  BY DEF MsgShape
<1>2. DOMAIN msg' = Messages /\ \A k \in Messages \ {m} : msg'[k] = msg[k]
  BY <1>0 DEF MsgShape
<1>3. msg'[m] = [pc |-> "idle", now |-> n, missed |-> x]
  <2> DEFINE r == [msg[m] EXCEPT !.pc = "idle"]
  <2>1. msg'[m] = [r EXCEPT !.missed = x]
    BY <1>0 DEF MsgShape
  <2>2. r = [pc |-> "idle", now |-> n, missed |-> c]
    BY <1>1
  <2> HIDE DEF r
  <2>3. QED
    BY <2>1, <2>2
<1>4. MsgShape'
  <2>1. SUFFICES ASSUME NEW k \in Messages
                 PROVE  msg'[k] = [pc |-> msg'[k].pc, now |-> msg'[k].now, missed |-> msg'[k].missed]
    BY <1>2 DEF MsgShape
  <2>2. CASE k = m
    BY <1>3, <2>2
  <2>3. CASE k # m
    BY <1>2, <2>3 DEF MsgShape
  <2>4. QED
    BY <2>2, <2>3
<1>5. msg'[m].pc = "idle" /\ msg'[m].missed = x
  BY <1>3
<1>6. QED
  BY <1>2, <1>4, <1>5 DEF x

LEMMA ProcessFact ==
    ASSUME MsgShape, NEW m \in Messages, ProcessMessage(m)
    PROVE  /\ MsgShape' /\ msg'[m].pc = "observe" /\ msg'[m].missed = {}
           /\ \A k \in Messages \ {m} : msg'[k] = msg[k]
<1>1. DOMAIN msg' = Messages /\ \A k \in Messages \ {m} : msg'[k] = msg[k]
  BY DEF ProcessMessage, MsgShape
<1>2. msg'[m] = [pc |-> "observe", now |-> clock, missed |-> {}]
  BY DEF ProcessMessage, MsgShape
<1>3. msg'[m].pc = "observe" /\ msg'[m].missed = {} /\ msg'[m].now = clock
  BY <1>2
<1>4. MsgShape'
  <2>1. SUFFICES ASSUME NEW k \in Messages
                 PROVE  msg'[k] = [pc |-> msg'[k].pc, now |-> msg'[k].now, missed |-> msg'[k].missed]
    BY <1>1 DEF MsgShape
  <2>2. CASE k = m
    BY <1>2, <1>3, <2>2
  <2>3. CASE k # m
    BY <1>1, <2>3 DEF MsgShape
  <2>4. QED
    BY <2>2, <2>3
<1>5. QED
  BY <1>1, <1>3, <1>4

LEMMA StoreMessage ==
    ASSUME StoreInv, NEW m \in Messages,
           \/ ProcessMessage(m) \/ RepositoryUnavailable(m)
           \/ persist_transcript_observation(m) \/ EmbedTranscript(m)
           \/ Recall(m) \/ RecallFails(m) \/ BulletinFails(m)
    PROVE  StoreInv'
<1>0. WorkerShape /\ MsgShape /\ Owing /\ UNCHANGED worker
  BY DEF StoreInv, ProcessMessage, RepositoryUnavailable, persist_transcript_observation,
         EmbedTranscript, Recall, RecallFails, BulletinFails
<1>1. WorkerShape'
  BY <1>0 DEF WorkerShape
<1>2. CASE \/ ProcessMessage(m) \/ RepositoryUnavailable(m)
           \/ Recall(m) \/ RecallFails(m) \/ BulletinFails(m)
  <2>1. UNCHANGED <<rows, embeds, excused, pend>> /\ msg[m].pc # "embed"
    BY <1>2 DEF ProcessMessage, RepositoryUnavailable, Recall, RecallFails, BulletinFails, store
  <2>2. MsgShape' /\ \A k \in Messages \ {m} : msg'[k] = msg[k]
    <3>1. CASE ProcessMessage(m)
      BY <1>0, <3>1, ProcessFact
    <3>2. CASE RepositoryUnavailable(m) \/ BulletinFails(m)
      <4>1. \E b, why : Shown(m, b, why)
        BY <3>2 DEF RepositoryUnavailable, BulletinFails
      <4>2. QED
        BY <1>0, <4>1, ShownFact
    <3>3. CASE Recall(m) \/ RecallFails(m)
      <4>1. \E b, why : Shown(m, b, why)
        BY <3>3 DEF Recall, RecallFails, Save
      <4>2. QED
        BY <1>0, <4>1, ShownFact
    <3>4. QED
      BY <1>2, <3>1, <3>2, <3>3
  <2>3. QED
    BY <1>0, <1>1, <2>1, <2>2, StoreRest
<1>3. CASE persist_transcript_observation(m)
  <2>1. msg[m].pc = "observe" /\ UNCHANGED embeds /\ msg' = [msg EXCEPT ![m].pc = "embed"]
    BY <1>3 DEF persist_transcript_observation, MsgAt
  <2>2. MsgShape' /\ msg'[m].pc = "embed" /\ \A k \in Messages \ {m} : msg'[k] = msg[k]
    BY <1>0, <2>1, MsgStep
  <2>3. CASE \E key, nodes, es, path : Persist(m, key, nodes, es, path)
    <3>1. PICK key, nodes, es, path : Persist(m, key, nodes, es, path)
      BY <2>3
    <3>2. pend[m] = Nothing
      BY <1>0, <2>1 DEF Owing
    <3>3. /\ RowShape' /\ OwedHeld' /\ EmbeddingCurrent' /\ DOMAIN pend' = Writers
          /\ \A v \in Writers \ {m} : pend'[v] = pend[v]
      BY <2>1, <3>1, <3>2, StorePersist, ThreadsDiffer
    <3>4. Owing'
      BY <1>0, <2>2, <3>3, OwingAfter, ThreadsDiffer
    <3>5. QED
      BY <1>1, <2>2, <3>3, <3>4 DEF StoreInv
  <2>4. CASE UNCHANGED <<store, pend>>
    <3>1. UNCHANGED <<rows, excused, pend>>
      BY <2>4 DEF store
    <3>2. QED
      BY <1>0, <1>1, <2>1, <2>2, <3>1, StoreRest
  <2>5. QED
    BY <1>3, <2>3, <2>4 DEF persist_transcript_observation
<1>4. CASE EmbedTranscript(m)
  <2>1. msg' = [msg EXCEPT ![m].pc = "recall"] /\ UNCHANGED rows
    BY <1>4 DEF EmbedTranscript, MsgAt
  <2>2. MsgShape' /\ msg'[m].pc = "recall" /\ \A k \in Messages \ {m} : msg'[k] = msg[k]
    BY <1>0, <2>1, MsgStep
  <2>3. PICK b \in BOOLEAN : upsert_embeddings_for_nodes_best_effort(m, b)
    BY <1>4 DEF EmbedTranscript
  <2>4. /\ RowShape' /\ OwedHeld' /\ EmbeddingCurrent' /\ DOMAIN pend' = Writers
        /\ pend'[m] = Nothing /\ \A v \in Writers \ {m} : pend'[v] = pend[v]
    BY <2>1, <2>3, StoreEmbed, ThreadsDiffer
  <2>5. Owing'
    BY <1>0, <2>2, <2>4, OwingAfter, ThreadsDiffer
  <2>6. QED
    BY <1>1, <2>2, <2>4, <2>5 DEF StoreInv
<1>5. QED
  BY <1>2, <1>3, <1>4

\* The moved workspace: the paths of the rows change, and nothing else of them.
LEMMA RelocateFact ==
    ASSUME RowShape, RelocateWorkspace
    PROVE  /\ RowShape' /\ DOMAIN rows' = DOMAIN rows
           /\ \A id \in DOMAIN rows : rows'[id].src = rows[id].src /\ rows'[id].status = rows[id].status
<1>1. ASSUME NEW id \in DOMAIN rows
      PROVE  \E x : rows'[id] = [src |-> rows[id].src, path |-> x, status |-> rows[id].status]
  <2>1. rows'[id] = [rows[id] EXCEPT !.path = IF @ = "inside" THEN "outside" ELSE @]
    BY DEF RelocateWorkspace
  <2>2. PICK a, b, c : rows[id] = [src |-> a, path |-> b, status |-> c]
    BY DEF RowShape
  <2>3. QED
    BY <2>1, <2>2
<1>2. DOMAIN rows' = DOMAIN rows
  BY DEF RelocateWorkspace
<1>3. \A id \in DOMAIN rows : /\ rows'[id].src = rows[id].src /\ rows'[id].status = rows[id].status
                            /\ rows'[id] = [src |-> rows'[id].src, path |-> rows'[id].path,
                                            status |-> rows'[id].status]
  <2>1. SUFFICES ASSUME NEW id \in DOMAIN rows
                 PROVE  /\ rows'[id].src = rows[id].src /\ rows'[id].status = rows[id].status
                        /\ rows'[id] = [src |-> rows'[id].src, path |-> rows'[id].path,
                                        status |-> rows'[id].status]
    OBVIOUS
  <2>2. PICK x : rows'[id] = [src |-> rows[id].src, path |-> x, status |-> rows[id].status]
    BY <1>1
  <2>3. rows'[id].src = rows[id].src /\ rows'[id].path = x /\ rows'[id].status = rows[id].status
    BY <2>2
  <2>4. QED
    BY <2>2, <2>3
<1>4. QED
  BY <1>2, <1>3 DEF RowShape

LEMMA StoreRelocate == ASSUME StoreInv, RelocateWorkspace PROVE StoreInv'
<1>0. RowShape /\ UNCHANGED <<excused, embeds, worker, msg, pend>>
  BY DEF StoreInv, RelocateWorkspace
<1>1. /\ RowShape' /\ DOMAIN rows' = DOMAIN rows
      /\ \A id \in DOMAIN rows : rows'[id].src = rows[id].src
  BY <1>0, RelocateFact
<1>2. WorkerShape' /\ MsgShape' /\ Owing'
  BY <1>0 DEF StoreInv, WorkerShape, MsgShape, Owing, Nothing, Writers, Worker
<1>3. OwedHeld' /\ EmbeddingCurrent'
  BY <1>0, <1>1 DEF StoreInv, OwedHeld, EmbeddingCurrent, Writers
<1>4. QED
  BY <1>1, <1>2, <1>3 DEF StoreInv

\* After a crash nothing is owed: what was is excused.
LEMMA CrashFact ==
    ASSUME MsgShape, Crash
    PROVE  /\ MsgShape' /\ \A m \in Messages : msg'[m].pc = "idle" /\ msg'[m].missed = msg[m].missed
           /\ DOMAIN pend' = Writers /\ \A w \in Writers : pend'[w] = Nothing
<1>1. DOMAIN msg' = Messages /\ \A m \in Messages : msg'[m] = [msg[m] EXCEPT !.pc = "idle"]
  BY DEF Crash
<1>2. ASSUME NEW m \in Messages
      PROVE  msg'[m] = [pc |-> "idle", now |-> msg[m].now, missed |-> msg[m].missed]
  BY <1>1 DEF MsgShape
<1>3. DOMAIN pend' = Writers /\ \A w \in Writers : pend'[w] = Nothing
  BY DEF Crash
<1>4. \A m \in Messages : msg'[m].pc = "idle" /\ msg'[m].missed = msg[m].missed /\ msg'[m].now = msg[m].now
  <2>1. SUFFICES ASSUME NEW m \in Messages
                 PROVE  /\ msg'[m].pc = "idle" /\ msg'[m].missed = msg[m].missed
                        /\ msg'[m].now = msg[m].now
    OBVIOUS
  <2>2. msg'[m] = [pc |-> "idle", now |-> msg[m].now, missed |-> msg[m].missed]
    BY <1>2
  <2>3. QED
    BY <2>2
<1>5. MsgShape'
  BY <1>1, <1>2, <1>4 DEF MsgShape
<1>6. QED
  BY <1>3, <1>4, <1>5

LEMMA StoreCrash == ASSUME StoreInv, Crash PROVE StoreInv'
<1>0. /\ UNCHANGED <<rows, embeds>> /\ worker' = IdleWorker
      /\ excused' = excused \cup UNION {pend[w].ids : w \in Writers}
  BY DEF Crash
<1>1. WorkerShape'
  BY <1>0, IdleFact
<1>2. /\ MsgShape' /\ \A m \in Messages : msg'[m].pc = "idle"
      /\ DOMAIN pend' = Writers /\ \A w \in Writers : pend'[w] = Nothing
  BY CrashFact DEF StoreInv
<1>3. Owing'
  BY <1>2, ThreadsDiffer DEF Owing, Nothing, Writers, Worker
<1>4. OwedHeld'
  BY <1>2 DEF OwedHeld, Nothing, Writers
<1>5. RowShape'
  BY <1>0 DEF StoreInv, RowShape
<1>6. EmbeddingCurrent'
  BY <1>0 DEF StoreInv, EmbeddingCurrent
<1>7. QED
  BY <1>1, <1>2, <1>3, <1>4, <1>5, <1>6 DEF StoreInv

LEMMA StoreNext == ASSUME StoreInv, [Next]_vars PROVE StoreInv'
<1>1. CASE DropFile \/ Tick \/ UNCHANGED vars
  <2>1. UNCHANGED <<rows, embeds, excused, pend, worker, msg>>
    BY <1>1 DEF DropFile, Tick, vars, store
  <2>2. WorkerShape' /\ MsgShape'
    BY <2>1 DEF StoreInv, WorkerShape, MsgShape
  <2>3. QED
    BY <2>1, <2>2, StoreRest
<1>2. QED
  BY <1>1, StoreRelocate, StoreCrash, StoreWorker, StoreThreads, StoreMessage DEF Next

LEMMA StoreInit == ASSUME Init PROVE StoreInv
<1>1. WorkerShape
  BY DEF Init, IdleWorker, NoFile, WorkerShape
<1>2. MsgShape /\ \A m \in Messages : msg[m].pc = "idle"
  BY DEF Init, MsgShape, IdleMsg
<1>3. Owing /\ OwedHeld
  BY ThreadsDiffer DEF Init, Owing, OwedHeld, Nothing
<1>4. RowShape /\ EmbeddingCurrent
  BY DEF Init, RowShape, EmbeddingCurrent
<1>5. QED
  BY <1>1, <1>2, <1>3, <1>4 DEF StoreInv

LEMMA StoreAlways == Spec => []StoreInv
<1>1. Init => StoreInv
  BY StoreInit
<1>2. StoreInv /\ [Next]_vars => StoreInv'
  BY StoreNext
<1>3. QED
  BY <1>1, <1>2, PTL DEF Spec

(* A memory's embedding is that of the text it has now, unless its writer   *)
(* still owes it, was cut off before it, or raced another writer of the     *)
(* same memory (memory/repository.rs).                                      *)
THEOREM EmbeddingsAreCurrent == Spec => []EmbeddingCurrent
<1>1. StoreInv => EmbeddingCurrent
  BY DEF StoreInv
<1>2. QED
  BY <1>1, StoreAlways, PTL

-----------------------------------------------------------------------------
(* Replays.                                                                 *)

Fresh(id) ==
    \/ rows'[id].src = rows[id].src /\ rows'[id].status = rows[id].status
    \/ rows'[id].src \in sources' \ sources

LEMMA PersistIsFresh ==
    ASSUME NEW w \in Writers, NEW key, NEW nodes, NEW es, NEW path, StoreInv,
           Persist(w, key, nodes, es, path), NEW id \in DOMAIN rows
    PROVE  Fresh(id)
<1>1. CASE UNCHANGED rows
  BY <1>1 DEF Fresh
<1>2. CASE ~UNCHANGED rows
  <2>1. /\ key \notin sources /\ sources' = sources \cup {key}
        /\ \A n \in Ids(nodes) : rows'[n].src = key
        /\ \A n \in DOMAIN rows \ Ids(nodes) : rows'[n] = rows[n]
    BY <1>2, PersistFact DEF StoreInv, Owing
  <2>2. QED
    BY <2>1 DEF Fresh
<1>3. QED
  BY <1>1, <1>2

(* A memory changes only in the transaction of a source that the store had  *)
(* not seen: no redelivery, re-drop, retry, crash or relocation changes the *)
(* text or the status of a row (memory/repository.rs).                      *)
THEOREM ReplaysChangeNothing == Spec => ReplayChangesNothing
<1>1. ASSUME StoreInv, [Next]_vars PROVE \A id \in DOMAIN rows : Fresh(id)
  <2>1. CASE UNCHANGED rows
    BY <2>1 DEF Fresh
  <2>2. CASE RelocateWorkspace
    BY <1>1, <2>2, RelocateFact DEF StoreInv, Fresh
  <2>3. CASE \E w \in Writers : \E key, nodes, es, path : Persist(w, key, nodes, es, path)
    BY <1>1, <2>3, PersistIsFresh
  <2>4. UNCHANGED rows \/ RelocateWorkspace
        \/ \E w \in Writers : \E key, nodes, es, path : Persist(w, key, nodes, es, path)
    <3>1. CASE PersistFile
      BY <3>1, ThreadsDiffer DEF PersistFile
    <3>2. CASE persist_workflow_output_memories
      BY <3>2, ThreadsDiffer DEF persist_workflow_output_memories
    <3>3. ASSUME NEW m \in Messages, persist_transcript_observation(m)
          PROVE  UNCHANGED rows \/ \E key, nodes, es, path : Persist(m, key, nodes, es, path)
      BY <3>3 DEF persist_transcript_observation, store
    <3>4. ASSUME NEW m \in Messages,
                 \/ ProcessMessage(m) \/ RepositoryUnavailable(m) \/ EmbedTranscript(m)
                 \/ Recall(m) \/ RecallFails(m) \/ BulletinFails(m)
          PROVE  UNCHANGED rows
      BY <3>4 DEF ProcessMessage, RepositoryUnavailable, EmbedTranscript, Recall, RecallFails,
                  BulletinFails, store
    <3>5. ASSUME \/ UNCHANGED vars \/ DropFile \/ Tick \/ Crash \/ TickBegin \/ TickEnd \/ TickError
                 \/ ReadFile \/ RejectFile \/ SkipDuplicate \/ MoveToProcessed \/ ExtractionFails
                 \/ PersistFileFails \/ EmbedFile \/ EmbedStep
          PROVE  UNCHANGED rows
      BY <3>5 DEF vars, DropFile, Tick, Crash, TickBegin, TickEnd, TickError, ReadFile, RejectFile,
                  SkipDuplicate, MoveToProcessed, ExtractionFails, PersistFileFails, Reject,
                  EmbedFile, EmbedStep, store
    <3>6. QED
      BY <1>1, <3>1, <3>2, <3>3, <3>4, <3>5, ThreadsDiffer DEF Next
  <2>5. QED
    BY <2>1, <2>2, <2>3, <2>4
<1>2. StoreInv /\ [Next]_vars
      => [\A id \in DOMAIN rows :
            \/ rows'[id].src = rows[id].src /\ rows'[id].status = rows[id].status
            \/ rows'[id].src \in sources' \ sources]_vars
  BY <1>1 DEF Fresh
<1>3. QED
  BY <1>2, StoreAlways, PTL DEF Spec, ReplayChangesNothing

-----------------------------------------------------------------------------
(* Bulletins.                                                               *)

BulletinShape ==
    \A k \in DOMAIN bulletins :
        bulletins[k] = [kind |-> bulletins[k].kind, gen |-> bulletins[k].gen,
                        mtime |-> bulletins[k].mtime, recalled |-> bulletins[k].recalled,
                        sections |-> bulletins[k].sections]

ShownInv == MsgShape /\ BulletinShape /\ EmptyBulletinHasCause

\* A bulletin of five fields.
Whole(b) == \E kind, gen, mtime, recalled, sections :
    b = [kind |-> kind, gen |-> gen, mtime |-> mtime, recalled |-> recalled, sections |-> sections]

LEMMA WholeFact ==
    ASSUME NEW b, Whole(b)
    PROVE  b = [kind |-> b.kind, gen |-> b.gen, mtime |-> b.mtime, recalled |-> b.recalled,
                sections |-> b.sections]
BY DEF Whole

LEMMA ShapeIsWhole == BulletinShape <=> \A k \in DOMAIN bulletins : Whole(bulletins[k])
<1>1. ASSUME BulletinShape, NEW k \in DOMAIN bulletins PROVE Whole(bulletins[k])
  BY <1>1 DEF BulletinShape, Whole
<1>2. ASSUME \A k \in DOMAIN bulletins : Whole(bulletins[k]) PROVE BulletinShape
  BY <1>2, WholeFact DEF BulletinShape
<1>3. QED
  BY <1>1, <1>2

\* Bulletins that are written over others are whole if both were.
LEMMA BulletinsStep ==
    ASSUME BulletinShape, NEW new, bulletins' = Over(new, bulletins),
           \A k \in DOMAIN new : Whole(new[k])
    PROVE  BulletinShape'
<1>1. ASSUME NEW k \in DOMAIN bulletins' PROVE Whole(bulletins'[k])
  <2>1. /\ DOMAIN Over(new, bulletins) = DOMAIN new \cup DOMAIN bulletins
        /\ \A x \in DOMAIN new : Over(new, bulletins)[x] = new[x]
        /\ \A x \in DOMAIN bulletins : x \notin DOMAIN new => Over(new, bulletins)[x] = bulletins[x]
    BY OverFact
  <2>2. \A x \in DOMAIN bulletins : Whole(bulletins[x])
    BY ShapeIsWhole
  <2>3. QED
    BY <1>1, <2>1, <2>2
<1>2. QED
  BY <1>1, WholeFact DEF BulletinShape

\* A missed bulletin that is excused.
Excuse(g, m) == g.why \in {"unavailable", "io"} \/ g.of = m \/ ~g.newer

\* What a message is shown, and what it was not shown.
LEMMA ShownCause ==
    ASSUME MsgShape, EmptyBulletinHasCause, NEW m \in Messages, NEW b, NEW why, Shown(m, b, why),
           b.kind = "empty" => \A g \in Successful(b, why) : Excuse(g, m)
    PROVE  MsgShape' /\ EmptyBulletinHasCause'
<1>1. /\ MsgShape' /\ msg'[m].missed = (IF b.kind = "empty" THEN Successful(b, why) ELSE {})
      /\ \A k \in Messages \ {m} : msg'[k] = msg[k]
  BY ShownFact
<1>2. SUFFICES ASSUME NEW k \in Messages, NEW g \in msg'[k].missed PROVE Excuse(g, k)
  BY <1>1 DEF EmptyBulletinHasCause, Excuse
<1>3. CASE k = m
  BY <1>1, <1>3
<1>4. CASE k # m
  BY <1>1, <1>4 DEF EmptyBulletinHasCause, Excuse
<1>5. QED
  BY <1>3, <1>4

\* A bulletin saved for a message, with what the message was not shown.
LEMMA ShownSave ==
    ASSUME ShownInv, NEW m \in Messages, NEW b, Whole(b), Save(m, b),
           b.kind = "empty" => \A g \in Successful(b, "fallback") : g.of = m \/ ~g.newer
    PROVE  ShownInv'
<1>1. Shown(m, b, "fallback")
  BY DEF Save
<1>2. BulletinShape'
  <2> DEFINE new == [k \in {m} |-> [b EXCEPT !.mtime = clock]]
  <2>1. \A k \in DOMAIN new : Whole(new[k])
    <3>1. PICK kind, gen, mtime, recalled, sections :
             b = [kind |-> kind, gen |-> gen, mtime |-> mtime, recalled |-> recalled, sections |-> sections]
      BY DEF Whole
    <3>2. [b EXCEPT !.mtime = clock] =
             [kind |-> kind, gen |-> gen, mtime |-> clock, recalled |-> recalled, sections |-> sections]
      BY <3>1
    <3>3. QED
      BY <3>2 DEF Whole
  <2>2. bulletins' = Over(new, bulletins)
    BY DEF Save
  <2> HIDE DEF new
  <2>3. QED
    BY <2>1, <2>2, BulletinsStep DEF ShownInv
<1>3. b.kind = "empty" => \A g \in Successful(b, "fallback") : Excuse(g, m)
  BY DEF Excuse
<1>4. QED
  BY <1>1, <1>2, <1>3, ShownCause DEF ShownInv

\* An empty bulletin that is not saved, because of a fault.
LEMMA ShownFault ==
    ASSUME ShownInv, NEW m \in Messages, NEW b, NEW why \in {"unavailable", "io"}, Shown(m, b, why)
    PROVE  MsgShape' /\ EmptyBulletinHasCause'
<1>1. \A g \in Successful(b, why) : g.why = why
  BY DEF Successful
<1>2. b.kind = "empty" => \A g \in Successful(b, why) : Excuse(g, m)
  BY <1>1 DEF Excuse
<1>3. QED
  BY <1>2, ShownCause DEF ShownInv

LEMMA TornWhole == Whole(Torn) /\ Torn.kind = "torn"
<1>1. Torn = [kind |-> "torn", gen |-> 0, mtime |-> 0, recalled |-> <<>>, sections |-> EmptySections]
  BY DEF Torn, EmptyBulletin
<1>2. QED
  BY <1>1 DEF Whole

LEMMA ShownBroken == ASSUME ShownInv, NEW m \in Messages, BulletinFails(m) PROVE ShownInv'
<1>1. MsgShape' /\ EmptyBulletinHasCause'
  BY ShownFault DEF BulletinFails
<1>2. PICK torn : bulletins' = Over([k \in torn |-> Torn], bulletins)
  BY DEF BulletinFails
<1> DEFINE new == [k \in torn |-> Torn]
<1>3. \A k \in DOMAIN new : Whole(new[k])
  BY TornWhole
<1>4. bulletins' = Over(new, bulletins)
  BY <1>2
<1> HIDE DEF new
<1>5. BulletinShape'
  BY <1>3, <1>4, BulletinsStep DEF ShownInv
<1>6. QED
  BY <1>1, <1>5 DEF ShownInv

LEMMA ShownRecall == ASSUME ShownInv, NEW m \in Messages, Recall(m) PROVE ShownInv'
<1>1. PICK recall, sections :
         Save(m, [kind |-> "fresh", gen |-> msg[m].now, mtime |-> 0, recalled |-> recall,
                  sections |-> sections])
  BY DEF Recall
<1> DEFINE b == [kind |-> "fresh", gen |-> msg[m].now, mtime |-> 0, recalled |-> recall,
                 sections |-> sections]
<1>2. Whole(b) /\ b.kind = "fresh" /\ Save(m, b)
  BY <1>1 DEF Whole
<1> HIDE DEF b
<1>3. QED
  BY <1>2, ShownSave

\* Recall fails: with no other snapshot an empty bulletin is shown, and
\* otherwise the newest.
LEMMA ShownFallback == ASSUME ShownInv, NEW m \in Messages, RecallFails(m) PROVE ShownInv'
<1>1. CASE Snapshots(m) = {}
  <2> DEFINE b == EmptyBulletin(msg[m].now)
  <2>1. Whole(b) /\ Save(m, b)
    BY <1>1 DEF Whole, EmptyBulletin, RecallFails
  <2>2. \A g \in Successful(b, "fallback") : g.of = m
    BY <1>1 DEF Successful, Snapshots
  <2> HIDE DEF b
  <2>3. QED
    BY <2>1, <2>2, ShownSave
<1>2. CASE Snapshots(m) # {}
  <2>1. PICK k \in load_latest_bulletin(m) :
          Save(m, [bulletins[k] EXCEPT !.kind = IF @ = "empty" THEN @ ELSE "copy"])
    BY <1>2 DEF RecallFails
  <2> DEFINE b == [bulletins[k] EXCEPT !.kind = IF @ = "empty" THEN @ ELSE "copy"]
  <2>2. k \in DOMAIN bulletins /\ \A j \in Snapshots(m) : ~Newer(bulletins[j], bulletins[k])
    BY <2>1 DEF load_latest_bulletin, Snapshots
  <2>3. PICK kind, gen, mtime, recalled, sections :
          bulletins[k] = [kind |-> kind, gen |-> gen, mtime |-> mtime, recalled |-> recalled,
                          sections |-> sections]
    BY <2>2, ShapeIsWhole DEF ShownInv, Whole
  <2>4. b = [kind |-> IF kind = "empty" THEN kind ELSE "copy", gen |-> gen, mtime |-> mtime,
             recalled |-> recalled, sections |-> sections]
    BY <2>3
  <2>5. Whole(b) /\ b.gen = bulletins[k].gen /\ Save(m, b)
    BY <2>1, <2>3, <2>4 DEF Whole
  <2> HIDE DEF b
  <2>6. ASSUME NEW g \in Successful(b, "fallback") PROVE g.of = m \/ ~g.newer
    <3>1. PICK j \in DOMAIN bulletins :
            /\ bulletins[j].kind \in {"fresh", "copy"}
            /\ g = [of |-> j, newer |-> bulletins[j].gen > b.gen, why |-> "fallback"]
      BY <2>6 DEF Successful
    <3>2. CASE j = m
      BY <3>1, <3>2
    <3>3. CASE j # m
      <4>1. j \in Snapshots(m)
        BY <3>1, <3>3 DEF Snapshots
      <4>2. ~(bulletins[j].gen > b.gen)
        BY <2>2, <2>5, <4>1 DEF Newer
      <4>3. QED
        BY <3>1, <4>2
    <3>4. QED
      BY <3>2, <3>3
  <2>7. QED
    BY <2>5, <2>6, ShownSave
<1>3. QED
  BY <1>1, <1>2

LEMMA ShownNext == ASSUME ShownInv, [Next]_vars PROVE ShownInv'
<1>0. MsgShape /\ BulletinShape /\ EmptyBulletinHasCause
  BY DEF ShownInv
<1>1. CASE UNCHANGED <<msg, bulletins>>
  BY <1>0, <1>1 DEF ShownInv, MsgShape, BulletinShape, EmptyBulletinHasCause
<1>2. CASE Crash
  <2>1. MsgShape' /\ \A m \in Messages : msg'[m].missed = msg[m].missed
    BY <1>0, <1>2, CrashFact
  <2>2. PICK torn : bulletins' = Over([m \in torn |-> Torn], bulletins)
    BY <1>2 DEF Crash
  <2> DEFINE new == [m \in torn |-> Torn]
  <2>3. \A k \in DOMAIN new : Whole(new[k])
    BY TornWhole
  <2>4. bulletins' = Over(new, bulletins)
    BY <2>2
  <2> HIDE DEF new
  <2>5. BulletinShape'
    BY <1>0, <2>3, <2>4, BulletinsStep
  <2>6. QED
    BY <1>0, <2>1, <2>5 DEF ShownInv, EmptyBulletinHasCause
<1>3. ASSUME NEW m \in Messages,
             ProcessMessage(m) \/ persist_transcript_observation(m) \/ EmbedTranscript(m)
      PROVE  ShownInv'
  <2>1. UNCHANGED bulletins
    BY <1>3 DEF ProcessMessage, persist_transcript_observation, EmbedTranscript
  <2>2. /\ MsgShape' /\ (msg'[m].missed = {} \/ msg'[m].missed = msg[m].missed)
        /\ \A k \in Messages \ {m} : msg'[k] = msg[k]
    BY <1>0, <1>3, ProcessFact, MsgStep
       DEF persist_transcript_observation, EmbedTranscript, MsgAt
  <2>3. BulletinShape'
    BY <1>0, <2>1 DEF BulletinShape
  <2>4. EmptyBulletinHasCause'
    <3>1. SUFFICES ASSUME NEW k \in Messages, NEW g \in msg'[k].missed PROVE Excuse(g, k)
      BY DEF EmptyBulletinHasCause, Excuse
    <3>2. g \in msg[k].missed
      BY <2>2
    <3>3. QED
      BY <1>0, <3>2 DEF EmptyBulletinHasCause, Excuse
  <2>5. QED
    BY <2>2, <2>3, <2>4 DEF ShownInv
<1>4. ASSUME \/ UNCHANGED vars \/ DropFile \/ Tick \/ RelocateWorkspace \/ TickBegin \/ TickEnd
             \/ TickError \/ ReadFile \/ RejectFile \/ SkipDuplicate \/ MoveToProcessed
             \/ ExtractionFails \/ PersistFile \/ PersistFileFails \/ EmbedFile
             \/ persist_workflow_output_memories \/ EmbedStep
      PROVE  UNCHANGED <<msg, bulletins>>
  BY <1>4 DEF vars, DropFile, Tick, RelocateWorkspace, TickBegin, TickEnd, TickError, ReadFile,
              RejectFile, SkipDuplicate, MoveToProcessed, ExtractionFails, PersistFile,
              PersistFileFails, Reject, EmbedFile, persist_workflow_output_memories, EmbedStep
<1>5. ASSUME NEW m \in Messages, RepositoryUnavailable(m) PROVE ShownInv'
  <2>1. MsgShape' /\ EmptyBulletinHasCause'
    BY <1>5, ShownFault DEF RepositoryUnavailable
  <2>2. BulletinShape'
    BY <1>0, <1>5 DEF RepositoryUnavailable, BulletinShape
  <2>3. QED
    BY <2>1, <2>2 DEF ShownInv
<1>6. QED
  BY <1>1, <1>2, <1>3, <1>4, <1>5, ShownRecall, ShownFallback, ShownBroken DEF Next

LEMMA ShownInit == ASSUME Init PROVE ShownInv
<1>1. MsgShape /\ \A m \in Messages : msg[m].missed = {}
  BY DEF Init, MsgShape, IdleMsg
<1>2. QED
  BY <1>1 DEF Init, ShownInv, BulletinShape, EmptyBulletinHasCause

(* A message is shown an empty bulletin although a newer, successful one of *)
(* another message is on disk only if the store could not be opened, or a   *)
(* bulletin or the log could not be read or written (memory/bulletin.rs,    *)
(* orchestration/routing.rs).                                               *)
THEOREM EmptyBulletinsHaveCause == Spec => []EmptyBulletinHasCause
<1>1. Init => ShownInv
  BY ShownInit
<1>2. ShownInv /\ [Next]_vars => ShownInv'
  BY ShownNext
<1>3. ShownInv => EmptyBulletinHasCause
  BY DEF ShownInv
<1>4. QED
  BY <1>1, <1>2, <1>3, PTL DEF Spec

-----------------------------------------------------------------------------
(* What a bulletin leaves out.                                              *)

\* The elements of a finite set of numbers are counted off one by one: every
\* place from 1 to their number is the place of exactly one of them.
LEMMA CountOff ==
    ASSUME NEW N \in Nat, NEW at \in SUBSET (1 .. N)
    PROVE  /\ IsFiniteSet(at) /\ Cardinality(at) \in Nat
           /\ \A i \in at : Cardinality({j \in at : j <= i}) \in 1 .. Cardinality(at)
           /\ \A k \in 1 .. Cardinality(at) :
                 \E i \in at : Cardinality({j \in at : j <= i}) = k
<1> DEFINE below(i) == {x \in at : x <= i}
           rank == [i \in at |-> Cardinality(below(i))]
           C == Cardinality(at)
<1>0. at \subseteq Int
  OBVIOUS
<1>1. IsFiniteSet(at) /\ C \in Nat
  <2>1. IsFiniteSet(1 .. N)
    BY FS_Interval
  <2>2. IsFiniteSet(at)
    BY <2>1, FS_Subset
  <2>3. QED
    BY <2>2, FS_CardinalityType
<1>2. ASSUME NEW i \in at PROVE IsFiniteSet(below(i)) /\ Cardinality(below(i)) \in 1 .. C
  <2>1. below(i) \in SUBSET at /\ below(i) # {}
    OBVIOUS
  <2> HIDE DEF below
  <2>2. IsFiniteSet(below(i)) /\ Cardinality(below(i)) <= C
    BY <1>1, <2>1, FS_Subset
  <2>3. Cardinality(below(i)) \in Nat /\ Cardinality(below(i)) # 0
    BY <2>1, <2>2, FS_CardinalityType, FS_EmptySet
  <2>4. QED
    BY <1>1, <2>2, <2>3
<1>3. ASSUME NEW i \in at, NEW j \in at, i < j PROVE Cardinality(below(i)) < Cardinality(below(j))
  <2>0. i \in Int /\ j \in Int
    BY <1>0
  <2>1. below(i) \in SUBSET below(j) /\ j \in below(j) /\ j \notin below(i)
    <3> HIDE DEF C, rank
    <3>1. ASSUME NEW y \in at, y <= i PROVE y <= j
      BY <1>0, <1>3, <2>0, <3>1
    <3>2. j <= j /\ ~(j <= i)
      BY <1>3, <2>0
    <3>3. QED
      BY <3>1, <3>2
  <2>2. /\ IsFiniteSet(below(j)) /\ Cardinality(below(i)) \in Nat /\ Cardinality(below(j)) \in Nat
    BY <1>1, <1>2
  <2> HIDE DEF below
  <2>3. Cardinality(below(i)) <= Cardinality(below(j)) /\ Cardinality(below(i)) # Cardinality(below(j))
    BY <2>1, <2>2, FS_Subset
  <2>4. QED
    BY <2>2, <2>3
<1>4. rank \in Injection(at, 1 .. C)
  <2>1. rank \in [at -> 1 .. C]
    BY <1>2
  <2>2. ASSUME NEW i \in at, NEW j \in at, rank[i] = rank[j] PROVE i = j
    <3>1. i \in Int /\ j \in Int /\ Cardinality(below(i)) \in Int /\ Cardinality(below(j)) \in Int
      <4>1. i \in at /\ j \in at
        OBVIOUS
      <4> HIDE DEF rank, below
      <4>2. QED
        BY <1>0, <1>1, <1>2, <4>1
    <3>2. Cardinality(below(i)) = Cardinality(below(j))
      BY <2>2
    <3>3. ASSUME NEW a \in at, NEW b \in at, a < b, Cardinality(below(a)) = Cardinality(below(b)),
                 Cardinality(below(a)) \in Int
          PROVE  FALSE
      <4>1. Cardinality(below(a)) < Cardinality(below(b))
        BY <1>3, <3>3
      <4> DEFINE x == Cardinality(below(a))
                 y == Cardinality(below(b))
      <4>2. x < y /\ x = y /\ x \in Int
        BY <3>3, <4>1
      <4> HIDE DEF x, y
      <4>3. QED
        BY <4>2
    <3> HIDE DEF rank, below, C
    <3>4. QED
      BY <3>1, <3>2, <3>3
  <2> HIDE DEF rank
  <2>3. QED
    BY <2>1, <2>2 DEF Injection, IsInjective
<1>5. Cardinality(1 .. C) = C /\ IsFiniteSet(1 .. C)
  BY <1>1, FS_Interval
<1>6. rank \in Surjection(at, 1 .. C)
  <2> HIDE DEF rank
  <2>1. QED
    BY <1>4, <1>5, FS_Injection
<1>7. ASSUME NEW k \in 1 .. C PROVE \E i \in at : Cardinality(below(i)) = k
  <2>1. \E i \in at : rank[i] = k
    <3> HIDE DEF rank, C
    <3>1. QED
      BY <1>6, <1>7 DEF Surjection
  <2>2. QED
    BY <2>1
<1>8. QED
  BY <1>1, <1>2, <1>7

\* The lines of ids are those of the recalled memories that are in ids.
LEMMA LinesOfFact ==
    ASSUME NEW N \in Nat, NEW recall, DOMAIN recall = 1 .. N, NEW ids
    PROVE  /\ LinesOf(recall, ids) \in Seq(Range(recall))
           /\ Range(LinesOf(recall, ids)) = Range(recall) \cap ids
<1> DEFINE at == {i \in DOMAIN recall : recall[i] \in ids}
           rank(i) == Cardinality({j \in at : j <= i})
           C == Cardinality(at)
           pick(k) == CHOOSE i \in at : rank(i) = k
           t == LinesOf(recall, ids)
<1>1. at \in SUBSET (1 .. N)
  OBVIOUS
<1>2. /\ C \in Nat /\ \A i \in at : rank(i) \in 1 .. C
      /\ \A k \in 1 .. C : \E i \in at : rank(i) = k
  <2> HIDE DEF at
  <2>1. QED
    BY <1>1, CountOff
<1>3. t = [k \in 1 .. C |-> recall[pick(k)]]
  BY DEF LinesOf
<1>4. \A k \in 1 .. C : pick(k) \in at /\ rank(pick(k)) = k
  <2> HIDE DEF at, rank, C
  <2>1. QED
    BY <1>2
<1>5. \A i \in at : pick(rank(i)) = i
  <2>1. SUFFICES ASSUME NEW i \in at PROVE pick(rank(i)) = i
    OBVIOUS
  <2>0. at \subseteq Int
    BY <1>1
  <2>2. i \in Int /\ pick(rank(i)) \in at /\ rank(pick(rank(i))) = rank(i) /\ pick(rank(i)) \in Int
    <3> HIDE DEF at, rank, pick
    <3>1. QED
      BY <2>0, <1>2, <1>4
  <2>3. ASSUME NEW a \in at, NEW b \in at, rank(a) = rank(b), a < b PROVE FALSE
    <3> DEFINE A == {j \in at : j <= a}
               B == {j \in at : j <= b}
    <3>1. A \in SUBSET B /\ b \in B /\ b \notin A /\ B \in SUBSET at
      BY <1>1, <2>3
    <3>2. IsFiniteSet(at)
      <4> HIDE DEF at
      <4>1. QED
        BY <1>1, CountOff
    <3>3. Cardinality(A) = Cardinality(B)
      BY <2>3
    <3> HIDE DEF A, B, at
    <3>4. QED
      BY <3>1, <3>2, <3>3, FS_Subset
  <2> HIDE DEF at, rank, pick
  <2>4. QED
    BY <2>2, <2>3
<1> HIDE DEF at, rank, C, pick, t
<1>6. \A k \in 1 .. C : recall[pick(k)] \in Range(recall) \cap ids
  BY <1>4 DEF at, Range
<1>7. t \in Seq(Range(recall)) /\ DOMAIN t = 1 .. C
  BY <1>2, <1>3, <1>6
<1>8. Range(t) \subseteq Range(recall) \cap ids
  BY <1>3, <1>6, <1>7 DEF Range
<1>9. ASSUME NEW x \in Range(recall) \cap ids PROVE x \in Range(t)
  <2>1. PICK i \in DOMAIN recall : x = recall[i]
    BY <1>9 DEF Range
  <2>2. i \in at
    BY <1>9, <2>1 DEF at
  <2>3. rank(i) \in 1 .. C /\ t[rank(i)] = x
    BY <1>2, <1>3, <1>5, <2>1, <2>2
  <2>4. QED
    BY <1>7, <2>3 DEF Range
<1>10. QED
  BY <1>7, <1>8, <1>9 DEF t

-----------------------------------------------------------------------------
(* Trimming.  sec is what is left of sec0 after some lines were taken off:  *)
(* the first lines of every section, and a section that lost a line comes   *)
(* after sections that lost all theirs.                                     *)

Trimmed(V, sec0, sec) ==
    /\ sec \in [SectionNames -> Seq(V)]
    /\ \A s \in SectionNames : /\ Len(sec[s]) <= Len(sec0[s])
                               /\ \A k \in 1 .. Len(sec[s]) : sec[s][k] = sec0[s][k]
    /\ \A i, j \in 1 .. 6 : j < i /\ Len(sec[trim_order[i]]) < Len(sec0[trim_order[i]]) =>
           sec[trim_order[j]] = <<>>

LEMMA TrimOrder ==
    /\ Len(trim_order) = 6
    /\ \A i \in 1 .. 6 : trim_order[i] \in SectionNames
    /\ \A i, j \in 1 .. 6 : trim_order[i] = trim_order[j] => i = j
    /\ \A s \in SectionNames : \E i \in 1 .. 6 : trim_order[i] = s
<1>1. /\ trim_order[1] = Knowledge /\ trim_order[2] = Preferences /\ trim_order[3] = Conflicts
      /\ trim_order[4] = Decisions /\ trim_order[5] = Todos /\ trim_order[6] = Goals
      /\ Len(trim_order) = 6
  BY DEF trim_order
<1>2. \A i \in 1 .. 6 : i = 1 \/ i = 2 \/ i = 3 \/ i = 4 \/ i = 5 \/ i = 6
  OBVIOUS
<1>3. QED
  BY <1>1, <1>2 DEF SectionNames, Goals, Todos, Decisions, Preferences, Knowledge, Conflicts

LEMMA LinesFact ==
    ASSUME NEW V, NEW sec \in [SectionNames -> Seq(V)]
    PROVE  /\ Lines(sec) \in Nat
           /\ \A s \in SectionNames : Len(sec[s]) \in Nat
           /\ Lines(sec) = 0 <=> \A s \in SectionNames : sec[s] = <<>>
           /\ render_sections(sec) \in Nat
<1>1. \A s \in SectionNames : sec[s] \in Seq(V) /\ Len(sec[s]) \in Nat
  OBVIOUS
<1>2. \A s \in SectionNames : Len(sec[s]) = 0 <=> sec[s] = <<>>
  BY <1>1, EmptySeq
<1>3. Lines(sec) \in Nat /\ (Lines(sec) = 0 <=> \A s \in SectionNames : Len(sec[s]) = 0)
  BY <1>1 DEF Lines, SectionNames
<1>4. \A s \in SectionNames : SectionLength(sec, s) \in Nat
  BY <1>1 DEF SectionLength, Heading, Dash, LineLength
<1>5. render_sections(sec) \in Nat
  BY <1>4 DEF render_sections, SectionNames
<1>6. QED
  BY <1>1, <1>2, <1>3, <1>5

\* A line is taken off the first section of the order that has one.
LEMMA PopLineFact ==
    ASSUME NEW V, NEW sec \in [SectionNames -> Seq(V)], Lines(sec) # 0
    PROVE  \E i \in 1 .. 6 :
              /\ sec[trim_order[i]] # <<>>
              /\ \A j \in 1 .. 6 : j < i => sec[trim_order[j]] = <<>>
              /\ PopLine(sec) = [sec EXCEPT ![trim_order[i]] = Front(@)]
<1> DEFINE S == {i \in 1 .. 6 : sec[trim_order[i]] # <<>>}
<1>1. S # {}
  <2>1. PICK s \in SectionNames : sec[s] # <<>>
    BY LinesFact
  <2>2. PICK i \in 1 .. 6 : trim_order[i] = s
    BY TrimOrder
  <2>3. QED
    BY <2>1, <2>2
<1>2. S \in SUBSET (0 .. 6)
  OBVIOUS
<1>3. Min(S) \in S /\ \A n \in S : Min(S) <= n
  <2> HIDE DEF S
  <2>1. 6 \in Nat
    OBVIOUS
  <2>2. QED
    BY <1>1, <1>2, <2>1, MinFact
<1>4. PopLine(sec) = [sec EXCEPT ![trim_order[Min(S)]] = Front(@)]
  <2>1. S = {i \in 1 .. Len(trim_order) : sec[trim_order[i]] # <<>>}
    BY TrimOrder
  <2> HIDE DEF S
  <2>2. QED
    BY <2>1, Zenon DEF PopLine
<1>5. PICK m : m = Min(S)
  OBVIOUS
<1>6. m \in 1 .. 6 /\ sec[trim_order[m]] # <<>> /\ \A n \in 1 .. 6 : sec[trim_order[n]] # <<>> => m <= n
  BY <1>3, <1>5
<1>7. PopLine(sec) = [sec EXCEPT ![trim_order[m]] = Front(@)]
  BY <1>4, <1>5
<1> HIDE DEF S
<1>8. \A j \in 1 .. 6 : j < m => sec[trim_order[j]] = <<>>
  BY <1>6
<1>9. QED
  BY <1>6, <1>7, <1>8

LEMMA FrontFact ==
    ASSUME NEW V, NEW s \in Seq(V), s # <<>>
    PROVE  /\ Front(s) \in Seq(V) /\ Len(Front(s)) = Len(s) - 1 /\ Len(s) \in Nat \ {0}
           /\ \A k \in 1 .. Len(Front(s)) : Front(s)[k] = s[k]
<1>1. Len(s) \in Nat /\ Len(s) # 0
  BY EmptySeq
<1>2. PICK n \in Int : n = Len(s) - 1
  BY <1>1
<1>3. \A i \in 1 .. n : s[i] \in V
  BY <1>1, <1>2, ElementOfSeq
<1>4. /\ SubSeq(s, 1, n) \in Seq(V) /\ Len(SubSeq(s, 1, n)) = IF 1 <= n THEN n - 1 + 1 ELSE 0
      /\ \A i \in 1 .. n - 1 + 1 : SubSeq(s, 1, n)[i] = s[1 + i - 1]
  BY <1>3, SubSeqProperties
<1>5. Front(s) = SubSeq(s, 1, n)
  BY <1>2 DEF Front
<1>6. QED
  BY <1>1, <1>2, <1>4, <1>5

LEMMA PopTrims ==
    ASSUME NEW V, NEW sec0 \in [SectionNames -> Seq(V)], NEW sec, Trimmed(V, sec0, sec),
           Lines(sec) # 0
    PROVE  Trimmed(V, sec0, PopLine(sec)) /\ Lines(PopLine(sec)) = Lines(sec) - 1
<1>1. sec \in [SectionNames -> Seq(V)]
  BY DEF Trimmed
<1>2. PICK i \in 1 .. 6 :
              /\ sec[trim_order[i]] # <<>>
              /\ \A j \in 1 .. 6 : j < i => sec[trim_order[j]] = <<>>
              /\ PopLine(sec) = [sec EXCEPT ![trim_order[i]] = Front(@)]
  BY <1>1, PopLineFact
<1>3. PICK s \in SectionNames : s = trim_order[i]
  BY TrimOrder
<1>4. PICK q : q = Front(sec[s])
  OBVIOUS
<1>5. PICK t : t = PopLine(sec)
  OBVIOUS
<1>6. t = [sec EXCEPT ![s] = q]
  BY <1>2, <1>3, <1>4, <1>5
<1>7. /\ q \in Seq(V) /\ Len(q) = Len(sec[s]) - 1 /\ Len(sec[s]) \in Nat \ {0}
      /\ \A k \in 1 .. Len(q) : q[k] = sec[s][k]
  BY <1>1, <1>2, <1>3, <1>4, FrontFact
<1>8. /\ t \in [SectionNames -> Seq(V)] /\ t[s] = q
      /\ \A r \in SectionNames \ {s} : t[r] = sec[r]
  BY <1>1, <1>6, <1>7
<1>9. Lines(t) = Lines(sec) - 1
  <2>1. \A r \in SectionNames : Len(sec[r]) \in Int
    BY <1>1, LinesFact
  <2>2. /\ \A r \in SectionNames : r # s => Len(t[r]) = Len(sec[r])
        /\ Len(t[s]) = Len(sec[s]) - 1
    BY <1>7, <1>8
  <2> DEFINE one(r) == IF s = r THEN 1 ELSE 0
  <2>3. ASSUME NEW r \in SectionNames
        PROVE  Len(t[r]) = Len(sec[r]) - one(r) /\ Len(sec[r]) \in Int
    <3>1. PICK n \in Int : n = Len(sec[r])
      BY <2>1
    <3>2. CASE r = s
      BY <2>2, <3>1, <3>2
    <3>3. CASE r # s
      <4>1. one(r) = 0 /\ Len(t[r]) = n
        BY <2>2, <3>1, <3>3
      <4> HIDE DEF one
      <4>2. QED
        BY <3>1, <4>1
    <3>4. QED
      BY <3>2, <3>3
  <2>4. /\ one(Goals) + one(Todos) + one(Decisions) + one(Preferences) + one(Knowledge) + one(Conflicts) = 1
        /\ \A r \in SectionNames : one(r) \in Int
    BY DEF SectionNames, Goals, Todos, Decisions, Preferences, Knowledge, Conflicts
  <2> HIDE DEF one
  <2>5. /\ Goals \in SectionNames /\ Todos \in SectionNames /\ Decisions \in SectionNames
        /\ Preferences \in SectionNames /\ Knowledge \in SectionNames /\ Conflicts \in SectionNames
    BY DEF SectionNames
  <2> DEFINE was(r) == Len(sec[r])
             now(r) == Len(t[r])
  <2>6. /\ was(Goals) \in Int /\ now(Goals) = was(Goals) - one(Goals)
        /\ was(Todos) \in Int /\ now(Todos) = was(Todos) - one(Todos)
        /\ was(Decisions) \in Int /\ now(Decisions) = was(Decisions) - one(Decisions)
        /\ was(Preferences) \in Int /\ now(Preferences) = was(Preferences) - one(Preferences)
        /\ was(Knowledge) \in Int /\ now(Knowledge) = was(Knowledge) - one(Knowledge)
        /\ was(Conflicts) \in Int /\ now(Conflicts) = was(Conflicts) - one(Conflicts)
    BY <2>3, <2>5
  <2>7. /\ Lines(sec) = was(Goals) + was(Todos) + was(Decisions) + was(Preferences) + was(Knowledge)
                        + was(Conflicts)
        /\ Lines(t) = now(Goals) + now(Todos) + now(Decisions) + now(Preferences) + now(Knowledge)
                        + now(Conflicts)
    BY DEF Lines
  <2> HIDE DEF was, now
  <2>8. /\ one(Goals) \in Int /\ one(Todos) \in Int /\ one(Decisions) \in Int
        /\ one(Preferences) \in Int /\ one(Knowledge) \in Int /\ one(Conflicts) \in Int
    BY <2>4, <2>5
  <2>9. PICK a, b, c, d, e, f \in Int :
          /\ a = was(Goals) /\ b = was(Todos) /\ c = was(Decisions)
          /\ d = was(Preferences) /\ e = was(Knowledge) /\ f = was(Conflicts)
    BY <2>6
  <2>10. PICK u, v, w, x, y, z \in Int :
          /\ u = one(Goals) /\ v = one(Todos) /\ w = one(Decisions)
          /\ x = one(Preferences) /\ y = one(Knowledge) /\ z = one(Conflicts)
    BY <2>8
  <2>11. u + v + w + x + y + z = 1
    BY <2>4, <2>10
  <2>12. Lines(sec) = a + b + c + d + e + f
    BY <2>7, <2>9
  <2>13. Lines(t) = (a - u) + (b - v) + (c - w) + (d - x) + (e - y) + (f - z)
    BY <2>6, <2>7, <2>9, <2>10
  <2>14. QED
    BY <2>11, <2>12, <2>13
<1>10. ASSUME NEW r \in SectionNames
       PROVE  Len(t[r]) <= Len(sec0[r]) /\ \A k \in 1 .. Len(t[r]) : t[r][k] = sec0[r][k]
  <2>1. /\ Len(sec[r]) <= Len(sec0[r]) /\ \A k \in 1 .. Len(sec[r]) : sec[r][k] = sec0[r][k]
        /\ Len(sec[r]) \in Int /\ Len(sec0[r]) \in Int
    <3>1. Len(sec[r]) \in Nat /\ Len(sec0[r]) \in Nat
      BY <1>1, LinesFact
    <3>2. QED
      BY <3>1 DEF Trimmed
  <2>2. CASE r = s
    <3>1. PICK n \in Int : n = Len(sec[r])
      BY <2>1
    <3>2. PICK n0 \in Int : n0 = Len(sec0[r])
      BY <2>1
    <3>3. t[r] = q /\ Len(q) = n - 1 /\ n <= n0 /\ \A k \in 1 .. n - 1 : q[k] = sec[r][k]
      BY <1>7, <1>8, <2>1, <2>2, <3>1, <3>2
    <3>4. \A k \in 1 .. n - 1 : k \in 1 .. n
      BY <3>1
    <3>5. \A k \in 1 .. n - 1 : t[r][k] = sec0[r][k]
      BY <2>1, <3>1, <3>3, <3>4
    <3>6. QED
      BY <3>2, <3>3, <3>5
  <2>3. CASE r # s
    BY <1>8, <2>1, <2>3
  <2>4. QED
    BY <2>2, <2>3
<1>11. ASSUME NEW a \in 1 .. 6, NEW b \in 1 .. 6, b < a,
              Len(t[trim_order[a]]) < Len(sec0[trim_order[a]])
       PROVE  t[trim_order[b]] = <<>>
  <2>1. trim_order[a] \in SectionNames /\ trim_order[b] \in SectionNames
    BY TrimOrder
  <2>2. CASE a = i
    <3>1. b # i /\ sec[trim_order[b]] = <<>>
      BY <1>2, <1>11, <2>2
    <3>2. trim_order[b] # s
      BY <1>3, <3>1, TrimOrder
    <3>3. QED
      BY <1>8, <2>1, <3>1, <3>2
  <2>3. CASE a # i
    <3>1. t[trim_order[a]] = sec[trim_order[a]]
      BY <1>3, <1>8, <2>1, <2>3, TrimOrder
    <3>2. sec[trim_order[b]] = <<>>
      BY <1>11, <3>1 DEF Trimmed
    <3>3. b # i
      BY <1>2, <3>2
    <3>4. trim_order[b] # s
      BY <1>3, <3>3, TrimOrder
    <3>5. QED
      BY <1>8, <2>1, <3>2, <3>4
  <2>4. QED
    BY <2>2, <2>3
<1>12. Trimmed(V, sec0, t)
  BY <1>8, <1>10, <1>11 DEF Trimmed
<1>13. QED
  BY <1>5, <1>9, <1>12

LEMMA LeastNumber == ASSUME NEW S, S \subseteq Nat, S # {} PROVE \E x \in S : \A y \in S : x <= y
<1>1. PICK x \in S : \A y \in S : ~(<<y, x>> \in OpToRel(<, Nat))
  BY NatLessThanWellFounded, WFMin, Zenon
<1>2. \A y \in S : ~(y < x)
  BY <1>1, Zenon DEF OpToRel
<1>3. QED
  BY <1>2

\* One round of the loop that takes lines off.
Round(sec, limit) == IF Fits(sec, limit) THEN sec ELSE PopLine(sec)

IsLoop(g, N, sec0, limit) ==
    g = [n \in 0 .. N |-> IF n = 0 THEN sec0 ELSE Round(g[n - 1], limit)]

LEMMA LoopExists ==
    ASSUME NEW sec0, NEW limit, NEW N \in Nat
    PROVE  \E g : IsLoop(g, N, sec0, limit)
<1> DEFINE S == {n \in Nat : ~ \E g : IsLoop(g, n, sec0, limit)}
<1>1. SUFFICES ASSUME S # {} PROVE FALSE
  OBVIOUS
<1>2. PICK k \in S : \A y \in S : k <= y
  <2>1. S \subseteq Nat
    OBVIOUS
  <2> HIDE DEF S
  <2>2. QED
    BY <1>1, <2>1, LeastNumber
<1>3. k # 0
  <2>1. IsLoop([n \in 0 .. 0 |-> sec0], 0, sec0, limit)
    BY DEF IsLoop
  <2>2. QED
    BY <1>2, <2>1
<1>4. k \in Nat /\ k - 1 \in Nat
  BY <1>2, <1>3
<1>5. k - 1 \notin S
  <2> HIDE DEF S
  <2>1. QED
    BY <1>2, <1>4
<1>6. PICK g : IsLoop(g, k - 1, sec0, limit)
  BY <1>4, <1>5
<1> DEFINE h == [n \in 0 .. k |-> IF n <= k - 1 THEN g[n] ELSE Round(g[k - 1], limit)]
<1>7. \A n \in 0 .. k - 1 : g[n] = IF n = 0 THEN sec0 ELSE Round(g[n - 1], limit)
  BY <1>6 DEF IsLoop
<1>8. ASSUME NEW n \in 0 .. k
      PROVE  h[n] = IF n = 0 THEN sec0 ELSE Round(h[n - 1], limit)
  <2>1. CASE n = 0
    BY <1>3, <1>4, <1>7, <2>1
  <2>2. CASE n # 0 /\ n <= k - 1
    <3>1. n - 1 \in 0 .. k /\ n - 1 <= k - 1 /\ n \in 0 .. k - 1
      BY <1>4, <2>2
    <3>2. h[n - 1] = g[n - 1] /\ h[n] = g[n]
      BY <2>2, <3>1
    <3> HIDE DEF h
    <3>3. QED
      BY <1>7, <2>2, <3>1, <3>2
  <2>3. CASE n = k
    <3>1. k - 1 \in 0 .. k /\ k - 1 <= k - 1 /\ ~(k <= k - 1) /\ k \in 0 .. k
      BY <1>4
    <3>2. h[k - 1] = g[k - 1] /\ h[k] = Round(g[k - 1], limit)
      BY <3>1
    <3> HIDE DEF h
    <3>3. QED
      BY <1>3, <2>3, <3>2
  <2>4. QED
    BY <1>4, <2>1, <2>2, <2>3
<1>9. IsLoop(h, k, sec0, limit)
  <2>1. h = [n \in 0 .. k |-> h[n]]
    OBVIOUS
  <2> HIDE DEF h
  <2>2. QED
    BY <1>8, <2>1 DEF IsLoop
<1>10. QED
  <2> HIDE DEF h
  <2>1. QED
    BY <1>2, <1>9

LEMMA TrimLoop ==
    ASSUME NEW sec0, NEW limit, Lines(sec0) \in Nat
    PROVE  \E g : /\ IsLoop(g, Lines(sec0), sec0, limit)
                  /\ TrimLines(sec0, limit) = g[Lines(sec0)]
<1> DEFINE N == Lines(sec0)
           body(t) == [n \in 0 .. N |->
                          IF n = 0 THEN sec0
                          ELSE LET prev == t[n - 1] IN
                               IF Fits(prev, limit) THEN prev ELSE PopLine(prev)]
           g == CHOOSE t : t = body(t)
<1>1. \A t : t = body(t) <=> IsLoop(t, N, sec0, limit)
  BY DEF IsLoop, Round
<1>2. g = body(g)
  <2>1. \E t : t = body(t)
    <3> HIDE DEF body, N
    <3>1. N \in Nat
      BY DEF N
    <3>2. QED
      BY <1>1, <3>1, LoopExists
  <2> HIDE DEF body
  <2>2. QED
    BY <2>1
<1>3. TrimLines(sec0, limit) = g[N]
  BY DEF TrimLines
<1> HIDE DEF body, g
<1>4. QED
  BY <1>1, <1>2, <1>3

\* Trimming ends with a bulletin that fits or has no line.
LEMMA TrimFact ==
    ASSUME NEW V, NEW sec0 \in [SectionNames -> Seq(V)], NEW limit
    PROVE  /\ Trimmed(V, sec0, TrimLines(sec0, limit))
           /\ Fits(TrimLines(sec0, limit), limit) \/ Lines(TrimLines(sec0, limit)) = 0
<1> DEFINE N == Lines(sec0)
<1>1. N \in Nat
  BY LinesFact
<1>2. PICK g : IsLoop(g, N, sec0, limit) /\ TrimLines(sec0, limit) = g[N]
  BY <1>1, TrimLoop
<1>3. /\ g[0] = sec0
      /\ \A n \in 0 .. N : n # 0 => g[n] = Round(g[n - 1], limit)
  BY <1>1, <1>2 DEF IsLoop
<1> DEFINE Good(n) == Trimmed(V, sec0, g[n]) /\ (Fits(g[n], limit) \/ Lines(g[n]) = N - n)
           S == {n \in 0 .. N : ~Good(n)}
<1>4. Good(0)
  <2>1. \A s \in SectionNames : sec0[s] \in Seq(V) /\ Len(sec0[s]) \in Nat
    OBVIOUS
  <2>2. Trimmed(V, sec0, sec0)
    BY <2>1, TrimOrder DEF Trimmed
  <2>3. QED
    BY <1>1, <1>3, <2>2
<1>5. ASSUME NEW n \in 0 .. N, n # 0, Good(n - 1) PROVE Good(n)
  <2>1. PICK m \in Nat : m = n - 1
    BY <1>1, <1>5
  <2>2. m \in 0 .. N /\ n = m + 1 /\ m < N
    BY <1>1, <2>1
  <2>3. Good(m) /\ g[n] = Round(g[m], limit)
    BY <1>3, <1>5, <2>1
  <2>4. CASE Fits(g[m], limit)
    BY <2>3, <2>4 DEF Round
  <2>5. CASE ~Fits(g[m], limit)
    <3>1. Trimmed(V, sec0, g[m]) /\ Lines(g[m]) = N - m /\ g[n] = PopLine(g[m])
      BY <2>3, <2>5 DEF Round
    <3>2. Lines(g[m]) # 0
      BY <1>1, <2>2, <3>1
    <3>3. Trimmed(V, sec0, PopLine(g[m])) /\ Lines(PopLine(g[m])) = Lines(g[m]) - 1
      BY <3>1, <3>2, PopTrims
    <3>4. QED
      BY <1>1, <2>2, <3>1, <3>3
  <2>6. QED
    BY <2>4, <2>5
<1> HIDE DEF Good
<1>6. S = {}
  <2>1. SUFFICES ASSUME S # {} PROVE FALSE
    OBVIOUS
  <2>2. S \subseteq Nat
    OBVIOUS
  <2>3. PICK k \in S : \A y \in S : k <= y
    <3> HIDE DEF S
    <3>1. QED
      BY <2>1, <2>2, LeastNumber
  <2>4. k \in 0 .. N /\ ~Good(k) /\ k # 0
    BY <1>4, <2>3
  <2>5. k - 1 \in 0 .. N /\ ~(k <= k - 1)
    BY <1>1, <2>4
  <2>6. Good(k - 1)
    BY <2>3, <2>5
  <2>7. QED
    BY <1>5, <2>4, <2>6
<1>7. Good(N)
  BY <1>1, <1>6
<1>8. QED
  BY <1>1, <1>2, <1>7 DEF Good

\* Dropping whole sections ends with a bulletin that fits: what was trimmed, or
\* sections without a line.
LEMMA DropFact ==
    ASSUME NEW V, NEW sec \in [SectionNames -> Seq(V)], NEW limit \in Nat,
           Fits(sec, limit) \/ Lines(sec) = 0
    PROVE  /\ Fits(DropSections(sec, limit), limit)
           /\ \/ DropSections(sec, limit) = sec
              \/ citations_for_sections(DropSections(sec, limit)) = {}
<1> DEFINE kept(n) == [s \in SectionNames \ {section_drop_order[i] : i \in 1 .. n} |-> sec[s]]
           fitting == {n \in 0 .. Len(section_drop_order) : Fits(kept(n), limit)}
<1>1. Len(section_drop_order) = 6
  BY DEF section_drop_order
<1>2. DropSections(sec, limit) = kept(Min(fitting))
  BY DEF DropSections
<1>3. kept(0) = sec
  <2>1. {section_drop_order[i] : i \in 1 .. 0} = {}
    OBVIOUS
  <2>2. QED
    BY <2>1
<1>4. Fits(kept(6), limit)
  <2>1. /\ section_drop_order[1] = Conflicts /\ section_drop_order[2] = Preferences
        /\ section_drop_order[3] = Knowledge /\ section_drop_order[4] = Decisions
        /\ section_drop_order[5] = Todos /\ section_drop_order[6] = Goals
    BY DEF section_drop_order
  <2>2. 1 \in 1 .. 6 /\ 2 \in 1 .. 6 /\ 3 \in 1 .. 6 /\ 4 \in 1 .. 6 /\ 5 \in 1 .. 6 /\ 6 \in 1 .. 6
    OBVIOUS
  <2>3. SectionNames \subseteq {section_drop_order[i] : i \in 1 .. 6}
    BY <2>1, <2>2 DEF SectionNames
  <2>4. DOMAIN kept(6) = {}
    BY <2>3
  <2>5. \A s : SectionLength(kept(6), s) = 0
    BY <2>4 DEF SectionLength
  <2> HIDE DEF kept
  <2>6. render_sections(kept(6)) = 0
    BY <2>5 DEF render_sections
  <2>7. QED
    BY <2>6 DEF Fits
<1>5. Min(fitting) \in fitting /\ \A n \in fitting : Min(fitting) <= n
  <2>1. fitting \in SUBSET (0 .. 6) /\ 6 \in fitting /\ 6 \in Nat
    BY <1>1, <1>4
  <2> HIDE DEF fitting
  <2>2. QED
    BY <2>1, MinFact
<1>6. PICK m : m = Min(fitting)
  OBVIOUS
<1>7. m \in 0 .. 6 /\ Fits(kept(m), limit) /\ DropSections(sec, limit) = kept(m)
  <2> HIDE DEF kept
  <2>1. QED
    BY <1>1, <1>2, <1>5, <1>6
<1>8. CASE Fits(sec, limit)
  <2>1. Fits(kept(0), limit)
    BY <1>3, <1>8
  <2>2. 0 \in fitting
    <3> HIDE DEF kept
    <3>1. QED
      BY <1>1, <2>1
  <2>3. m <= 0
    BY <1>5, <1>6, <2>2
  <2>4. m = 0
    BY <1>7, <2>3
  <2>5. DropSections(sec, limit) = sec
    <3> HIDE DEF kept
    <3>1. QED
      BY <1>3, <1>7, <2>4
  <2>6. QED
    BY <1>8, <2>5
<1>9. CASE Lines(sec) = 0
  <2>1. \A s \in SectionNames : sec[s] = <<>>
    BY <1>9, LinesFact
  <2>2. \A s \in DOMAIN kept(m) : kept(m)[s] = <<>>
    BY <2>1
  <2>3. Range(<<>>) = {}
    BY DEF Range
  <2> HIDE DEF kept
  <2>4. citations_for_sections(kept(m)) = {}
    BY <2>2, <2>3 DEF citations_for_sections
  <2>5. QED
    BY <1>7, <2>4
<1>10. QED
  BY <1>8, <1>9

\* A bulletin within its limit that leaves out a goal, a todo or a decision only
\* when everything it cites is at least as important.
Prior(recall, sections, limit) ==
    LET cited == citations_for_sections(sections)
    IN  /\ Fits(sections, limit)
        /\ \A id \in Range(recall) \ cited :
              NodeSection(id) \in {Goals, Todos, Decisions} =>
                  \A c \in cited : TrimRank(c) >= TrimRank(id)

LEMMA RankFact ==
    ASSUME NEW id, NEW i \in 1 .. 6, NodeSection(id) = trim_order[i]
    PROVE  TrimRank(id) = i
<1>1. \E k \in 1 .. Len(trim_order) : trim_order[k] = NodeSection(id)
  BY TrimOrder
<1>2. TrimRank(id) \in 1 .. Len(trim_order) /\ trim_order[TrimRank(id)] = NodeSection(id)
  BY <1>1 DEF TrimRank
<1>3. QED
  BY <1>2, TrimOrder

LEMMA BuildFact ==
    ASSUME NEW N \in Nat, NEW recall, DOMAIN recall = 1 .. N, NEW doubtful, NEW limit \in Nat,
           NEW section, \A id \in Range(recall) : section[id] = NodeSection(id)
    PROVE  Prior(recall, build_memory_bulletin(recall, section, doubtful, limit), limit)
<1> DEFINE V == Range(recall)
           ids(s) == IF s = Conflicts THEN doubtful ELSE {id \in V : section[id] = s}
           sec0 == [s \in SectionNames |-> LinesOf(recall, ids(s))]
           t == TrimLines(sec0, limit)
           out == DropSections(t, limit)
<1>1. build_memory_bulletin(recall, section, doubtful, limit) = out
  BY DEF build_memory_bulletin, truncate_sections
<1>2. \A s \in SectionNames : sec0[s] \in Seq(V) /\ Range(sec0[s]) = V \cap ids(s)
  <2> HIDE DEF ids
  <2>1. QED
    BY LinesOfFact
<1>3. sec0 \in [SectionNames -> Seq(V)]
  BY <1>2
<1>4. \A s \in SectionNames : s # Conflicts => Range(sec0[s]) = {id \in V : NodeSection(id) = s}
  <2>1. SUFFICES ASSUME NEW s \in SectionNames, s # Conflicts
                 PROVE  Range(sec0[s]) = {id \in V : NodeSection(id) = s}
    OBVIOUS
  <2>2. ids(s) = {id \in V : NodeSection(id) = s}
    BY <2>1
  <2> HIDE DEF ids, sec0, V
  <2>3. QED
    BY <1>2, <2>2
<1> HIDE DEF sec0, ids
<1>5. Trimmed(V, sec0, t) /\ (Fits(t, limit) \/ Lines(t) = 0)
  <2> HIDE DEF V
  <2>1. QED
    BY <1>3, TrimFact
<1> HIDE DEF t
<1>6. t \in [SectionNames -> Seq(V)]
  BY <1>5 DEF Trimmed
<1>7. Fits(out, limit) /\ (out = t \/ citations_for_sections(out) = {})
  <2> HIDE DEF V
  <2>1. QED
    BY <1>5, <1>6, DropFact
<1> HIDE DEF out, V
<1>8. CASE citations_for_sections(out) = {}
  BY <1>1, <1>7, <1>8 DEF Prior
<1>9. CASE out = t
  <2> DEFINE cited == citations_for_sections(t)
  <2>1. SUFFICES ASSUME NEW id \in V \ cited, NodeSection(id) \in {Goals, Todos, Decisions},
                        NEW c \in cited
                 PROVE  TrimRank(c) >= TrimRank(id)
    BY <1>1, <1>7, <1>9 DEF Prior, V
  <2>2. /\ trim_order[1] = Knowledge /\ trim_order[2] = Preferences /\ trim_order[3] = Conflicts
        /\ trim_order[4] = Decisions /\ trim_order[5] = Todos /\ trim_order[6] = Goals
    BY DEF trim_order
  <2>3. PICK r \in 4 .. 6 : NodeSection(id) = trim_order[r]
    BY <2>1, <2>2
  <2>4. trim_order[r] \in SectionNames /\ r \in 1 .. 6 /\ trim_order[r] # Conflicts
    <3>1. r \in 1 .. 6 /\ 3 \in 1 .. 6 /\ r # 3
      OBVIOUS
    <3>2. QED
      BY <2>2, <3>1, TrimOrder
  <2>5. PICK s \in SectionNames : s = trim_order[r]
    BY <2>4
  <2>6. id \in Range(sec0[s]) /\ id \notin Range(t[s])
    <3>1. id \in Range(sec0[s])
      BY <1>4, <2>1, <2>3, <2>4, <2>5
    <3>2. DOMAIN t = SectionNames
      BY <1>6
    <3>3. QED
      BY <2>1, <3>1, <3>2 DEF citations_for_sections
  <2>7. Len(t[s]) < Len(sec0[s])
    <3>1. /\ sec0[s] \in Seq(V) /\ t[s] \in Seq(V)
          /\ Len(t[s]) <= Len(sec0[s]) /\ \A k \in 1 .. Len(t[s]) : t[s][k] = sec0[s][k]
      BY <1>3, <1>5, <1>6 DEF Trimmed
    <3>2. /\ Len(t[s]) \in Nat /\ Len(sec0[s]) \in Nat
          /\ DOMAIN t[s] = 1 .. Len(t[s]) /\ DOMAIN sec0[s] = 1 .. Len(sec0[s])
      BY <3>1
    <3>3. Len(t[s]) # Len(sec0[s])
      BY <2>6, <3>1, <3>2 DEF Range
    <3>4. QED
      BY <3>1, <3>2, <3>3
  <2>8. \A j \in 1 .. 6 : j < r => t[trim_order[j]] = <<>>
    BY <1>5, <2>4, <2>5, <2>7 DEF Trimmed
  <2>9. PICK q \in SectionNames : c \in Range(t[q])
    BY <1>6, <2>1 DEF citations_for_sections
  <2>10. PICK j \in 1 .. 6 : trim_order[j] = q
    BY TrimOrder
  <2>11. t[q] # <<>>
    BY <2>9 DEF Range
  <2>12. j >= r
    BY <2>4, <2>8, <2>10, <2>11
  <2>13. q # Conflicts
    <3>1. 3 \in 1 .. 6 /\ j # 3
      BY <2>12
    <3>2. QED
      BY <2>2, <2>10, <3>1, TrimOrder
  <2>14. c \in Range(sec0[q])
    <3>1. /\ sec0[q] \in Seq(V) /\ t[q] \in Seq(V)
          /\ Len(t[q]) <= Len(sec0[q]) /\ \A k \in 1 .. Len(t[q]) : t[q][k] = sec0[q][k]
      BY <1>3, <1>5, <1>6 DEF Trimmed
    <3>2. /\ Len(t[q]) \in Nat /\ Len(sec0[q]) \in Nat
          /\ DOMAIN t[q] = 1 .. Len(t[q]) /\ DOMAIN sec0[q] = 1 .. Len(sec0[q])
      BY <3>1
    <3>3. QED
      BY <2>9, <3>1, <3>2 DEF Range
  <2>15. NodeSection(c) = trim_order[j]
    BY <1>4, <2>10, <2>13, <2>14
  <2>16. TrimRank(c) = j /\ TrimRank(id) = r
    BY <2>3, <2>4, <2>15, RankFact
  <2>17. QED
    BY <2>12, <2>16
<1>10. QED
  BY <1>7, <1>8, <1>9

LimitOK == "limit" \in DOMAIN budget /\ budget.limit \in Nat

FreshOK(b, limit) == b.kind = "fresh" => Prior(b.recalled, b.sections, limit)

PriorInv == ShownInv /\ LimitOK /\ \A k \in DOMAIN bulletins : FreshOK(bulletins[k], budget.limit)

\* What may still happen changes, the limit does not.
LEMMA LimitStays ==
    ASSUME LimitOK, [Next]_vars
    PROVE  LimitOK' /\ budget'.limit = budget.limit
<1>1. ASSUME NEW kind, kind # "limit", Spend(kind) PROVE LimitOK' /\ budget'.limit = budget.limit
  BY <1>1 DEF Spend, LimitOK
<1>2. CASE DropFile
  BY <1>2 DEF DropFile, LimitOK
<1>3. ASSUME NEW m \in Messages, ProcessMessage(m) PROVE LimitOK' /\ budget'.limit = budget.limit
  BY <1>3 DEF ProcessMessage, LimitOK
<1>4. CASE UNCHANGED budget
  BY <1>4 DEF LimitOK
<1>5. CASE \/ TickBegin \/ TickEnd \/ TickError \/ ReadFile
           \/ RejectFile \/ SkipDuplicate \/ MoveToProcessed \/ ExtractionFails
           \/ PersistFile \/ PersistFileFails \/ EmbedFile
           \/ persist_workflow_output_memories \/ EmbedStep \/ UNCHANGED vars
           \/ Tick \/ RelocateWorkspace \/ Crash
  <2>1. UNCHANGED budget \/ Spend("faults") \/ Spend("attempts") \/ Spend("ticks") \/ Spend("moves")
        \/ Spend("crashes")
    BY <1>5 DEF TickBegin, TickEnd, TickError, ReadFile, RejectFile, SkipDuplicate, MoveToProcessed,
         ExtractionFails, PersistFile, PersistFileFails, EmbedFile, persist_workflow_output_memories,
         EmbedStep, vars, Tick, RelocateWorkspace, Crash, Reject
  <2>2. QED
    BY <1>1, <1>4, <2>1
<1>6. ASSUME NEW m \in Messages,
             \/ RepositoryUnavailable(m) \/ persist_transcript_observation(m) \/ EmbedTranscript(m)
             \/ Recall(m) \/ RecallFails(m) \/ BulletinFails(m)
      PROVE  UNCHANGED budget \/ Spend("faults")
  BY <1>6 DEF RepositoryUnavailable, persist_transcript_observation, EmbedTranscript, Recall,
              RecallFails, BulletinFails
<1>7. QED
  BY <1>1, <1>2, <1>3, <1>4, <1>5, <1>6 DEF Next

LEMMA FreshOver ==
    ASSUME NEW new, NEW old, NEW limit, \A k \in DOMAIN new : FreshOK(new[k], limit),
           \A k \in DOMAIN old : FreshOK(old[k], limit)
    PROVE  \A k \in DOMAIN Over(new, old) : FreshOK(Over(new, old)[k], limit)
<1>1. SUFFICES ASSUME NEW k \in DOMAIN Over(new, old) PROVE FreshOK(Over(new, old)[k], limit)
  OBVIOUS
<1>2. /\ DOMAIN Over(new, old) = DOMAIN new \cup DOMAIN old
      /\ \A x \in DOMAIN new : Over(new, old)[x] = new[x]
      /\ \A x \in DOMAIN old : x \notin DOMAIN new => Over(new, old)[x] = old[x]
  BY OverFact
<1>3. QED
  BY <1>1, <1>2

LEMMA FreshSave ==
    ASSUME PriorInv, NEW m, NEW b, Whole(b), Save(m, b), FreshOK(b, budget.limit)
    PROVE  \A k \in DOMAIN bulletins' : FreshOK(bulletins'[k], budget.limit)
<1> DEFINE b2 == [b EXCEPT !.mtime = clock]
           new == [k \in {m} |-> b2]
<1>1. b2.kind = b.kind /\ b2.recalled = b.recalled /\ b2.sections = b.sections
  BY WholeFact
<1>2. bulletins' = Over(new, bulletins)
  BY DEF Save
<1> HIDE DEF b2
<1>3. \A k \in DOMAIN new : FreshOK(new[k], budget.limit)
  BY <1>1 DEF FreshOK
<1> HIDE DEF new
<1>4. QED
  BY <1>2, <1>3, FreshOver DEF PriorInv

LEMMA FreshRecall ==
    ASSUME PriorInv, NEW m \in Messages, Recall(m)
    PROVE  \A k \in DOMAIN bulletins' : FreshOK(bulletins'[k], budget.limit)
<1>1. PICK text \in query_full_text : \E recall \in fuse_rankings(text) :
         Save(m, [kind |-> "fresh", gen |-> msg[m].now, mtime |-> 0, recalled |-> recall,
                     sections |-> build_memory_bulletin(
                         recall, [id \in Range(recall) |-> NodeSection(id)],
                         load_unresolved_contradiction_ids, budget.limit)])
  BY DEF Recall
<1>2. PICK recall \in fuse_rankings(text) :
         Save(m, [kind |-> "fresh", gen |-> msg[m].now, mtime |-> 0, recalled |-> recall,
                     sections |-> build_memory_bulletin(
                         recall, [id \in Range(recall) |-> NodeSection(id)],
                         load_unresolved_contradiction_ids, budget.limit)])
  BY <1>1
<1>3. PICK N \in Nat : DOMAIN recall = 1 .. N
  BY <1>2, LimitsAreNumbers DEF fuse_rankings, SeqOf
<1> DEFINE section == [id \in Range(recall) |-> NodeSection(id)]
           sections == build_memory_bulletin(recall, section, load_unresolved_contradiction_ids, budget.limit)
           b == [kind |-> "fresh", gen |-> msg[m].now, mtime |-> 0, recalled |-> recall,
                 sections |-> sections]
<1>4. \A id \in Range(recall) : section[id] = NodeSection(id)
  OBVIOUS
<1>5. Save(m, b)
  BY <1>2
<1> HIDE DEF section
<1>6. Prior(recall, sections, budget.limit)
  BY <1>3, <1>4, BuildFact DEF PriorInv, LimitOK
<1> HIDE DEF sections
<1>7. Whole(b) /\ FreshOK(b, budget.limit)
  BY <1>6 DEF Whole, FreshOK
<1> HIDE DEF b
<1>8. QED
  BY <1>5, <1>7, FreshSave

LEMMA FreshFallback ==
    ASSUME PriorInv, NEW m \in Messages, RecallFails(m)
    PROVE  \A k \in DOMAIN bulletins' : FreshOK(bulletins'[k], budget.limit)
<1>1. CASE Snapshots(m) = {}
  <2> DEFINE b == EmptyBulletin(msg[m].now)
  <2>1. Whole(b) /\ Save(m, b) /\ FreshOK(b, budget.limit)
    BY <1>1 DEF Whole, EmptyBulletin, RecallFails, FreshOK
  <2> HIDE DEF b
  <2>2. QED
    BY <2>1, FreshSave
<1>2. CASE Snapshots(m) # {}
  <2>1. PICK k \in load_latest_bulletin(m) :
          Save(m, [bulletins[k] EXCEPT !.kind = IF @ = "empty" THEN @ ELSE "copy"])
    BY <1>2 DEF RecallFails
  <2> DEFINE b == [bulletins[k] EXCEPT !.kind = IF @ = "empty" THEN @ ELSE "copy"]
  <2>2. k \in DOMAIN bulletins
    BY <2>1 DEF load_latest_bulletin, Snapshots
  <2>3. PICK kind, gen, mtime, recalled, sections :
          bulletins[k] = [kind |-> kind, gen |-> gen, mtime |-> mtime, recalled |-> recalled,
                          sections |-> sections]
    BY <2>2, ShapeIsWhole DEF PriorInv, ShownInv, Whole
  <2>4. b = [kind |-> IF kind = "empty" THEN kind ELSE "copy", gen |-> gen, mtime |-> mtime,
             recalled |-> recalled, sections |-> sections]
    BY <2>3
  <2>5. Whole(b) /\ b.kind # "fresh" /\ Save(m, b)
    <3>1. Whole(b)
      <4> HIDE DEF b
      <4>1. QED
        BY <2>4 DEF Whole
    <3>2. b.kind # "fresh"
      BY <2>4
    <3>3. QED
      BY <2>1, <3>1, <3>2
  <2> HIDE DEF b
  <2>6. QED
    BY <2>5, FreshSave DEF FreshOK
<1>3. QED
  BY <1>1, <1>2

LEMMA PriorNext == ASSUME PriorInv, [Next]_vars PROVE PriorInv'
<1>1. ShownInv' /\ LimitOK' /\ budget'.limit = budget.limit
  BY ShownNext, LimitStays DEF PriorInv
<1>2. \A k \in DOMAIN bulletins' : FreshOK(bulletins'[k], budget.limit)
  <2>1. CASE UNCHANGED bulletins
    BY <2>1 DEF PriorInv
  <2>2. CASE Crash \/ \E m \in Messages : BulletinFails(m)
    <3>1. PICK torn : bulletins' = Over([m \in torn |-> Torn], bulletins)
      BY <2>2 DEF Crash, BulletinFails
    <3> DEFINE new == [m \in torn |-> Torn]
    <3>2. \A k \in DOMAIN new : new[k].kind = "torn"
      BY TornWhole
    <3>3. bulletins' = Over(new, bulletins)
      BY <3>1
    <3> HIDE DEF new
    <3>4. \A k \in DOMAIN new : FreshOK(new[k], budget.limit)
      BY <3>2 DEF FreshOK
    <3>5. QED
      BY <3>3, <3>4, FreshOver DEF PriorInv
  <2>3. ASSUME NEW m \in Messages,
               \/ ProcessMessage(m) \/ RepositoryUnavailable(m)
               \/ persist_transcript_observation(m) \/ EmbedTranscript(m)
        PROVE  UNCHANGED bulletins
    BY <2>3 DEF ProcessMessage, RepositoryUnavailable, persist_transcript_observation, EmbedTranscript
  <2>4. ASSUME \/ UNCHANGED vars \/ DropFile \/ Tick \/ RelocateWorkspace \/ TickBegin \/ TickEnd
               \/ TickError \/ ReadFile \/ RejectFile \/ SkipDuplicate \/ MoveToProcessed
               \/ ExtractionFails \/ PersistFile \/ PersistFileFails \/ EmbedFile
               \/ persist_workflow_output_memories \/ EmbedStep
        PROVE  UNCHANGED bulletins
    BY <2>4 DEF vars, DropFile, Tick, RelocateWorkspace, TickBegin, TickEnd, TickError, ReadFile,
                RejectFile, SkipDuplicate, MoveToProcessed, ExtractionFails, PersistFile,
                PersistFileFails, Reject, EmbedFile, persist_workflow_output_memories, EmbedStep
  <2>5. QED
    BY <2>1, <2>2, <2>3, <2>4, FreshRecall, FreshFallback DEF Next
<1>3. QED
  BY <1>1, <1>2 DEF PriorInv

(* However much is recalled and however small the limit, a bulletin is      *)
(* within its limit, and a recalled goal, todo or decision is left out of   *)
(* it only when everything it still cites is at least as important          *)
(* (memory/bulletin.rs).                                                    *)
THEOREM BulletinsKeepPriorities == Spec => []BulletinKeepsPriorities
<1>1. Init => PriorInv
  <2>1. Init => ShownInv
    BY ShownInit
  <2>2. Init => LimitOK
    BY LimitsAreNumbers DEF Init, LimitOK
  <2>3. Init => bulletins = <<>>
    BY DEF Init
  <2>4. Init => DOMAIN bulletins = {}
    BY <2>3
  <2>5. QED
    BY <2>1, <2>2, <2>4 DEF PriorInv
<1>2. PriorInv /\ [Next]_vars => PriorInv'
  BY PriorNext
<1>3. PriorInv => BulletinKeepsPriorities
  BY DEF PriorInv, FreshOK, Prior, BulletinKeepsPriorities
<1>4. QED
  BY <1>1, <1>2, <1>3, PTL DEF Spec
=============================================================================
