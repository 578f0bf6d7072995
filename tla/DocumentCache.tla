--------------------------- MODULE DocumentCache ---------------------------
(***************************************************************************)
(* The cache of converted books (src/modules/books/document): the text of  *)
(* a book is converted once and kept as ".bin", with a ".meta" that says   *)
(* whether it is complete and which files it was made from.  Both are      *)
(* replaced through storage_file.c, whose steps are those of StorageFile,  *)
(* one instance for each of the two files.                                 *)
(*                                                                         *)
(* The model follows one base name, that is one source file of one size    *)
(* and time, and the documents opened for it.  The UI thread opens, closes *)
(* and disposes of them, one worker converts; they meet at the storage     *)
(* lock, which "job" stands for: while it is not free, a worker's sequence *)
(* of file operations holds the lock.  The source is on the card; the      *)
(* cache is on the card or on the flash (Card), with the application.      *)
(* All conversions are taken to have the same length, so that the length   *)
(* in the meta tells less here than it does in the code.                   *)
(***************************************************************************)
EXTENDS Naturals

CONSTANTS Docs,         \* documents that may be open for this book
          NoDoc,
          Card,         \* the cache directory is on the card
          None, Torn,   \* as in StorageFile
          Bad,          \* a binary the medium has damaged
          MaxDep,       \* bound: states of the pictures a Markdown book refers to
          MaxSession    \* bound: sessions of the card; a restart begins one, too

ASSUME CacheAssumption ==
  /\ NoDoc \notin Docs
  /\ Card \in BOOLEAN
  /\ {MaxDep, MaxSession} \subseteq Nat \ {0}
  /\ {None, Torn, Bad} \cap (0 .. MaxDep) = {}
  /\ None # Torn /\ Bad \notin {None, Torn}

VARIABLES meta, metaOp,    \* the ".meta" file: 0 incomplete, k complete for dependencies k
          bin, binOp,      \* the ".bin" file: k the text made with dependencies k
          dep,             \* the dependencies as they are now
          available,       \* the card can be used
          session,         \* storage_card_session
          doc,             \* document_t and its document_cache_t
          worker,          \* worker_document
          job,             \* who holds the storage lock, and how far it is
          reuse_disabled,
          condemned        \* history, of the text that is kept: whether a finding that it
                           \* is bad was taken up, and has left its mark on the medium

vars == <<meta, metaOp, bin, binOp, dep, available, session, doc, worker, job,
          reuse_disabled, condemned>>
fileVars == <<meta, metaOp, bin, binOp>>

Versions == 1 .. MaxDep
Incomplete == 0

Meta == INSTANCE StorageFile WITH
  file <- meta, op <- metaOp, Contents <- 0 .. MaxDep, available <- ~Card \/ available
Bin == INSTANCE StorageFile WITH
  file <- bin, op <- binOp, Contents <- Versions \cup {Bad}, available <- ~Card \/ available

Closed == [open |-> FALSE, gen |-> 0, claimed |-> FALSE, stopped |-> FALSE, released |-> FALSE,
           persistent |-> FALSE, identity |-> 0, invalid |-> FALSE, prepared |-> FALSE,
           snap |-> 0, cache |-> "none", bad |-> FALSE, touch |-> FALSE]

DocRecords == [open : BOOLEAN, gen : 0 .. MaxSession, claimed : BOOLEAN, stopped : BOOLEAN,
               released : BOOLEAN, persistent : BOOLEAN, identity : 0 .. MaxDep,
               invalid : BOOLEAN, prepared : BOOLEAN, snap : 0 .. MaxDep,
               cache : {"none", "tmp", "bin"}, bad : BOOLEAN, touch : BOOLEAN]

Free == [pc |-> "free", doc |-> NoDoc]
\* (seeded fault) The mark itself goes before its ".old".
SuffixesMarkFirst == <<"meta", "meta.tmp", "meta.old", "bin", "bin.old", "bin.tmp">>
Suffixes == <<"meta.old", "meta.tmp", "meta", "bin", "bin.old", "bin.tmp">>
JobSteps == {"free", "prepare", "binary", "complete", "invalidate", "touch"} \cup
            {Suffixes[i] : i \in 1 .. 6}

Findings == {"no", "condemned", "marked"}

TypeOK ==
  /\ meta \in Meta!Files /\ metaOp \in Meta!Ops
  /\ bin \in Bin!Files /\ binOp \in Bin!Ops
  /\ dep \in Versions
  /\ available \in BOOLEAN
  /\ session \in 1 .. MaxSession
  /\ doc \in [Docs -> DocRecords]
  /\ worker \in Docs \cup {NoDoc}
  /\ job \in [pc : JobSteps, doc : Docs \cup {NoDoc}]
  /\ reuse_disabled \in BOOLEAN
  /\ condemned \in Findings

Init ==
  /\ meta = Meta!NoFile /\ metaOp = Meta!Idle
  /\ bin = Bin!NoFile /\ binOp = Bin!Idle
  /\ dep = 1
  /\ available = TRUE
  /\ session = 1
  /\ doc = [d \in Docs |-> Closed]
  /\ worker = NoDoc
  /\ job = Free
  /\ reuse_disabled = FALSE
  /\ condemned = "no"

(***************************************************************************)
(* What the code asks.                                                     *)
(***************************************************************************)
InSession(gen) == available /\ gen = session
valid(d) == doc[d].open /\ InSession(doc[d].gen)
\* (seeded fault) Other documents of the base are not looked for.
OthersUnseen(d) == {}
Others(d) == {p \in Docs \ {d} : valid(p)}
cancelled(d) == doc[d].released \/ ~InSession(doc[d].gen)
LockFree == job.pc = "free"
DirUsable == ~Card \/ available

Set(d, fields) == doc' = [doc EXCEPT ![d] = fields]
Enter(pc, d) == job' = [pc |-> pc, doc |-> d]

\* The documents document_service_process may free.
Disposable(d) ==
  /\ doc[d].open /\ doc[d].released
  /\ doc[d].stopped \/ ~doc[d].claimed
  /\ worker # d
  /\ ~doc[d].bad

(***************************************************************************)
(* The UI thread.                                                          *)
(***************************************************************************)
\* document_cache_lookup would reuse what is on the medium.
Reusable ==
  /\ ~reuse_disabled
  /\ \A p \in {p \in Docs : valid(p)} : ~doc[p].invalid /\ ~doc[p].prepared
  /\ Meta!Effective(meta) = dep
  /\ Bin!Effective(bin) # None

\* document_open: documents that are over are freed first (document_service_process);
\* a read or an allocation of the look-up may fail, which is a miss.
document_open(d) ==
  /\ LockFree
  /\ ~doc[d].open
  /\ \A p \in Docs : ~Disposable(p)
  /\ available
  /\ \E hit \in BOOLEAN :
       /\ hit => Reusable
       /\ Set(d, [Closed EXCEPT !.open = TRUE, !.gen = session,
                    !.invalid = \E p \in Docs : valid(p) /\ doc[p].invalid,
                    !.identity = IF hit THEN dep ELSE 0,
                    !.persistent = hit, !.claimed = hit, !.stopped = hit, !.touch = hit,
                    !.cache = IF hit THEN "bin" ELSE "none"])
       /\ meta' \in {Meta!Recovered(meta)} \cup (IF hit THEN {} ELSE {meta})
       /\ bin' = IF hit THEN Bin!Recovered(bin) ELSE bin
  /\ UNCHANGED <<metaOp, binOp, dep, available, session, worker, job, reuse_disabled, condemned>>

document_close(d) ==
  /\ doc[d].open /\ ~doc[d].released
  /\ Set(d, [doc[d] EXCEPT !.released = TRUE])
  /\ UNCHANGED <<fileVars, dep, available, session, worker, job, reuse_disabled, condemned>>

\* A read of the kept text fails: cache_read_failed.
cache_read_failed(d) ==
  /\ LockFree
  /\ doc[d].open /\ doc[d].persistent /\ ~cancelled(d)
  /\ Bin!Effective(bin) = Bad
  /\ Set(d, [doc[d] EXCEPT !.bad = TRUE, !.stopped = FALSE])
  /\ UNCHANGED <<fileVars, dep, available, session, worker, job, reuse_disabled, condemned>>

\* document_service_process frees a document, and its file unless that is kept.
Dispose(d) ==
  /\ LockFree
  /\ Disposable(d)
  /\ IF doc[d].cache = "bin" /\ ~doc[d].persistent /\ (~Card \/ InSession(doc[d].gen))
     THEN bin' \in {bin, [bin EXCEPT !.path = None]}
     ELSE UNCHANGED bin
  /\ Set(d, Closed)
  /\ UNCHANGED <<meta, metaOp, binOp, dep, available, session, worker, job, reuse_disabled, condemned>>

(***************************************************************************)
(* The worker: document_worker_step takes a document, converts it if it is *)
(* new, or sees to its kept text.                                          *)
(***************************************************************************)
WorkerTake(d) ==
  /\ worker = NoDoc
  /\ doc[d].open
  /\ doc[d].bad \/ doc[d].touch \/ ~doc[d].stopped
  /\ worker' = d
  /\ UNCHANGED <<fileVars, dep, available, session, doc, job, reuse_disabled, condemned>>

\* convert: the observation of dependencies begins with an empty list, not prepared.
ConvertBegin(d) ==
  /\ LockFree
  /\ worker = d /\ ~doc[d].claimed /\ ~cancelled(d)
  /\ Set(d, [doc[d] EXCEPT !.claimed = TRUE, !.prepared = FALSE, !.snap = dep, !.cache = "tmp"])
  /\ UNCHANGED <<fileVars, dep, available, session, worker, job, reuse_disabled, condemned>>

\* (seeded fault) The new text takes its name while the old meta still says complete.
ConvertKeepUnmarked(d) ==
  /\ LockFree
  /\ worker = d /\ doc[d].snap # 0
  /\ ~cancelled(d) /\ Others(d) = {}
  /\ Set(d, [doc[d] EXCEPT !.identity = 0, !.prepared = TRUE, !.invalid = FALSE])
  /\ Bin!StartCommit(doc[d].snap)
  /\ Enter("binary", d)
  /\ UNCHANGED <<meta, metaOp, dep, available, session, worker, reuse_disabled, condemned>>

\* The conversion is over and may be kept: the lock is taken for the three files'
\* worth of work.  document_cache_prepare refuses while another document is open.
ConvertKeep(d) ==
  /\ LockFree
  /\ worker = d /\ doc[d].snap # 0
  /\ ~cancelled(d) /\ Others(d) = {}
  /\ Set(d, [doc[d] EXCEPT !.identity = 0])
  /\ Meta!StartReplace(Incomplete)
  /\ Enter("prepare", d)
  /\ UNCHANGED <<meta, bin, binOp, dep, available, session, worker, reuse_disabled, condemned>>

\* The marker is there: the readers of the temporary file are closed, it takes its name.
Prepared ==
  /\ job.pc = "prepare" /\ metaOp.pc = "end"
  /\ metaOp' = Meta!Idle
  /\ IF metaOp.ok /\ valid(job.doc)
     THEN /\ Set(job.doc, [doc[job.doc] EXCEPT !.prepared = TRUE, !.invalid = FALSE])
          /\ Bin!StartCommit(doc[job.doc].snap)
          /\ Enter("binary", job.doc)
     ELSE Set(job.doc, [doc[job.doc] EXCEPT !.snap = 0]) /\ job' = Free /\ UNCHANGED <<bin, binOp>>
  /\ UNCHANGED <<meta, dep, available, session, worker, reuse_disabled, condemned>>

\* document_cache_commit, its tests first.
BinaryKept ==
  /\ job.pc = "binary" /\ binOp.pc = "end"
  /\ binOp' = Bin!Idle
  /\ LET d == job.doc
         committed == doc[d].prepared /\ ~doc[d].invalid /\ valid(d) /\ doc[d].snap = dep
         kept == [doc[d] EXCEPT !.cache = IF binOp.ok THEN "bin" ELSE "tmp"]
     IN  IF binOp.ok /\ committed
         THEN Set(d, kept) /\ Meta!StartReplace(doc[d].snap) /\ Enter("complete", d)
         ELSE Set(d, [kept EXCEPT !.snap = 0]) /\ job' = Free /\ UNCHANGED metaOp
  /\ condemned' = IF binOp.ok THEN "no" ELSE condemned
  /\ UNCHANGED <<meta, bin, dep, available, session, worker, reuse_disabled>>

Completed ==
  /\ job.pc = "complete" /\ metaOp.pc = "end"
  /\ metaOp' = Meta!Idle
  /\ LET d == job.doc
     IN  Set(d, IF metaOp.ok /\ valid(d)
                THEN [doc[d] EXCEPT !.identity = doc[d].snap, !.prepared = FALSE, !.persistent = TRUE, !.snap = 0]
                ELSE [doc[d] EXCEPT !.snap = 0])
  /\ job' = Free
  /\ UNCHANGED <<meta, bin, binOp, dep, available, session, worker, reuse_disabled, condemned>>

\* document_cache_invalidate: whoever has this base open learns of it.
InvalidateBegin(d) ==
  /\ LockFree
  /\ worker = d /\ doc[d].bad
  /\ condemned' = IF condemned = "marked" THEN "marked" ELSE "condemned"
  /\ LET told == [p \in Docs |-> IF doc[p].open /\ doc[p].gen = doc[d].gen
                                 THEN [doc[p] EXCEPT !.invalid = TRUE, !.identity = 0] ELSE doc[p]]
     IN  IF valid(d)
         THEN /\ doc' = told
              /\ Meta!StartReplace(Incomplete) /\ Enter("invalidate", d)
              /\ UNCHANGED reuse_disabled
         ELSE /\ doc' = [told EXCEPT ![d].bad = FALSE, ![d].touch = FALSE]
              /\ reuse_disabled' = TRUE
              /\ UNCHANGED <<metaOp, job>>
  /\ UNCHANGED <<meta, bin, binOp, dep, available, session, worker>>

\* (seeded fault) A mark that could not be written is forgotten.
InvalidatedAnyway ==
  /\ job.pc = "invalidate" /\ metaOp.pc = "end"
  /\ metaOp' = Meta!Idle
  /\ condemned' = IF metaOp.ok THEN "marked" ELSE condemned
  /\ Set(job.doc, [doc[job.doc] EXCEPT !.bad = FALSE, !.touch = FALSE])
  /\ job' = Free
  /\ UNCHANGED <<meta, bin, binOp, dep, available, session, worker, reuse_disabled>>

Invalidated ==
  /\ job.pc = "invalidate" /\ metaOp.pc = "end"
  /\ metaOp' = Meta!Idle
  /\ reuse_disabled' = (reuse_disabled \/ ~metaOp.ok \/ ~valid(job.doc))
  /\ condemned' = IF metaOp.ok THEN "marked" ELSE condemned
  /\ Set(job.doc, [doc[job.doc] EXCEPT !.bad = FALSE, !.touch = FALSE])
  /\ job' = Free
  /\ UNCHANGED <<meta, bin, binOp, dep, available, session, worker>>

\* document_cache_touch rewrites the same meta with the time of this use.
TouchBegin(d) ==
  /\ LockFree
  /\ worker = d /\ doc[d].touch /\ ~doc[d].bad /\ doc[d].claimed
  /\ Set(d, [doc[d] EXCEPT !.touch = FALSE])
  /\ IF /\ ~cancelled(d) /\ ~doc[d].invalid /\ doc[d].identity # 0
        /\ Meta!Effective(meta) = doc[d].identity
     THEN /\ meta' = Meta!Recovered(meta)
          /\ Meta!StartReplace(doc[d].identity)
          /\ Enter("touch", d)
     ELSE UNCHANGED <<meta, metaOp, job>>
  /\ UNCHANGED <<bin, binOp, dep, available, session, worker, reuse_disabled, condemned>>

Touched ==
  /\ job.pc = "touch" /\ metaOp.pc = "end"
  /\ metaOp' = Meta!Idle
  /\ job' = Free
  /\ UNCHANGED <<meta, bin, binOp, dep, available, session, doc, worker, reuse_disabled, condemned>>

\* The end of document_worker_step.  A read may have failed since it looked.
WorkerDone(d) ==
  /\ LockFree
  /\ worker = d
  /\ doc[d].claimed \/ cancelled(d)
  /\ ~doc[d].touch
  /\ Set(d, [doc[d] EXCEPT !.snap = 0, !.stopped = cancelled(d) \/ ~doc[d].bad])
  /\ worker' = NoDoc
  /\ UNCHANGED <<fileVars, dep, available, session, job, reuse_disabled, condemned>>

(***************************************************************************)
(* document_cache_reclaim, called while another book is converted and the  *)
(* medium is full: the files of a base nobody has open go, in this order.  *)
(***************************************************************************)
ReclaimBegin ==
  /\ LockFree
  /\ available
  /\ worker = NoDoc
  /\ \A d \in Docs : ~valid(d)
  /\ Meta!Effective(meta) # None
  /\ meta' = Meta!Recovered(meta)
  /\ Enter(Suffixes[1], NoDoc)
  /\ UNCHANGED <<metaOp, bin, binOp, dep, available, session, doc, worker, reuse_disabled, condemned>>

\* The unlink of one file; the sweep ends with the last one or the first that fails.
ReclaimOne(i) ==
  /\ job.pc = Suffixes[i]
  /\ \/ /\ available
        /\ meta' = CASE job.pc = "meta.old" -> [meta EXCEPT !.old = None]
                     [] job.pc = "meta.tmp" -> [meta EXCEPT !.tmp = None]
                     [] job.pc = "meta"     -> [meta EXCEPT !.path = None]
                     [] OTHER -> meta
        /\ bin' = CASE job.pc = "bin"     -> [bin EXCEPT !.path = None]
                    [] job.pc = "bin.old" -> [bin EXCEPT !.old = None]
                    [] job.pc = "bin.tmp" -> [bin EXCEPT !.tmp = None]
                    [] OTHER -> bin
        /\ IF i = 6 THEN job' = Free ELSE Enter(Suffixes[i + 1], NoDoc)
     \/ job' = Free /\ UNCHANGED <<meta, bin>>
  /\ UNCHANGED <<metaOp, binOp, dep, available, session, doc, worker, reuse_disabled, condemned>>

document_cache_reclaim == ReclaimBegin \/ \E i \in 1 .. 6 : ReclaimOne(i)

(***************************************************************************)
(* The files, and the world.                                               *)
(***************************************************************************)
MetaStep ==
  /\ Meta!Step
  /\ UNCHANGED <<bin, binOp, dep, available, session, doc, worker, job, reuse_disabled, condemned>>

BinStep ==
  /\ Bin!Step
  /\ UNCHANGED <<meta, metaOp, dep, available, session, doc, worker, job, reuse_disabled, condemned>>

\* A picture of the book is replaced.
DependencyChanges ==
  /\ dep < MaxDep
  /\ dep' = dep + 1
  /\ UNCHANGED <<fileVars, available, session, doc, worker, job, reuse_disabled, condemned>>

\* The medium damages the text.
Damage ==
  /\ LockFree
  /\ bin.path \in Versions
  /\ bin' = [bin EXCEPT !.path = Bad]
  /\ UNCHANGED <<meta, metaOp, binOp, dep, available, session, doc, worker, job, reuse_disabled, condemned>>

RemoveCard ==
  /\ available
  /\ available' = FALSE
  /\ UNCHANGED <<fileVars, dep, session, doc, worker, job, reuse_disabled, condemned>>

\* The same card is mounted again, which takes the storage lock.
InsertCard ==
  /\ LockFree
  /\ ~available
  /\ session < MaxSession
  /\ available' = TRUE
  /\ session' = session + 1
  /\ UNCHANGED <<fileVars, dep, doc, worker, job, reuse_disabled, condemned>>

PowerFailure ==
  /\ session < MaxSession
  /\ meta' = Meta!AfterPowerFailure(meta) /\ metaOp' = Meta!Idle
  /\ bin' = Bin!AfterPowerFailure(bin) /\ binOp' = Bin!Idle
  /\ available' = TRUE
  /\ session' = session + 1
  /\ doc' = [d \in Docs |-> Closed]
  /\ worker' = NoDoc
  /\ job' = Free
  /\ reuse_disabled' = FALSE
  /\ condemned' = IF condemned = "marked" THEN "marked" ELSE "no"
  /\ UNCHANGED dep

Ui(d) == document_open(d) \/ document_close(d) \/ cache_read_failed(d) \/ Dispose(d)

convert(d) == ConvertBegin(d) \/ ConvertKeep(d)

WorkerStep(d) == WorkerTake(d) \/ convert(d) \/ InvalidateBegin(d) \/ TouchBegin(d) \/ WorkerDone(d)

LockHeld == Prepared \/ BinaryKept \/ Completed \/ Invalidated \/ Touched

World == DependencyChanges \/ Damage \/ RemoveCard \/ InsertCard \/ PowerFailure

Next ==
  \/ \E d \in Docs : Ui(d) \/ WorkerStep(d)
  \/ LockHeld
  \/ document_cache_reclaim
  \/ MetaStep \/ BinStep
  \/ World

Spec == Init /\ [][Next]_vars

(***************************************************************************)
(* Properties.                                                             *)
(***************************************************************************)
\* A meta that says complete stands beside the very text it was written for, unless
\* the medium damaged that: whatever combination of files a removal, a failed rename,
\* a failed deletion or a power failure left, and whoever recovers which file first.
CompleteMeansKept ==
  Meta!Effective(meta) \in Versions =>
    Bin!Effective(bin) \in {Meta!Effective(meta), Bad}

\* The text a document reads is never replaced or removed under it.
NeverReplacedUnderReader ==
  /\ TypeOK
  /\ \A d \in Docs : valid(d) /\ doc[d].persistent /\ LockFree /\ doc[d].identity # 0 =>
       Bin!Effective(bin) \in {doc[d].identity, Bad}

\* A reader's finding that the kept text is bad is not lost: its document is not freed
\* before the worker has taken the finding up.  From then on no document opens with this
\* text until it was made again, not even when the mark could not be written because the
\* card had gone; and once the mark was written the text stays condemned on the medium,
\* through touches, removals and power failures.  Until the worker comes,
\* document_cache_lookup knows nothing of the finding and another document may still hit;
\* a finding whose mark could not be written is forgotten with the power.
NoReuseOfCondemned ==
  [][ \A d \in Docs :
        /\ doc[d].open /\ doc[d].bad /\ ~doc'[d].bad => condemned' # "no" \/ session' # session
        /\ ~doc[d].open /\ doc'[d].persistent => condemned = "no"
        /\ condemned' = "marked" => Meta!Effective(meta)' \notin Versions ]_vars

\* The meta keeps the promise of a replaced file through all of this; in
\* particular a complete mark never comes back once it was deleted.
MetaKeepsPromise == Meta!Promise!Spec
=============================================================================
