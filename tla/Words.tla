------------------------------- MODULE Words -------------------------------
(***************************************************************************)
(* The vocabulary application (src/modules/words): one worker executes the *)
(* jobs the pages submit (words_service.c) over records that live in files *)
(* of a few records each, one of which is in memory, and a configuration   *)
(* file (words_store.c).                                                   *)
(*                                                                         *)
(* Actors: the worker, one step per lock-free stretch; the pages, which    *)
(* run on the UI thread with interrupts off inside the service; the medium *)
(* of the application, which may refuse any read or save; and the power.   *)
(* A save is the replacement of DurableFile: it takes effect at one point, *)
(* and the answer says whether it did.  Which learned card is due, and     *)
(* what FSRS makes of a rating, are left open.  A record's text in         *)
(* content.bin is appended and synced before the record and is not         *)
(* followed further.  Slots count from 1, so that 0 is "no slot" as it is  *)
(* in the jobs and in config.pending.                                      *)
(***************************************************************************)
EXTENDS Integers, Sequences, FiniteSets, SequencesExt

CONSTANTS Scope,         \* the words of the learning range, in order
          ChunkRecords,  \* records in one file (32 in the code)
          Kept,          \* the words that have a record from earlier days, in the first file
          JobCount,      \* length of the queue (8 in the code)
          Quota,         \* new cards a day
          Share,         \* every Share-th new card is a collected one (4 in the code)
          MaxGeneration, \* bound: requests and cancellations
          MaxDay,        \* bound: days
          MaxFaults      \* bound: refused reads and saves, want of memory, power failures

ASSUME WordsAssumption ==
  /\ Scope \in Seq(Range(Scope)) /\ IsInjective(Scope)
  /\ {ChunkRecords, JobCount, Quota, Share} \subseteq Nat \ {0}
  /\ {MaxGeneration, MaxDay, MaxFaults} \subseteq Nat
  /\ Kept \in Nat /\ Kept <= ChunkRecords /\ Kept <= Len(Scope)

VARIABLES pc,       \* where the worker is
          after,    \* where it goes on when a save is through
          job,      \* the job it executes
          res,      \* the result it prepares
          queue, generation, failed_serial, completed, stopping,
          flush,    \* flush_requested, flush_finished and flush_success
          active_slot, card_token,
          cfg,      \* words_config_t: cursor and pending
          cache, cached_chunk, dirty_chunk, dirty_config,
          index,    \* one [phase, flags] for each slot
          daily,    \* the counts of a day; history: half made, the clock set back since they were whole
          chunks, saved_cfg,   \* what the medium holds
          page,     \* the page on top, its request and the card the study page shows
          day,
          faults,   \* faults so far
          rated     \* history: tokens of the cards rated since the module was loaded

svcVars == <<queue, generation, failed_serial, completed, stopping, flush>>
cardVars == <<active_slot, card_token, rated>>
storeVars == <<cfg, cache, cached_chunk, dirty_chunk, dirty_config, index, daily>>
diskVars == <<chunks, saved_cfg>>
worldVars == <<day, faults>>
vars == <<pc, after, job, res, svcVars, cardVars, storeVars, diskVars, page, worldVars>>

Words == Range(Scope)
NoChunk == Len(Scope) + 1                       \* UINT32_MAX in the code
Flags == {"collected", "paused"}
NoJob == [kind |-> "none", serial |-> 0, slot |-> 0, token |-> 0, word |-> Scope[1], value |-> FALSE]
NoResult == [serial |-> 0, slot |-> 0, token |-> 0, ok |-> FALSE, accepted |-> FALSE]
NoCard == [slot |-> 0, token |-> 0]
NoDaily == [day |-> MaxDay + 1, added |-> 0, reviewed |-> 0, ratings |-> 0, collected |-> 0,
            made |-> "whole", clock |-> "on"]
NoFlush == [requested |-> FALSE, finished |-> FALSE, success |-> FALSE]
NoPage == [kind |-> "none", request |-> 0, card |-> NoCard]
NewRecord(word) == [word |-> word, phase |-> "new", flags |-> {}, first |-> MaxDay + 1,
                    rated |-> MaxDay + 1, n |-> 0]

\* The medium, the allocator, the clock, the card or the power fails the program here.
Fault == faults < MaxFaults /\ faults' = faults + 1
NoFault == UNCHANGED faults

\* words_store_flush is called on the way to a step; with nothing dirty it is through at once.
SaveThen(step) ==
  /\ pc' = IF dirty_chunk \/ dirty_config THEN "save" ELSE step
  /\ after' = IF dirty_chunk \/ dirty_config THEN step ELSE after

cancellable(kind) == kind \in {"read", "scope"}
stale(j) == j.serial # generation \/ stopping

-----------------------------------------------------------------------------
(* The records.                                                            *)

ChunkOf(slot) == ((slot - 1) \div ChunkRecords) + 1
At(slot) == ((slot - 1) % ChunkRecords) + 1
Chunks == 1 .. ChunkOf(Len(Scope))

\* A record as words_store_get finds it.
Record(slot) ==
  IF ChunkOf(slot) = cached_chunk THEN cache[At(slot)] ELSE chunks[ChunkOf(slot)][At(slot)]

Key(record) == [phase |-> record.phase, flags |-> record.flags]

\* The files words_store_open reads: it stops after the first that is missing or not full.
Scanned(files) ==
  {n \in Chunks : files[n] # <<>> /\ \A m \in 1 .. n - 1 : Len(files[m]) = ChunkRecords}

\* Their records, in the order they are read: only the last of these files may not be full.
ScannedRecords(files) ==
  LET last == Cardinality(Scanned(files))
  IN [s \in 1 .. (IF last = 0 THEN 0 ELSE ((last - 1) * ChunkRecords) + Len(files[last])) |->
        files[ChunkOf(s)][At(s)]]

\* What one record adds to the counts of a day.
Count(record, d) ==
  [added |-> IF record.phase # "new" /\ record.first = d THEN 1 ELSE 0,
   reviewed |-> IF record.n # 0 /\ record.rated = d /\ record.first # d THEN 1 ELSE 0,
   ratings |-> IF record.n # 0 /\ record.rated = d THEN record.n ELSE 0,
   collected |-> IF "collected" \in record.flags THEN 1 ELSE 0]

\* The sum of the amounts: as many as there are units in them.
Total(amounts) == Cardinality(UNION {{s} \X (1 .. amounts[s]) : s \in DOMAIN amounts})

\* The counts of the records in these slots.
CountsOf(slots, d) ==
  [day |-> d,
   added |-> Total([s \in slots |-> Count(Record(s), d).added]),
   reviewed |-> Total([s \in slots |-> Count(Record(s), d).reviewed]),
   ratings |-> Total([s \in slots |-> Count(Record(s), d).ratings]),
   collected |-> Total([s \in slots |-> Count(Record(s), d).collected]),
   made |-> "whole", clock |-> "on"]

words_store_counts(d) == CountsOf(DOMAIN index, d)

\* words_store_find: the slot of a word, 0 if it has none.
words_store_find(word) ==
  LET found == {s \in DOMAIN index : Record(s).word = word}
  IN IF found = {} THEN 0 ELSE CHOOSE s \in found : TRUE

collection_new ==
  LET new == {s \in DOMAIN index : index[s] = [phase |-> "new", flags |-> {"collected"}]}
  IN IF new = {} THEN 0 ELSE CHOOSE s \in new : \A t \in new : s <= t

\* words_store_put, of a record whose file is the one in memory.
words_store_put(slot, record) ==
  /\ cache' = IF At(slot) > Len(cache) THEN Append(cache, record) ELSE [cache EXCEPT ![At(slot)] = record]
  /\ index' = IF slot > Len(index) THEN Append(index, Key(record)) ELSE [index EXCEPT ![slot] = Key(record)]
  /\ dirty_chunk' = TRUE
  /\ UNCHANGED cached_chunk

\* (seeded fault) The counts of the day are left to the next start.
put_recordUncounted(slot, old, record) == words_store_put(slot, record) /\ UNCHANGED daily

\* put_record: the counts of the day follow the record by what it changed.  They are
\* unsigned: a count below zero stands for one that has wrapped round.
put_record(slot, old, record) ==
  LET before == Count(old, daily.day)
      now == Count(record, daily.day)
  IN /\ words_store_put(slot, record)
     /\ daily' = [daily EXCEPT !.added = (@ + now.added) - before.added,
                               !.reviewed = (@ + now.reviewed) - before.reviewed,
                               !.ratings = (@ + now.ratings) - before.ratings,
                               !.collected = (@ + now.collected) - before.collected]

-----------------------------------------------------------------------------
Init ==
  /\ pc = "off" /\ after = "top" /\ job = NoJob /\ res = NoResult
  /\ queue = <<>> /\ generation = 0 /\ failed_serial = 0 /\ completed = NoResult /\ stopping = FALSE
  /\ flush = NoFlush
  /\ active_slot = 0 /\ card_token = 0 /\ rated = {}
  /\ cfg = [cursor |-> 0, pending |-> 0]
  /\ cache = <<>> /\ cached_chunk = NoChunk /\ dirty_chunk = FALSE /\ dirty_config = FALSE
  /\ index = <<>> /\ daily = NoDaily
  /\ chunks = [n \in Chunks |-> IF n = 1 THEN [s \in 1 .. Kept |-> NewRecord(Scope[s])] ELSE <<>>]
  /\ saved_cfg = [cursor |-> 0, pending |-> 0]
  /\ page = NoPage /\ day = 0 /\ faults = 0

(***************************************************************************)
(* The worker.                                                             *)
(***************************************************************************)
\* words_store_open: the whole store is read, or the service runs without one.
words_store_open ==
  /\ pc = "open"
  /\ active_slot' = 0
  /\ dirty_chunk' = FALSE
  /\ daily' = NoDaily
  /\ \/ /\ index' = [s \in 1 .. Len(ScannedRecords(chunks)) |-> Key(ScannedRecords(chunks)[s])]
        /\ cached_chunk' = IF index' = <<>> THEN NoChunk ELSE Cardinality(Scanned(chunks))
        /\ cache' = IF index' = <<>> THEN <<>> ELSE chunks[cached_chunk']
        /\ dirty_config' = (saved_cfg.pending > Len(index'))
        /\ cfg' = IF dirty_config' THEN [saved_cfg EXCEPT !.pending = 0] ELSE saved_cfg
        /\ pc' = "top" /\ NoFault
     \/ /\ pc' = "unready" /\ Fault
        /\ dirty_config' = FALSE
        /\ index' = <<>> /\ cached_chunk' = NoChunk /\ cache' = <<>>
        /\ UNCHANGED cfg
  /\ UNCHANGED <<after, job, res, svcVars, card_token, rated, diskVars, page, day>>

\* The service without a store: every job fails, a flush has nothing to save.
Unready ==
  /\ pc = "unready"
  /\ IF stopping
     THEN pc' = "closed" /\ UNCHANGED <<queue, completed, flush>>
     ELSE /\ UNCHANGED pc
          /\ \/ /\ queue # <<>>
                /\ queue' = Tail(queue)
                /\ completed' = IF stale(Head(queue)) THEN completed
                                ELSE [NoResult EXCEPT !.serial = Head(queue).serial]
                /\ UNCHANGED flush
             \/ /\ queue = <<>> /\ flush.requested
                /\ flush' = [requested |-> FALSE, finished |-> TRUE, success |-> TRUE]
                /\ UNCHANGED <<queue, completed>>
  /\ UNCHANGED <<after, job, res, generation, failed_serial, stopping, cardVars, storeVars,
                 diskVars, page, worldVars>>

\* The head of the loop in run(): the next job, or a save and an answer to a flush.
Take ==
  /\ pc = "top" /\ ~stopping /\ queue # <<>>
  /\ LET next == Head(queue) IN
     /\ queue' = Tail(queue)
     /\ \/ /\ cancellable(next.kind) /\ stale(next)
           /\ NoFault /\ UNCHANGED <<pc, after, job, res, failed_serial>>
        \/ /\ ~(cancellable(next.kind) /\ stale(next))
           /\ failed_serial' = next.serial /\ Fault            \* no memory for the result
           /\ UNCHANGED <<pc, after, job, res>>
        \/ /\ ~(cancellable(next.kind) /\ stale(next))
           /\ job' = next
           /\ res' = [NoResult EXCEPT !.serial = next.serial]
           /\ SaveThen("exec")
           /\ NoFault /\ UNCHANGED failed_serial
  /\ UNCHANGED <<generation, completed, stopping, flush, cardVars, storeVars, diskVars, page, day>>

Idle ==
  /\ pc = "top"
  /\ stopping \/ queue = <<>>
  /\ SaveThen(IF stopping THEN "closed" ELSE "idle")
  /\ UNCHANGED <<job, res, svcVars, cardVars, storeVars, diskVars, page, worldVars>>

\* Where the worker goes when a save has failed.
Failing == CASE after = "closed" -> "closed" [] after = "idle" -> "unsaved" [] after = "top" -> "top"
             [] OTHER -> "publish"

\* words_store_flush, first the records in memory and then the configuration.
SaveChunk ==
  /\ pc = "save" /\ dirty_chunk
  /\ \/ /\ chunks' = [chunks EXCEPT ![cached_chunk] = cache]
        /\ dirty_chunk' = FALSE
        /\ NoFault
        /\ pc' = (IF dirty_config THEN pc ELSE after) /\ UNCHANGED res
     \/ /\ Fault
        /\ pc' = Failing
        /\ res' = [res EXCEPT !.ok = FALSE]
        /\ UNCHANGED <<chunks, dirty_chunk>>
  /\ UNCHANGED <<after, job, svcVars, cardVars, cfg, cache, cached_chunk, dirty_config, index, daily,
                 saved_cfg, page, day>>

\* (seeded fault) A refused save of the records does not stop that of the configuration.
SaveConfigAnyway ==
  /\ pc = "save" /\ dirty_config
  /\ saved_cfg' = cfg
  /\ dirty_config' = FALSE
  /\ pc' = after
  /\ NoFault
  /\ UNCHANGED <<after, job, res, svcVars, cardVars, cfg, cache, cached_chunk, dirty_chunk, index,
                 daily, chunks, page, day>>

SaveConfig ==
  /\ pc = "save" /\ ~dirty_chunk /\ dirty_config
  /\ \/ /\ saved_cfg' = cfg
        /\ dirty_config' = FALSE
        /\ pc' = after
        /\ NoFault /\ UNCHANGED res
     \/ /\ Fault
        /\ pc' = Failing
        /\ res' = [res EXCEPT !.ok = FALSE]
        /\ UNCHANGED <<saved_cfg, dirty_config>>
  /\ UNCHANGED <<after, job, svcVars, cardVars, cfg, cache, cached_chunk, dirty_chunk, index, daily,
                 chunks, page, day>>

\* The answer to a flush, under the guard, after the save and before the wait.
Answer ==
  /\ pc \in {"idle", "unsaved"}
  /\ flush' = IF flush.requested
              THEN [requested |-> FALSE, finished |-> TRUE, success |-> pc = "idle"] ELSE flush
  /\ pc' = "wait"
  /\ UNCHANGED <<after, job, res, queue, generation, failed_serial, completed, stopping, cardVars,
                 storeVars, diskVars, page, worldVars>>

\* epd_service_wait: a job, a flush, a stop, a change of the network or a wake left over.
Wake ==
  /\ pc = "wait"
  /\ pc' = "top"
  /\ UNCHANGED <<after, job, res, svcVars, cardVars, storeVars, diskVars, page, worldVars>>

-----------------------------------------------------------------------------
(* execute().  Its stretches: "exec" the day, "do" the job, "next" the     *)
(* choice of a card, "scope" one word of the learning range, "select" and  *)
(* "show" the chosen card.  A stretch that needs a file that is not in     *)
(* memory loads it first, and saves what is dirty before that.             *)

Refuse == pc' = "publish" /\ res' = [res EXCEPT !.ok = FALSE]
Fail == Fault /\ Refuse
Finish == pc' = "publish" /\ res' = [res EXCEPT !.ok = TRUE]
Choose(slot) == pc' = "select" /\ res' = [res EXCEPT !.slot = slot]

\* (seeded fault) Any card that has a slot may be rated.
RateCurrentAny == job.slot # 0

RateCurrent == job.slot # 0 /\ job.slot = active_slot /\ job.token = card_token
Marks == job.kind \in Flags

SlotOrNew(word) == IF words_store_find(word) = 0 THEN Len(index) + 1 ELSE words_store_find(word)
NextWord == Scope[cfg.cursor + 1]

\* The slot whose file the next stretch needs, 0 if it needs none.
Needed ==
  CASE pc = "do" /\ job.kind = "rate" /\ RateCurrent -> job.slot
    [] pc = "do" /\ Marks -> IF job.slot # 0 THEN job.slot ELSE SlotOrNew(job.word)
    [] pc = "scope" /\ cfg.cursor < Len(Scope) /\ ~stale(job) -> SlotOrNew(NextWord)
    [] pc = "show" -> res.slot
    [] OTHER -> 0
Loaded == Needed = 0 \/ ChunkOf(Needed) = cached_chunk
Stretches == {"do", "scope", "show"}

\* (seeded fault) Another file is read without saving the one in memory.
LoadUnsaved ==
  /\ pc \in Stretches /\ ~Loaded
  /\ cached_chunk' = ChunkOf(Needed)
  /\ cache' = IF Needed > Len(index) /\ At(Needed) = 1 THEN <<>> ELSE chunks[ChunkOf(Needed)]
  /\ NoFault
  /\ UNCHANGED <<pc, after, job, res, svcVars, cardVars, cfg, dirty_chunk, dirty_config, index,
                 daily, diskVars, page, day>>

\* load(): save what is dirty, then read the file or start a new one.
Load ==
  /\ pc \in Stretches /\ ~Loaded
  /\ \/ /\ dirty_chunk \/ dirty_config
        /\ pc' = "save" /\ after' = pc
        /\ NoFault /\ UNCHANGED <<res, cache, cached_chunk>>
     \/ /\ ~dirty_chunk /\ ~dirty_config
        /\ cached_chunk' = ChunkOf(Needed)
        /\ cache' = IF Needed > Len(index) /\ At(Needed) = 1 THEN <<>> ELSE chunks[ChunkOf(Needed)]
        /\ NoFault /\ UNCHANGED <<pc, after, res>>
     \/ /\ ~dirty_chunk /\ ~dirty_config
        /\ Needed <= Len(index) \/ At(Needed) # 1
        /\ cached_chunk' = NoChunk /\ cache' = <<>>
        /\ Fail
        /\ UNCHANGED after
  /\ UNCHANGED <<job, svcVars, cardVars, cfg, dirty_chunk, dirty_config, index, daily, diskVars,
                 page, day>>

\* update_day: on another day every file is read and the counts are made again, from zero;
\* a file that cannot be read leaves them half made, and the day they are for as it was.
UpdateDay ==
  /\ pc = "exec"
  /\ \/ /\ daily.day = day
        /\ pc' = "do"
        /\ NoFault /\ UNCHANGED <<res, cache, cached_chunk, daily>>
     \/ /\ daily.day # day
        /\ daily' = words_store_counts(day)
        /\ cached_chunk' = IF index = <<>> THEN cached_chunk ELSE ChunkOf(Len(index))
        /\ cache' = IF cached_chunk' = cached_chunk THEN cache ELSE chunks[cached_chunk']
        /\ pc' = "do"
        /\ NoFault /\ UNCHANGED res
     \/ /\ daily.day # day
        /\ \E n \in 1 .. ChunkOf(Len(index)) :          \* the file that cannot be read
             /\ index # <<>> /\ (n = 1 => cached_chunk # 1)
             /\ daily' = [CountsOf({s \in DOMAIN index : ChunkOf(s) < n}, day)
                            EXCEPT !.day = daily.day, !.made = "half", !.clock = daily.clock]
        /\ cached_chunk' = NoChunk /\ cache' = <<>>
        /\ Fail
  /\ UNCHANGED <<after, job, svcVars, cardVars, cfg, dirty_chunk, dirty_config, index, diskVars,
                 page, day>>

\* Searches, details, the home page and the collection; and the choice of a learning range.
Simple ==
  /\ pc = "do"
  /\ \/ job.kind = "read" /\ Finish /\ UNCHANGED <<cfg, dirty_config>>
     \/ job.kind = "next" /\ pc' = "next" /\ UNCHANGED <<res, cfg, dirty_config>>
     \/ /\ job.kind = "scope"
        /\ cfg' = [cfg EXCEPT !.cursor = 0]
        /\ dirty_config' = TRUE
        /\ pc' = "publish" /\ res' = [res EXCEPT !.ok = TRUE, !.accepted = TRUE]
  /\ UNCHANGED <<after, job, svcVars, cardVars, cache, cached_chunk, dirty_chunk, index, daily,
                 diskVars, page, worldVars>>

\* WORDS_RATE: only for the card shown last, once; paused cards and odd clocks are refused.
Rate ==
  /\ pc = "do" /\ job.kind = "rate" /\ Loaded
  /\ \/ Fail /\ UNCHANGED <<cardVars, storeVars>>
     \/ /\ ~RateCurrent \/ "paused" \in Record(job.slot).flags
        /\ Refuse /\ NoFault /\ UNCHANGED <<cardVars, storeVars>>
     \/ /\ RateCurrent /\ NoFault
        /\ LET old == Record(job.slot) IN
           /\ "paused" \notin old.flags
           /\ put_record(job.slot, old,
                [old EXCEPT !.phase = "seen",
                            !.first = IF old.phase = "new" THEN daily.day ELSE @,
                            !.n = IF old.rated = daily.day THEN @ + 1 ELSE 1,
                            !.rated = daily.day])
        /\ card_token' = card_token + 1
        /\ active_slot' = 0
        /\ cfg' = [cfg EXCEPT !.pending = 0]
        /\ dirty_config' = TRUE
        /\ rated' = rated \cup {job.token}
        /\ pc' = IF stale(job) THEN "publish" ELSE "next"
        /\ res' = [res EXCEPT !.ok = TRUE, !.accepted = TRUE]
  /\ UNCHANGED <<after, job, svcVars, diskVars, page, day>>

\* WORDS_COLLECT and WORDS_PAUSE set or clear a flag, of a word that may have no record yet.
Mark ==
  /\ pc = "do" /\ Marks /\ Loaded
  /\ \/ Fail /\ UNCHANGED <<active_slot, storeVars>>
     \/ LET slot == Needed
            old == IF slot > Len(index) THEN NewRecord(job.word) ELSE Record(slot)
            flags == IF job.value THEN old.flags \cup {job.kind} ELSE old.flags \ {job.kind}
            reconsider == /\ job.kind = "collected" /\ ~job.value
                          /\ old.phase = "new" /\ cfg.pending = slot
        IN /\ NoFault
           /\ put_record(slot, old, [old EXCEPT !.flags = flags])
           /\ cfg' = IF reconsider THEN [cursor |-> 0, pending |-> 0] ELSE cfg
           /\ dirty_config' = (dirty_config \/ reconsider)
           /\ active_slot' = IF reconsider THEN 0 ELSE active_slot
           /\ pc' = IF reconsider /\ job.token # 0 THEN "next" ELSE "publish"
           /\ res' = [res EXCEPT !.slot = slot, !.ok = TRUE, !.accepted = TRUE,
                                 !.token = IF slot = active_slot THEN card_token ELSE 0]
  /\ UNCHANGED <<after, job, svcVars, card_token, rated, diskVars, page, day>>

\* next_card: the card that is still pending, else one that is due, else a new one.
NextCard ==
  /\ pc = "next"
  /\ LET Shows(s) == "paused" \notin index[s].flags
         pending == cfg.pending \in DOMAIN index /\ Shows(cfg.pending)
                    /\ (index[cfg.pending].phase = "seen" \/ daily.added < Quota)
         share == daily.added < Quota /\ (daily.added % Share) = Share - 1 /\ collection_new # 0
     IN \/ pending /\ Choose(cfg.pending) /\ UNCHANGED active_slot
        \/ /\ ~pending
           /\ \E s \in DOMAIN index : index[s].phase = "seen" /\ Shows(s) /\ Choose(s)
           /\ UNCHANGED active_slot
        \/ ~pending /\ share /\ Choose(collection_new) /\ UNCHANGED active_slot
        \/ /\ ~pending /\ ~share /\ daily.added < Quota
           /\ pc' = "scope"
           /\ UNCHANGED <<res, active_slot>>
        \/ /\ ~pending /\ daily.added >= Quota
           /\ pc' = "publish" /\ res' = [res EXCEPT !.slot = 0, !.ok = TRUE]
           /\ active_slot' = 0
  /\ UNCHANGED <<after, job, svcVars, card_token, rated, storeVars, diskVars, page, worldVars>>

\* One word of the learning range: passed over if it is learned or paused, else the next card.
ScopeWord ==
  /\ pc = "scope" /\ Loaded
  /\ cfg.cursor < Len(Scope) /\ ~stale(job)
  /\ \/ Fail /\ UNCHANGED storeVars
     \/ LET slot == Needed
            known == slot \in DOMAIN index
            over == known /\ (index[slot].phase # "new" \/ "paused" \in index[slot].flags)
        IN /\ NoFault
           /\ cfg' = [cfg EXCEPT !.cursor = @ + 1]
           /\ dirty_config' = TRUE
           /\ IF known THEN UNCHANGED <<cache, cached_chunk, dirty_chunk, index>>
              ELSE words_store_put(slot, NewRecord(NextWord))
           /\ IF over THEN UNCHANGED <<pc, res>> ELSE Choose(slot)
           /\ UNCHANGED daily
  /\ UNCHANGED <<after, job, svcVars, cardVars, diskVars, page, day>>

\* The range is exhausted, or the job is stale: a collected word, or no card.
ScopeEnd ==
  /\ pc = "scope"
  /\ cfg.cursor = Len(Scope) \/ stale(job)
  /\ IF collection_new # 0
     THEN Choose(collection_new) /\ UNCHANGED active_slot
     ELSE /\ pc' = "publish" /\ res' = [res EXCEPT !.slot = 0, !.ok = TRUE]
          /\ active_slot' = 0
  /\ UNCHANGED <<after, job, svcVars, card_token, rated, storeVars, diskVars, page, worldVars>>

\* The chosen card is pending from here on, even if its text cannot be read.
Select ==
  /\ pc = "select"
  /\ pc' = "show"
  /\ cfg' = [cfg EXCEPT !.pending = res.slot]
  /\ dirty_config' = (dirty_config \/ cfg.pending # res.slot)
  /\ UNCHANGED <<after, job, res, svcVars, cardVars, cache, cached_chunk, dirty_chunk, index, daily,
                 diskVars, page, worldVars>>

\* Its text is read; a card that was not the one shown gets a token of its own.
Show ==
  /\ pc = "show" /\ Loaded
  /\ \/ Fail /\ UNCHANGED <<active_slot, card_token>>
     \/ /\ NoFault
        /\ card_token' = IF active_slot # res.slot \/ card_token = 0 THEN card_token + 1 ELSE card_token
        /\ active_slot' = res.slot
        /\ pc' = "publish"
        /\ res' = [res EXCEPT !.token = card_token', !.ok = TRUE]
  /\ UNCHANGED <<after, job, svcVars, rated, storeVars, diskVars, page, day>>

\* The result is published only to the request that is current; then everything is saved.
Publish ==
  /\ pc = "publish"
  /\ completed' = IF stale(job) THEN completed ELSE res
  /\ SaveThen("top")
  /\ job' = NoJob /\ res' = NoResult
  /\ UNCHANGED <<queue, generation, failed_serial, stopping, flush, cardVars, storeVars,
                 diskVars, page, worldVars>>

\* The end of run(): what could not be saved is lost; the dirty flags stay.
Close ==
  /\ pc = "closed"
  /\ pc' = "off"
  /\ completed' = NoResult /\ queue' = <<>>
  /\ index' = <<>> /\ cache' = <<>> /\ cached_chunk' = NoChunk
  /\ daily' = NoDaily /\ job' = NoJob /\ res' = NoResult
  /\ UNCHANGED <<after, generation, failed_serial, stopping, flush, cardVars, cfg, dirty_chunk,
                 dirty_config, diskVars, page, worldVars>>

(***************************************************************************)
(* The pages, on the UI thread.                                            *)
(***************************************************************************)
words_submit(request) ==
  IF pc = "off" \/ stopping \/ Len(queue) = JobCount
  THEN UNCHANGED <<queue, generation, completed>> /\ page' = [page EXCEPT !.request = 0]
  ELSE /\ generation < MaxGeneration
       /\ generation' = generation + 1
       /\ queue' = Append(queue, [request EXCEPT !.serial = generation + 1])
       /\ completed' = NoResult
       /\ page' = [page EXCEPT !.request = generation + 1]

words_cancel(serial) ==
  IF serial # 0 /\ serial = generation
  THEN generation < MaxGeneration /\ generation' = generation + 1 /\ completed' = NoResult
  ELSE UNCHANGED <<generation, completed>>

Request(kind) == [NoJob EXCEPT !.kind = kind]

\* The application is opened: the root page starts the service.
Open ==
  /\ page.kind = "none" /\ pc = "off"
  /\ page' = [NoPage EXCEPT !.kind = "between"]
  /\ pc' = "open"
  /\ stopping' = FALSE /\ queue' = <<>> /\ failed_serial' = 0 /\ flush' = NoFlush
  /\ UNCHANGED <<after, job, res, generation, completed, cardVars, storeVars, diskVars, worldVars>>

\* ONPAUSE: the request of the page that is left is cancelled; a write goes on all the same.
Pause ==
  /\ page.kind \in {"home", "study", "detail"}
  /\ words_cancel(page.request)
  /\ page' = [page EXCEPT !.kind = "between", !.request = 0]
  /\ UNCHANGED <<pc, after, job, res, queue, failed_serial, stopping, flush, cardVars, storeVars,
                 diskVars, worldVars>>

\* ONRESUME: the page on top asks for its data; a study page below a detail keeps its card.
Resume(kind) ==
  /\ page.kind = "between"
  /\ LET card == IF kind = "home" THEN NoCard ELSE page.card IN
     IF pc = "off" \/ stopping \/ Len(queue) = JobCount
     THEN UNCHANGED <<queue, generation, completed>> /\ page' = [page EXCEPT !.kind = kind, !.card = card]
     ELSE /\ generation < MaxGeneration
          /\ generation' = generation + 1
          /\ queue' = Append(queue, [Request(IF kind = "study" THEN "next" ELSE "read")
                                       EXCEPT !.serial = generation + 1])
          /\ completed' = NoResult
          /\ page' = [page EXCEPT !.kind = kind, !.card = card, !.request = generation + 1]
  /\ UNCHANGED <<pc, after, job, res, failed_serial, stopping, flush, cardVars, storeVars,
                 diskVars, worldVars>>

\* A click: a rating of the card shown, a mark, the next card, or another learning range.
Click ==
  /\ page.request = 0
  /\ \/ /\ page.kind = "study" /\ page.card.slot # 0
        /\ \/ words_submit([Request("rate") EXCEPT !.slot = page.card.slot, !.token = page.card.token])
           \/ \E value \in BOOLEAN :
                words_submit([Request("collected") EXCEPT !.slot = page.card.slot,
                                                          !.token = page.card.token, !.value = value])
     \/ page.kind = "study" /\ page.card.slot = 0 /\ words_submit(Request("next"))
     \/ /\ page.kind = "detail"
        /\ \E flag \in Flags, word \in Words, value \in BOOLEAN :
             words_submit([Request(flag) EXCEPT !.word = word, !.value = value])
     \/ page.kind = "home" /\ words_submit(Request("scope"))
  /\ UNCHANGED <<pc, after, job, res, failed_serial, stopping, flush, cardVars, storeVars,
                 diskVars, worldVars>>

\* poll(): the result of the page's request, or word that there was no memory for it.
Poll ==
  /\ page.kind \in {"home", "study", "detail"} /\ page.request # 0
  /\ \/ /\ completed.serial = page.request
        /\ completed' = NoResult
        /\ page' = [page EXCEPT !.request = 0,
             !.card = IF page.kind # "study" THEN @
                      ELSE IF completed.ok THEN [slot |-> completed.slot, token |-> completed.token]
                      ELSE IF completed.accepted THEN NoCard ELSE @]
     \/ /\ completed.serial # page.request /\ failed_serial = page.request
        /\ page' = [page EXCEPT !.request = 0]
        /\ UNCHANGED completed
  /\ UNCHANGED <<pc, after, job, res, queue, generation, failed_serial, stopping, flush, cardVars,
                 storeVars, diskVars, worldVars>>

\* leave() on the root page calls words_service_flush(), which waits for the worker's answer.
Leave ==
  /\ page.kind = "home"
  /\ IF pc = "off"
     THEN /\ page' = [page EXCEPT !.kind = IF dirty_chunk \/ dirty_config THEN @ ELSE "left"]
          /\ UNCHANGED flush
     ELSE /\ ~stopping
          /\ flush' = [flush EXCEPT !.requested = TRUE, !.finished = FALSE]
          /\ page' = [page EXCEPT !.kind = "saving"]
  /\ UNCHANGED <<pc, after, job, res, queue, generation, failed_serial, completed, stopping, cardVars,
                 storeVars, diskVars, worldVars>>

\* The wait ends: with the answer, with the end of the service, or after five seconds without one.
FlushDone ==
  /\ page.kind = "saving"
  /\ \/ (flush.finished \/ stopping \/ pc = "off") /\ NoFault
     \/ Fault                                                 \* 500 times 10 ms have passed
  /\ page' = [page EXCEPT !.kind = IF flush.finished /\ flush.success THEN "left" ELSE "home"]
  /\ UNCHANGED <<pc, after, job, res, svcVars, cardVars, storeVars, diskVars, day>>

\* words_service_stop from the root page's ONSTOP, after a flush or because the card has gone.
Stop ==
  /\ page.kind = "left" \/ (stopping /\ page.kind \notin {"none", "saving"})
  /\ words_cancel(generation)
  /\ stopping' = TRUE
  /\ page' = NoPage
  /\ UNCHANGED <<pc, after, job, res, queue, failed_serial, flush, cardVars, storeVars,
                 diskVars, worldVars>>

\* The system stops the service: the card the module is on has gone.
Cancel ==
  /\ pc # "off" /\ ~stopping
  /\ Fault
  /\ stopping' = TRUE
  /\ UNCHANGED <<pc, after, job, res, queue, generation, failed_serial, completed, flush, cardVars,
                 storeVars, diskVars, page, day>>

-----------------------------------------------------------------------------
Midnight ==
  /\ day < MaxDay
  /\ day' = day + 1
  /\ UNCHANGED <<pc, after, job, res, svcVars, cardVars, storeVars, diskVars, page, faults>>

\* The clock is set by hand or from the network; a page may see an earlier day again.
ClockSetBack ==
  /\ Fault
  /\ day' \in 0 .. day - 1
  /\ daily' = [daily EXCEPT !.clock = "back"]
  /\ UNCHANGED <<pc, after, job, res, svcVars, cardVars, cfg, cache, cached_chunk, dirty_chunk,
                 dirty_config, index, diskVars, page>>

\* Only the files remain (generation goes on: it is a bound here, and only compared).
PowerFailure ==
  /\ Fault
  /\ pc' = "off" /\ after' = "top" /\ job' = NoJob /\ res' = NoResult
  /\ queue' = <<>> /\ failed_serial' = 0 /\ completed' = NoResult /\ stopping' = FALSE
  /\ flush' = NoFlush
  /\ active_slot' = 0 /\ card_token' = 0 /\ rated' = {}
  /\ cfg' = [cursor |-> 0, pending |-> 0]
  /\ cache' = <<>> /\ cached_chunk' = NoChunk /\ dirty_chunk' = FALSE /\ dirty_config' = FALSE
  /\ index' = <<>> /\ daily' = NoDaily
  /\ page' = NoPage
  /\ UNCHANGED <<generation, diskVars, day>>

Worker == words_store_open \/ Unready \/ Take \/ Idle \/ SaveChunk \/ SaveConfig \/ Answer \/ Wake
          \/ Load \/ UpdateDay \/ Simple \/ Rate \/ Mark \/ NextCard \/ ScopeWord \/ ScopeEnd
          \/ Select \/ Show \/ Publish \/ Close
Pages == Open \/ Pause \/ (\E kind \in {"home", "study", "detail"} : Resume(kind)) \/ Click \/ Poll
         \/ Leave \/ FlushDone \/ Stop \/ Cancel

Next == Worker \/ Pages \/ Midnight \/ ClockSetBack \/ PowerFailure

Spec == Init /\ [][Next]_vars

-----------------------------------------------------------------------------
Records == [word : Words, phase : {"new", "seen"}, flags : SUBSET Flags,
            first : 0 .. MaxDay + 1, rated : 0 .. MaxDay + 1, n : Nat]

\* The worker's files and the service's queue stay within their sizes: at most
\* JobCount jobs wait, a file has at most ChunkRecords records, and no word has two.
TypeOK ==
  /\ Len(queue) <= JobCount
  /\ \A n \in Chunks : chunks[n] \in Seq(Records) /\ Len(chunks[n]) <= ChunkRecords
  /\ cache \in Seq(Records) /\ Len(cache) <= ChunkRecords
  /\ cached_chunk \in Chunks \cup {NoChunk}
  /\ Len(index) <= Len(Scope) /\ active_slot \in 0 .. Len(Scope)
  /\ cfg \in [cursor : 0 .. Len(Scope), pending : 0 .. Len(Scope)]
  /\ daily \in [day : 0 .. MaxDay + 1, added : Int, reviewed : Int, ratings : Int, collected : Int,
                made : {"whole", "half"}, clock : {"on", "back"}]

Running == pc \notin {"off", "open", "unready"}

\* The stretches of a job that count on the counts of the day, and the good answer that shows them.
UsesCounts ==
  \/ pc \in {"do", "next", "scope", "select", "show"}
  \/ pc = "save" /\ after \in Stretches
  \/ pc = "publish" /\ res.ok

\* What the pages are shown is made from the index and the counts of the day, which
\* follow every change by a difference: they say what the records themselves say, in
\* memory or in their files (index_set words_store.c:51, put_record words_service.c:128).
\* A recount that is refused half way leaves counts that say nothing (words_store.c:262);
\* no job uses them, since the next one counts again.  Only a clock that has been set back
\* since can bring back the day they are kept under (words_service.c:120).
MemoryIsTruth ==
  /\ TypeOK
  /\ Running => /\ \A s \in DOMAIN index : index[s] = Key(Record(s))
                /\ daily.day <= MaxDay /\ daily.made = "whole" =>
                     [daily EXCEPT !.clock = "on"] = words_store_counts(daily.day)
                /\ IsInjective([s \in DOMAIN index |-> Record(s).word])
                /\ daily.made = "half" /\ UsesCounts => daily.clock = "back"

\* A save of one file leaves in the files, read as a start reads them, every record as the
\* pages have been told: whatever the power or a refused save takes, a whole tail of the
\* changes is lost, never one out of their middle (words_store.c:57, load 77, open 122).
SavesWhole ==
  [][chunks' # chunks =>
       /\ Len(ScannedRecords(chunks')) = Len(index)
       /\ \A s \in DOMAIN index : Key(ScannedRecords(chunks')[s]) = index[s]]_vars

\* The configuration on the medium never names a card the files do not hold, though the
\* card and its number are saved in two files (words_store_flush words_store.c:57-75).
SavedPendingExists == saved_cfg.pending <= Len(ScannedRecords(chunks))

\* A card that was shown is rated once, whatever is queued, cancelled, refused or asked
\* again by a page that still shows it (words_service.c:359, 367, 278).
RatedOnce ==
  [][job.kind = "rate" /\ ~res.accepted /\ res'.accepted => job.token \notin rated]_vars

\* DESIGN.md, README.md:58: a page that leaves after a flush leaves nothing behind: every
\* job that was accepted before has been executed and saved (words_service.c:463-465, 496).
FlushCovers ==
  [][page.kind = "saving" /\ page'.kind = "left" =>
       /\ \A i \in DOMAIN queue : queue[i].kind \notin Flags \cup {"rate"}
       /\ ~dirty_chunk /\ ~dirty_config]_vars
=============================================================================
